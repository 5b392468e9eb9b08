---------------------------- MODULE SetFhdProofs ----------------------------
(* Proofs about SetFhd, for every set of mode lists. *)
EXTENDS SetFhd, TLAPS

(* The pixel count of a mode is a natural number.                          *)
LEMMA PixelsNat ==
    ASSUME TypeOK, NEW k \in ModeNumbers
    PROVE  Pixels(k) \in Nat
<1>1. modes \in Seq(Mode)
  BY ModeAssumption DEF TypeOK
<1>2. k + 1 \in 1 .. Len(modes)
  BY <1>1 DEF ModeNumbers
<1>3. modes[k + 1] \in Mode
  BY <1>1, <1>2
<1>4. modes[k + 1].width \in Nat /\ modes[k + 1].height \in Nat
  <2>1. modes[k + 1].width \in Width /\ modes[k + 1].height \in Height
    BY <1>3 DEF Mode
  <2>2. Width \subseteq Nat /\ Height \subseteq Nat
    BY DEF Width, Height
  <2> QED
    BY <2>1, <2>2
<1>5. \A x, y \in Nat : x * y \in Nat
  OBVIOUS
<1> QED
  BY <1>4, <1>5 DEF Pixels, Info

(* One step of a search for the largest mode: pixels is the size of the    *)
(* largest member of S, or 0 if S is empty, and mode k comes next.         *)
LEMMA LargestStep ==
    ASSUME TypeOK,
           NEW S \in SUBSET ModeNumbers, NEW k \in ModeNumbers,
           NEW mode, NEW pixels,
           MaxSoFar(mode, pixels, S)
    PROVE  /\ Pixels(k) > pixels => MaxSoFar(k, Pixels(k), S \cup {k})
           /\ (Pixels(k) > 0 /\ ~ Pixels(k) > pixels) =>
                  MaxSoFar(mode, pixels, S \cup {k})
<1>1. \A j \in ModeNumbers : Pixels(j) \in Nat
  BY PixelsNat
<1>2. CASE S = {}
  <2>1. pixels = 0
    BY <1>2 DEF MaxSoFar
  <2>2. MaxSoFar(k, Pixels(k), {k})
    BY <1>1 DEF MaxSoFar, Largest
  <2> QED
    BY <1>2, <2>1, <2>2
<1>3. CASE S # {}
  <2>1. mode \in S /\ pixels = Pixels(mode) /\ \A j \in S : Pixels(j) <= pixels
    BY <1>3 DEF MaxSoFar, Largest
  <2>2. pixels \in Nat /\ Pixels(k) \in Nat
    BY <1>1, <2>1
  <2>3. S \cup {k} # {}
    OBVIOUS
  <2>4. ASSUME Pixels(k) > pixels
        PROVE  MaxSoFar(k, Pixels(k), S \cup {k})
    <3>1. \A j \in S \cup {k} : Pixels(j) <= Pixels(k)
      BY <1>1, <2>1, <2>2, <2>4
    <3> QED
      BY <2>3, <3>1 DEF MaxSoFar, Largest
  <2>5. ASSUME ~ Pixels(k) > pixels
        PROVE  MaxSoFar(mode, pixels, S \cup {k})
    <3>1. \A j \in S \cup {k} : Pixels(j) <= Pixels(mode)
      BY <1>1, <2>1, <2>2, <2>5
    <3> QED
      BY <2>1, <2>3, <3>1 DEF MaxSoFar, Largest
  <2> QED
    BY <2>4, <2>5
<1> QED
  BY <1>2, <1>3

(* The inductive invariant holds before the first mode is tried.           *)
LEMMA IndInvInit == Init => IndInv
<1> SUFFICES ASSUME Init PROVE IndInv
  OBVIOUS
<1>1. modes \in Seq(Mode)
  BY ModeAssumption DEF Init
<1>2. Len(modes) \in Nat
  BY <1>1
<1>3. TypeOK
  BY <1>2 DEF Init, TypeOK
<1>4. \A S \in SUBSET ModeNumbers : Seen(S) = {}
  <2>1. \A k \in ModeNumbers : ~ k > try_mode
    BY <1>2 DEF Init, ModeNumbers
  <2> QED
    BY <2>1 DEF Seen
<1>5. Seen(UsableModes) = {} /\ Seen(PreferedModes) = {}
  BY <1>4 DEF UsableModes, PreferedModes
<1> QED
  BY <1>3, <1>5 DEF Init, IndInv, MaxSoFar

(* What a step that leaves the list alone keeps.                           *)
LEMMA SameModes ==
    ASSUME modes' = modes
    PROVE  /\ UsableModes' = UsableModes
           /\ PreferedModes' = PreferedModes
           /\ ModeNumbers' = ModeNumbers
           /\ \A k : Pixels(k)' = Pixels(k)
           /\ \A k, S : Largest(k, S)' <=> Largest(k, S)
           /\ \A m, p, S : MaxSoFar(m, p, S)' <=> MaxSoFar(m, p, S)
  BY DEF UsableModes, PreferedModes, ModeNumbers, Usable, Prefered, Pixels,
         Info, Largest, MaxSoFar

(* Every step of set_fhd keeps the inductive invariant.                    *)
LEMMA IndInvNext == IndInv /\ [Next]_vars => IndInv'
<1> SUFFICES ASSUME IndInv, [Next]_vars PROVE IndInv'
  OBVIOUS
<1> USE DEF IndInv
<1>1. modes \in Seq(Mode) /\ Len(modes) \in Nat
  BY ModeAssumption DEF TypeOK
<1>2. ASSUME pc = "loop", try_mode >= 0, modes' = modes, try_mode' = try_mode - 1
      PROVE  /\ try_mode \in ModeNumbers
             /\ Seen(UsableModes)' = IF try_mode \in UsableModes
                   THEN Seen(UsableModes) \cup {try_mode} ELSE Seen(UsableModes)
             /\ Seen(PreferedModes)' = IF try_mode \in PreferedModes
                   THEN Seen(PreferedModes) \cup {try_mode} ELSE Seen(PreferedModes)
  <2>1. try_mode \in ModeNumbers
    BY <1>1, <1>2 DEF TypeOK, ModeNumbers
  <2>2. \A S \in SUBSET ModeNumbers :
           {k \in S : k > try_mode'} =
              IF try_mode \in S THEN {k \in S : k > try_mode} \cup {try_mode}
                                ELSE {k \in S : k > try_mode}
    <3>1. \A k \in ModeNumbers : k > try_mode' <=> k > try_mode \/ k = try_mode
      BY <1>1, <1>2, <2>1 DEF ModeNumbers
    <3>2. TAKE S \in SUBSET ModeNumbers
    <3>3. \A k \in S : k > try_mode' <=> k > try_mode \/ k = try_mode
      BY <3>1
    <3>4. ~ try_mode > try_mode
      BY <1>1, <2>1 DEF ModeNumbers
    <3> QED
      BY <3>3, <3>4, Zenon
  <2>3. UsableModes \in SUBSET ModeNumbers /\ PreferedModes \in SUBSET ModeNumbers
    BY DEF UsableModes, PreferedModes
  <2>4. UsableModes' = UsableModes /\ PreferedModes' = PreferedModes
    BY <1>2, SameModes
  <2> QED
    BY <2>1, <2>2, <2>3, <2>4 DEF Seen
<1>3. CASE SkipMode
  <2>1. try_mode \notin UsableModes /\ try_mode \notin PreferedModes
    BY <1>3 DEF SkipMode, UsableModes, PreferedModes
  <2>2. Seen(UsableModes)' = Seen(UsableModes) /\ Seen(PreferedModes)' = Seen(PreferedModes)
    BY <1>2, <1>3, <2>1 DEF SkipMode
  <2>3. TypeOK'
    BY <1>1, <1>3 DEF SkipMode, TypeOK, ModeNumbers
  <2>4. modes' = modes /\ max_mode' = max_mode /\ max_pixels' = max_pixels
        /\ prefered_mode' = prefered_mode /\ max_prefered_pixels' = max_prefered_pixels
        /\ pc' = "loop" /\ ret' = ret /\ pc = "loop"
    BY <1>3 DEF SkipMode
  <2>5. MaxSoFar(max_mode, max_pixels, Seen(UsableModes))'
    BY <2>2, <2>4 DEF MaxSoFar, Largest, Pixels, Info
  <2>6. MaxSoFar(prefered_mode, max_prefered_pixels, Seen(PreferedModes))'
    BY <2>2, <2>4 DEF MaxSoFar, Largest, Pixels, Info
  <2> QED
    BY <2>3, <2>4, <2>5, <2>6
<1>4. CASE TryMode
  <2> DEFINE k == try_mode
  <2>1. k \in ModeNumbers /\ Usable(k) /\ modes' = modes /\ pc = "loop" /\ pc' = "loop"
        /\ ret' = ret
    BY <1>2, <1>4 DEF TryMode
  <2>2. Pixels(k) \in Nat
    BY <2>1, PixelsNat
  <2>3. TypeOK'
    <3>1. try_mode' \in -1 .. Len(modes) - 1
      BY <1>1, <1>4 DEF TryMode, TypeOK
    <3>2. max_mode' \in {-1} \cup ModeNumbers /\ max_pixels' \in Nat
      BY <1>4, <2>1, <2>2 DEF TryMode, TypeOK
    <3>3. prefered_mode' \in {-1} \cup ModeNumbers /\ max_prefered_pixels' \in Nat
      BY <1>4, <2>1, <2>2 DEF TryMode, TypeOK
    <3> QED
      BY <1>4, <2>1, <3>1, <3>2, <3>3 DEF TryMode, TypeOK, ModeNumbers
  <2>4. /\ k \in UsableModes <=> Pixels(k) > 0
        /\ k \in PreferedModes <=> Prefered(k) /\ Pixels(k) > 0
    BY <2>1 DEF UsableModes, PreferedModes
  <2>5. Seen(UsableModes) \in SUBSET ModeNumbers
        /\ Seen(PreferedModes) \in SUBSET ModeNumbers
    BY DEF Seen, UsableModes, PreferedModes
  <2>6. max_pixels \in Nat /\ max_prefered_pixels \in Nat
    BY DEF TypeOK
  <2>7. MaxSoFar(max_mode, max_pixels, Seen(UsableModes))'
    <3>1. Seen(UsableModes)' = IF k \in UsableModes
             THEN Seen(UsableModes) \cup {k} ELSE Seen(UsableModes)
      BY <1>2, <1>4 DEF TryMode
    <3>2. /\ Pixels(k) > max_pixels => MaxSoFar(k, Pixels(k), Seen(UsableModes) \cup {k})
          /\ (Pixels(k) > 0 /\ ~ Pixels(k) > max_pixels) =>
                MaxSoFar(max_mode, max_pixels, Seen(UsableModes) \cup {k})
      BY <2>1, <2>5, LargestStep
    <3>3. IF Pixels(k) > max_pixels
          THEN max_mode' = k /\ max_pixels' = Pixels(k)
          ELSE max_mode' = max_mode /\ max_pixels' = max_pixels
      BY <1>4 DEF TryMode
    <3>4. Pixels(k) > max_pixels => Pixels(k) > 0
      BY <2>2, <2>6
    <3>5. MaxSoFar(max_mode', max_pixels', Seen(UsableModes)')
      BY <2>4, <3>1, <3>2, <3>3, <3>4
    <3> QED
      BY <2>1, <3>5 DEF MaxSoFar, Largest, Pixels, Info
  <2>8. MaxSoFar(prefered_mode, max_prefered_pixels, Seen(PreferedModes))'
    <3>1. Seen(PreferedModes)' = IF k \in PreferedModes
             THEN Seen(PreferedModes) \cup {k} ELSE Seen(PreferedModes)
      BY <1>2, <1>4 DEF TryMode
    <3>2. /\ Pixels(k) > max_prefered_pixels =>
                MaxSoFar(k, Pixels(k), Seen(PreferedModes) \cup {k})
          /\ (Pixels(k) > 0 /\ ~ Pixels(k) > max_prefered_pixels) =>
                MaxSoFar(prefered_mode, max_prefered_pixels, Seen(PreferedModes) \cup {k})
      BY <2>1, <2>5, LargestStep
    <3>3. IF Prefered(k) /\ Pixels(k) > max_prefered_pixels
          THEN prefered_mode' = k /\ max_prefered_pixels' = Pixels(k)
          ELSE prefered_mode' = prefered_mode /\ max_prefered_pixels' = max_prefered_pixels
      BY <1>4 DEF TryMode
    <3>4. Pixels(k) > max_prefered_pixels => Pixels(k) > 0
      BY <2>2, <2>6
    <3>5. MaxSoFar(prefered_mode', max_prefered_pixels', Seen(PreferedModes)')
      BY <2>4, <3>1, <3>2, <3>3, <3>4
    <3> QED
      BY <2>1, <3>5 DEF MaxSoFar, Largest, Pixels, Info
  <2> QED
    BY <2>1, <2>3, <2>7, <2>8
<1>5. CASE pc = "loop" /\ try_mode < 0 /\ pc' = "done"
           /\ UNCHANGED <<modes, try_mode, max_pixels, max_mode,
                          max_prefered_pixels, prefered_mode>>
           /\ \/ final_mode >= 0 /\ current' = final_mode /\ ret' = 0
              \/ UNCHANGED <<current, ret>>
  <2>1. try_mode = -1
    BY <1>1, <1>5 DEF TypeOK
  <2>2. final_mode \in {-1} \cup ModeNumbers
    BY DEF TypeOK, final_mode
  <2>3. TypeOK'
    BY <1>5, <2>2 DEF TypeOK, ModeNumbers
  <2>4. final_mode' = final_mode
    BY <1>5 DEF final_mode
  <2>5. ret' = 0 => current' = final_mode' /\ current' # -1
    BY <1>5, <2>4
  <2>6. MaxSoFar(max_mode, max_pixels, Seen(UsableModes))'
    BY <1>5 DEF MaxSoFar, Largest, Pixels, Info, Seen, UsableModes, ModeNumbers, Usable
  <2>7. MaxSoFar(prefered_mode, max_prefered_pixels, Seen(PreferedModes))'
    BY <1>5 DEF MaxSoFar, Largest, Pixels, Info, Seen, UsableModes, PreferedModes,
                ModeNumbers, Usable, Prefered
  <2> QED
    BY <1>5, <2>1, <2>3, <2>5, <2>6, <2>7
<1>6. CASE NoMode \/ SetMode
  BY <1>5, <1>6 DEF NoMode, SetMode
<1>7. CASE UNCHANGED vars
  BY <1>7 DEF vars, TypeOK, MaxSoFar, Largest, Pixels, Info, Seen, UsableModes,
              PreferedModes, ModeNumbers, Usable, Prefered, final_mode
<1> QED
  BY <1>3, <1>4, <1>6, <1>7 DEF Next, Over

(* The inductive invariant holds in every reachable state.                 *)
LEMMA IndInvHolds == Spec => []IndInv
  BY IndInvInit, IndInvNext, PTL DEF Spec

(* When the pass is over the maxima are those of all modes.                *)
LEMMA AllSeen ==
    ASSUME IndInv, pc = "done"
    PROVE  Seen(UsableModes) = UsableModes /\ Seen(PreferedModes) = PreferedModes
<1>1. try_mode = -1 /\ Len(modes) \in Nat
  BY ModeAssumption DEF IndInv, TypeOK
<1>2. \A k \in ModeNumbers : k > -1
  BY <1>1 DEF ModeNumbers
<1> QED
  BY <1>1, <1>2 DEF Seen, UsableModes, PreferedModes

(* set_fhd sets the largest preferred mode, or the largest mode.           *)
THEOREM SetsBestMode == Spec => []BestModeSet
<1>1. IndInv => BestModeSet
  <2> SUFFICES ASSUME IndInv, ret = 0 PROVE BestModeSet
    BY DEF BestModeSet
  <2>1. pc = "done" /\ current = final_mode /\ current # -1
    BY DEF IndInv
  <2>2. MaxSoFar(max_mode, max_pixels, UsableModes)
        /\ MaxSoFar(prefered_mode, max_prefered_pixels, PreferedModes)
    BY <2>1, AllSeen DEF IndInv
  <2>3. CASE PreferedModes = {}
    <3>1. prefered_mode = -1
      BY <2>2, <2>3 DEF MaxSoFar
    <3>2. current = max_mode /\ max_mode # -1
      BY <2>1, <3>1 DEF final_mode
    <3> QED
      BY <2>2, <2>3, <3>2 DEF MaxSoFar, BestModeSet
  <2>4. CASE PreferedModes # {}
    <3>1. Largest(prefered_mode, PreferedModes)
      BY <2>2, <2>4 DEF MaxSoFar
    <3>2. prefered_mode \in ModeNumbers /\ Len(modes) \in Nat
      BY <3>1, ModeAssumption DEF Largest, PreferedModes, UsableModes, IndInv, TypeOK
    <3>3. prefered_mode # -1
      BY <3>2 DEF ModeNumbers
    <3>4. current = prefered_mode
      BY <2>1, <3>3 DEF final_mode
    <3> QED
      BY <2>4, <3>1, <3>4 DEF BestModeSet
  <2> QED
    BY <2>3, <2>4
<1> QED
  BY <1>1, IndInvHolds, PTL

(* set_fhd gives up only where no mode is usable.                          *)
THEOREM GivesUpOnlyWithoutModesHolds == Spec => []GivesUpOnlyWithoutModes
<1>1. IndInv => GivesUpOnlyWithoutModes
  <2> SUFFICES ASSUME IndInv, pc = "done", final_mode = -1, UsableModes # {}
               PROVE  FALSE
    BY DEF GivesUpOnlyWithoutModes
  <2>1. Largest(max_mode, UsableModes)
    BY AllSeen DEF IndInv, MaxSoFar
  <2>2. max_mode \in ModeNumbers /\ Len(modes) \in Nat
    BY <2>1, ModeAssumption DEF Largest, UsableModes, IndInv, TypeOK
  <2>3. max_mode # -1
    BY <2>2 DEF ModeNumbers
  <2> QED
    BY <2>3 DEF final_mode
<1> QED
  BY <1>1, IndInvHolds, PTL
=============================================================================
