------------------------------- MODULE SetFhd -------------------------------
(***************************************************************************)
(* tablesfix.c, set_fhd: chooses a graphics mode.  One pass over the modes *)
(* from the last to the first remembers the largest mode and the largest   *)
(* one with a preferred resolution; the preferred one wins.  QueryMode may *)
(* fail for some modes, and modes without a linear frame buffer are left   *)
(* out.                                                                    *)
(***************************************************************************)
EXTENDS Integers, Sequences

CONSTANT ModeLists      \* the lists of modes a GOP may offer

(* What QueryMode says of a mode: it fails, or gives a resolution, with a  *)
(* linear frame buffer or without one (PixelFormat > PixelBitMask).  The   *)
(* product of a real resolution fits into the uint32_t it is computed in.  *)
Query  == {"error", "linear", "blt_only"}
Width  == 0 .. 32767
Height == 0 .. 65535
Mode   == [query : Query, width : Width, height : Height]

ASSUME ModeAssumption == ModeLists \subseteq Seq(Mode)

VARIABLES
    modes,          \* mode number k is modes[k + 1]
    pc,
    try_mode,
    max_pixels, max_mode,
    max_prefered_pixels, prefered_mode,
    current,        \* the mode SetMode was called with, -1 for none
    ret

vars == <<modes, pc, try_mode, max_pixels, max_mode, max_prefered_pixels,
          prefered_mode, current, ret>>

PreferedResolutions ==
    {<<3840, 2160>>, <<2560, 1600>>, <<2560, 1440>>,
     <<2240, 1400>>, <<1920, 1080>>, <<1280, 720>>}

Info(k) == modes[k + 1]

Pixels(k) == Info(k).width * Info(k).height

Usable(k) == Info(k).query = "linear"

Prefered(k) == <<Info(k).width, Info(k).height>> \in PreferedResolutions

Init ==
    /\ modes \in ModeLists
    /\ pc = "loop"
    /\ try_mode = Len(modes) - 1
    /\ max_pixels = 0 /\ max_mode = -1
    /\ max_prefered_pixels = 0 /\ prefered_mode = -1
    /\ current = -1
    /\ ret = 1

(* goto next                                                               *)
SkipMode ==
    /\ pc = "loop"
    /\ try_mode >= 0
    /\ ~ Usable(try_mode)
    /\ try_mode' = try_mode - 1
    /\ UNCHANGED <<modes, pc, max_pixels, max_mode, max_prefered_pixels,
                   prefered_mode, current, ret>>

\* mutant: one maximum serves both searches
TryModeOneMax ==
    /\ pc = "loop"
    /\ try_mode >= 0
    /\ Usable(try_mode)
    /\ IF Prefered(try_mode) /\ Pixels(try_mode) > max_pixels
       THEN prefered_mode' = try_mode /\ max_prefered_pixels' = Pixels(try_mode)
       ELSE UNCHANGED <<prefered_mode, max_prefered_pixels>>
    /\ IF Pixels(try_mode) > max_pixels
       THEN max_mode' = try_mode /\ max_pixels' = Pixels(try_mode)
       ELSE UNCHANGED <<max_mode, max_pixels>>
    /\ try_mode' = try_mode - 1
    /\ UNCHANGED <<modes, pc, current, ret>>

TryMode ==
    /\ pc = "loop"
    /\ try_mode >= 0
    /\ Usable(try_mode)
    /\ IF Prefered(try_mode) /\ Pixels(try_mode) > max_prefered_pixels
       THEN prefered_mode' = try_mode /\ max_prefered_pixels' = Pixels(try_mode)
       ELSE UNCHANGED <<prefered_mode, max_prefered_pixels>>
    /\ IF Pixels(try_mode) > max_pixels
       THEN max_mode' = try_mode /\ max_pixels' = Pixels(try_mode)
       ELSE UNCHANGED <<max_mode, max_pixels>>
    /\ try_mode' = try_mode - 1
    /\ UNCHANGED <<modes, pc, current, ret>>

final_mode == IF prefered_mode # -1 THEN prefered_mode ELSE max_mode

\* mutant: the pass leaves out mode 0
NoModeEarly ==
    /\ pc = "loop"
    /\ try_mode <= 0
    /\ final_mode < 0
    /\ pc' = "done"
    /\ UNCHANGED <<modes, try_mode, max_pixels, max_mode, max_prefered_pixels,
                   prefered_mode, current, ret>>

NoMode ==
    /\ pc = "loop"
    /\ try_mode < 0
    /\ final_mode < 0
    /\ pc' = "done"
    /\ UNCHANGED <<modes, try_mode, max_pixels, max_mode, max_prefered_pixels,
                   prefered_mode, current, ret>>

SetMode ==
    /\ pc = "loop"
    /\ try_mode < 0
    /\ final_mode >= 0
    /\ pc' = "done"
    /\ \/ current' = final_mode /\ ret' = 0
       \/ UNCHANGED <<current, ret>>
    /\ UNCHANGED <<modes, try_mode, max_pixels, max_mode, max_prefered_pixels,
                   prefered_mode>>

Over == pc = "done" /\ UNCHANGED vars

Next == SkipMode \/ TryMode \/ NoMode \/ SetMode \/ Over

Spec == Init /\ [][Next]_vars

-----------------------------------------------------------------------------
(* Properties *)

ModeNumbers == 0 .. Len(modes) - 1

(* Every variable holds a value of its type: mode numbers exist, and the   *)
(* pass never leaves the list.                                             *)
TypeOK ==
    /\ modes \in ModeLists
    /\ pc \in {"loop", "done"}
    /\ try_mode \in -1 .. Len(modes) - 1
    /\ max_pixels \in Nat /\ max_prefered_pixels \in Nat
    /\ max_mode \in {-1} \cup ModeNumbers
    /\ prefered_mode \in {-1} \cup ModeNumbers
    /\ current \in {-1} \cup ModeNumbers
    /\ ret \in {0, 1}

(* k is a largest mode of the set S.                                       *)
Largest(k, S) == k \in S /\ \A j \in S : Pixels(j) <= Pixels(k)

UsableModes   == {k \in ModeNumbers : Usable(k) /\ Pixels(k) > 0}
PreferedModes == {k \in UsableModes : Prefered(k)}

(* set_fhd sets the largest usable mode with a preferred resolution when   *)
(* there is one, however large the others are, and otherwise the largest   *)
(* usable mode.                                                            *)
BestModeSet ==
    ret = 0 => IF PreferedModes # {} THEN Largest(current, PreferedModes)
                                     ELSE Largest(current, UsableModes)

(* Only a machine without a usable mode, or a failing SetMode, is left     *)
(* without a mode.                                                         *)
GivesUpOnlyWithoutModes ==
    (pc = "done" /\ final_mode = -1) => UsableModes = {}

(* The inductive invariant: the two maxima of the modes seen so far.       *)
Seen(S) == {k \in S : k > try_mode}

MaxSoFar(mode, pixels, S) ==
    IF S = {} THEN mode = -1 /\ pixels = 0
              ELSE Largest(mode, S) /\ pixels = Pixels(mode)

IndInv ==
    /\ TypeOK
    /\ MaxSoFar(max_mode, max_pixels, Seen(UsableModes))
    /\ MaxSoFar(prefered_mode, max_prefered_pixels, Seen(PreferedModes))
    /\ pc = "done" => try_mode = -1
    /\ ret = 0 => pc = "done" /\ current = final_mode /\ current # -1
=============================================================================
