---------------------------- MODULE HeapContract ----------------------------
(***************************************************************************)
(* What the users of an allocator rely on: a block they hold lies in       *)
(* memory that belongs to the allocator, is aligned as they asked, shares  *)
(* no byte with any other block they hold, and keeps what they wrote until *)
(* they give it back.  tlsf.h promises no more; a request may always be    *)
(* refused, which changes nothing here.                                    *)
(***************************************************************************)
EXTENDS Integers, Sequences

CONSTANTS
    Addr,       \* addresses of memory words
    Word        \* distance of two words

VARIABLES
    owned,      \* addresses of the words the allocator may hand out
    held        \* blocks in use: pointer -> [align, words]

vars == <<owned, held>>

Span(p, words) == {p + Word * (i - 1) : i \in DOMAIN words}

Init == owned \subseteq Addr /\ held = <<>>

(* The blocks of S are still held, with the same contents.                 *)
Keeps(S) == \A q \in S : q \in DOMAIN held' /\ held'[q] = held[q]

(* p points to a new block: aligned, inside, apart from all the others.    *)
WellPlaced(p) ==
    LET b == held'[p]
    IN  /\ p % b.align = 0
        /\ Span(p, b.words) \subseteq owned
        /\ \A q \in DOMAIN held' \ {p} :
              Span(p, b.words) \cap Span(q, held'[q].words) = {}

(* malloc and memalign.  What the new block contains is left open.         *)
Allocate ==
    \E p \in DOMAIN held' \ DOMAIN held :
        /\ DOMAIN held' = DOMAIN held \cup {p}
        /\ Keeps(DOMAIN held)
        /\ WellPlaced(p)
        /\ UNCHANGED owned

Free ==
    \E p \in DOMAIN held :
        /\ DOMAIN held' = DOMAIN held \ {p}
        /\ Keeps(DOMAIN held \ {p})
        /\ UNCHANGED owned

(* The owner of a block writes to it.                                      *)
Write ==
    \E p \in DOMAIN held :
        /\ DOMAIN held' = DOMAIN held
        /\ Keeps(DOMAIN held \ {p})
        /\ held'[p].align = held[p].align
        /\ DOMAIN held'[p].words = DOMAIN held[p].words
        /\ UNCHANGED owned

(* realloc: block p becomes block q, perhaps the same address, with the    *)
(* common beginning unchanged.                                             *)
Resize ==
    \E p \in DOMAIN held, q \in DOMAIN held' :
        /\ DOMAIN held' = (DOMAIN held \ {p}) \cup {q}
        /\ q = p \/ q \notin DOMAIN held
        /\ Keeps(DOMAIN held \ {p})
        /\ WellPlaced(q)
        /\ \A i \in DOMAIN held[p].words \cap DOMAIN held'[q].words :
              held'[q].words[i] = held[p].words[i]
        /\ UNCHANGED owned

(* Memory is added, or taken away that no block uses.                      *)
ChangePools ==
    /\ UNCHANGED held
    /\ owned' \subseteq Addr
    /\ \A p \in DOMAIN held : Span(p, held[p].words) \subseteq owned'

Next == Allocate \/ Free \/ Write \/ Resize \/ ChangePools

Spec == Init /\ [][Next]_vars

-----------------------------------------------------------------------------
(* What the contract amounts to in every state: all blocks in use are      *)
(* aligned, lie in memory of the allocator, and share no word.             *)
BlockSafe(p) ==
    /\ p % held[p].align = 0
    /\ Span(p, held[p].words) \subseteq owned
    /\ \A q \in DOMAIN held \ {p} :
          Span(p, held[p].words) \cap Span(q, held[q].words) = {}

BlocksApart == \A p \in DOMAIN held : BlockSafe(p)
=============================================================================
