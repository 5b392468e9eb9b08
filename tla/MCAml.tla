------------------------------- MODULE MCAml -------------------------------
(***************************************************************************)
(* The trees fix_dsdt builds: If (Zero) { External ... }, a Scope with a   *)
(* _HID for every first list entry and one with a _STA for every second.   *)
(* The name of a device n levels deep has 4 n + 3 bytes, or 10 for n = 2.  *)
(* The depths are chosen so that the packages reach both sides of the      *)
(* limits 63 and 4094.                                                     *)
(***************************************************************************)
EXTENDS Aml

NameSize(depth) == IF depth = 2 THEN 10 ELSE 4 * depth + 3

Data(size)     == [op |-> "DATA", size |-> size, children |-> <<>>]
Op(op, list)   == [op |-> op, size |-> 0, children |-> list]
Ids(first, n)  == [i \in 1 .. n |-> first + i - 1]

(* With n list entries: root, If and Zero; the n Externals and the n       *)
(* Scopes; three data nodes for each External and two for each Scope.      *)
Tree(hids, stas) ==
    LET all == hids \o stas
        n   == Len(all)
        External(k) == Op("ExternalOp", Ids(4 + 2 * n + 3 * (k - 1), 3))
        Scope(k)    == Op("ScopeOp", Ids(4 + 5 * n + 2 * (k - 1), 2))
        Term(k)     == IF k <= Len(hids) THEN 15 ELSE 6
    IN  <<Op("ROOT", <<2>> \o Ids(4 + n, n)), Op("IfOp", <<3>> \o Ids(4, n)),
          Op("ZeroOp", <<>>)>>
        \o [k \in 1 .. n |-> External(k)]
        \o [k \in 1 .. n |-> Scope(k)]
        \o [k \in 1 .. 3 * n |->
               Data(IF k % 3 = 1 THEN NameSize(all[(k + 2) \div 3]) ELSE 1)]
        \o [k \in 1 .. 2 * n |->
               Data(IF k % 2 = 1 THEN NameSize(all[(k + 1) \div 2]) ELSE Term(k \div 2))]

(* The same tree when the name in the last Scope could not be allocated.   *)
LoseName(hids, stas) ==
    [Tree(hids, stas) EXCEPT ![3 + 2 * Len(hids \o stas)].children[1] = NULL]

Lists(depths, n) == UNION {[1 .. k -> depths] : k \in 0 .. n}

SmallTrees ==
    {Tree(h, s) : h \in Lists({2, 3, 4, 11}, 2), s \in Lists({2, 5, 13, 14}, 2)}

BigTrees ==
    {Tree(<<255, 255, 255, d>>, <<>>) : d \in 248 .. 254}
    \cup {Tree(<<255, 255>>, <<255, d, 2>>) : d \in 240 .. 254}

MCTrees == SmallTrees \cup BigTrees
           \cup {LoseName(<<3>>, <<d>>) : d \in {2, 13}}
=============================================================================
