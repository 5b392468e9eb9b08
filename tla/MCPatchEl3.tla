----------------------------- MODULE MCPatchEl3 -----------------------------
(***************************************************************************)
(* Instances of PatchEl3 for TLC: small packages with a BL31 of up to two  *)
(* init sequences before and behind the message, which lies at every       *)
(* alignment; one without a message, one without an init sequence, and one *)
(* with two messages.                                                      *)
(***************************************************************************)
EXTENDS PatchEl3

Pad(n) == [i \in 1 .. n |-> 170]

Image(pre, post, gap) ==
    pre \o Pad(gap) \o stub_pattern \o Pad(6 - gap) \o post \o Pad(8)

Site == init_pattern

Bl31Images ==
    {Image(pre, post, gap) : gap \in 0 .. 3,
        pre \in {<<>>, Site, Pad(4) \o Site \o Pad(4) \o Site},
        post \in {Site, Pad(2) \o Site \o Site}}
    \cup {Pad(60), Image(<<>>, Pad(12), 1), Image(Site, stub_pattern \o Pad(2) \o Site, 2)}

(* The package: a neighbour that also has an init sequence, then BL31.     *)
Other == Pad(2) \o Site \o Pad(26)

Package(magic, isbl31, img) ==
    [magic |-> magic,
     toc   |-> <<[bl31 |-> FALSE, offset |-> 0, size |-> Len(Other)],
                 [bl31 |-> isbl31, offset |-> Len(Other), size |-> Len(img)]>>,
     bytes |-> Other \o img]

MCDumps ==
    {Package(TRUE, TRUE, img) : img \in Bl31Images}
    \cup {Package(FALSE, TRUE, Pad(60)), Package(TRUE, FALSE, Pad(60))}
=============================================================================
