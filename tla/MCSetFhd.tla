------------------------------ MODULE MCSetFhd ------------------------------
(* All lists of up to four modes drawn from seven kinds. *)
EXTENDS SetFhd

Usual(h, v) == [query |-> "linear", width |-> h, height |-> v]

Kinds ==
    {Usual(1920, 1080), Usual(1280, 720), Usual(1920, 1200), Usual(4096, 2160),
     Usual(0, 0),
     [Usual(3840, 2160) EXCEPT !.query = "error"],
     [Usual(2560, 1600) EXCEPT !.query = "blt_only"]}

MCModeLists == UNION {[1 .. len -> Kinds] : len \in 0 .. 4}
=============================================================================
