-------------------------------- MODULE Aml --------------------------------
(***************************************************************************)
(* aml.c: aml_node_size computes the size of a tree of AML nodes, and      *)
(* aml_node_serialize writes the tree into a buffer of that size, asking   *)
(* aml_node_size again for every child to learn where the next one goes.   *)
(* The serialiser keeps no end of the buffer: that it stays inside, leaves *)
(* no gap and writes lengths an interpreter can follow rests on the two    *)
(* functions agreeing about every node.                                    *)
(*                                                                         *)
(* The recursion of the serialiser is modelled with its stack.  What is    *)
(* written is a list of chunks; the bytes of a data node are not           *)
(* distinguished.                                                          *)
(***************************************************************************)
EXTENDS AmlPkg

CONSTANT Trees      \* the trees the serialiser may be given

(* A tree is the sequence of its nodes, the root first; a child is the     *)
(* number of a node behind its parent, or NULL when its allocation failed. *)
NULL == 0

Node ==
    [op : {"DATA", "ROOT", "ScopeOp", "IfOp", "ExternalOp", "ZeroOp"},
     size : Nat,            \* data_size of a DATA node
     children : Seq(Nat)]

IsTree(t) ==
    /\ t \in Seq(Node) /\ t # <<>>
    /\ \A n \in DOMAIN t :
          /\ t[n].op = "ROOT" => n = 1
          /\ \A i \in DOMAIN t[n].children :
                t[n].children[i] = NULL \/ t[n].children[i] \in n + 1 .. Len(t)

Container(node) == node.op \in {"ScopeOp", "IfOp"}

(* The sizes of the children added up, from the first to each of them.     *)
PrefixSums(s) ==
    LET sum[k \in 0 .. Len(s)] == IF k = 0 THEN 0 ELSE sum[k - 1] + s[k]
    IN  sum

ChildrenSize(node, size) ==
    PrefixSums([i \in 1 .. Len(node.children) |-> size[node.children[i]]])

(* The size of a node whose children have size bytes.                      *)
SizeWith(node, size) ==
    CASE node.op = "DATA" -> node.size
      [] node.op = "ROOT" -> size
      [] Container(node)  -> size + PkgLengthSize(size) + 1
      [] OTHER            -> size + 1   \* ExternalOp, ZeroOp

(* aml_node_size for all nodes of a tree.                                  *)
aml_node_size(t) ==
    LET size[n \in 0 .. Len(t)] ==
            IF n = NULL THEN 0
            ELSE SizeWith(t[n], ChildrenSize(t[n], size)[Len(t[n].children)])
    IN  size

(* A PkgLength has 28 bits.                                                *)
ASSUME TreeAssumption ==
    \A t \in Trees : IsTree(t) /\ aml_node_size(t)[1] < 268435456

VARIABLES
    tree,           \* the tree
    buffer_size,    \* size of the caller's buffer, -1 before it is allocated
    stack,          \* the active calls, innermost last
    chunks          \* what has been written, in order

vars == <<tree, buffer_size, stack, chunks>>

(* A call of aml_node_serialize: its node, where it writes next, how many  *)
(* children it has written and whether the head of the node is written.    *)
Call(node, pos) == [node |-> node, pos |-> pos, done |-> 0, head |-> FALSE]

Chunk(at, len, what, bytes) ==
    [at |-> at, len |-> len, what |-> what, depth |-> Len(stack), bytes |-> bytes]

Top     == stack[Len(stack)]
TopNode == tree[Top.node]

-----------------------------------------------------------------------------
Init ==
    /\ tree \in Trees
    /\ buffer_size = -1
    /\ stack = <<>>
    /\ chunks = <<>>

(* fix_dsdt: size the tree, allocate the buffer, serialise from position 0 *)
Start ==
    /\ buffer_size = -1
    /\ buffer_size' = aml_node_size(tree)[1]
    /\ stack' = <<Call(1, 0)>>
    /\ UNCHANGED <<tree, chunks>>

(* The innermost call returns 0; its caller advances by the child's size.  *)
Return ==
    IF Len(stack) = 1
    THEN stack' = <<>>
    ELSE LET caller == stack[Len(stack) - 1]
         IN  stack' = Append(SubSeq(stack, 1, Len(stack) - 2),
                        [caller EXCEPT !.pos = @ + aml_node_size(tree)[Top.node],
                                       !.done = @ + 1])

NullNode ==
    /\ stack # <<>>
    /\ Top.node = NULL
    /\ Return
    /\ UNCHANGED <<tree, buffer_size, chunks>>

DataNode ==
    /\ stack # <<>>
    /\ Top.node # NULL /\ TopNode.op = "DATA"
    /\ chunks' = Append(chunks, Chunk(Top.pos, TopNode.size, "data", <<>>))
    /\ Return
    /\ UNCHANGED <<tree, buffer_size>>

(* The bytes in front of the children: the opcode and, for a package,      *)
(* children_size of the code, which is everything behind the opcode.       *)
HeadChunks ==
    LET opcode == Chunk(Top.pos, 1, TopNode.op, <<>>)
        length == PkgLength(aml_node_size(tree)[Top.node] - 1)
    IN  CASE TopNode.op = "ROOT"  -> <<>>
          [] Container(TopNode)   -> <<opcode, Chunk(Top.pos + 1, Len(length), "pkg", length)>>
          [] OTHER                -> <<opcode>>

BytesOf(new) ==
    IF new = <<>> THEN 0 ELSE new[Len(new)].at + new[Len(new)].len - new[1].at

NodeHead ==
    /\ stack # <<>>
    /\ Top.node # NULL /\ TopNode.op # "DATA"
    /\ ~ Top.head
    /\ chunks' = chunks \o HeadChunks
    /\ stack' = [stack EXCEPT ![Len(stack)] =
                    [Top EXCEPT !.head = TRUE, !.pos = @ + BytesOf(HeadChunks)]]
    /\ UNCHANGED <<tree, buffer_size>>

(* One round of the loop over the children.                                *)
NextChild ==
    /\ stack # <<>>
    /\ Top.head
    /\ IF Top.done < Len(TopNode.children)
       THEN stack' = Append(stack, Call(TopNode.children[Top.done + 1], Top.pos))
       ELSE Return
    /\ UNCHANGED <<tree, buffer_size, chunks>>

(* The caller has the table.                                               *)
Over == buffer_size # -1 /\ stack = <<>> /\ UNCHANGED vars

Next == Start \/ NullNode \/ DataNode \/ NodeHead \/ NextChild \/ Over

Spec == Init /\ [][Next]_vars

-----------------------------------------------------------------------------
(* Properties *)

Finished == buffer_size # -1 /\ stack = <<>>

Written == IF chunks = <<>> THEN 0 ELSE chunks[Len(chunks)].at + chunks[Len(chunks)].len

(* The writes of the serialiser follow each other without a gap or an      *)
(* overlap, never leave the buffer, and end exactly at its end: the size   *)
(* computed beforehand is right for every node, missing nodes included.    *)
TilesBuffer ==
    /\ \A i \in DOMAIN chunks :
          chunks[i].at = IF i = 1 THEN 0 ELSE chunks[i - 1].at + chunks[i - 1].len
    /\ Written <= buffer_size \/ chunks = <<>>
    /\ Finished => Written = buffer_size

(* A chunk belongs to the package whose length is chunk i as far as its    *)
(* place in the buffer says, and as far as the tree says.                  *)
EndOf(i) == chunks[i].at + DecodePkgLength(chunks[i].bytes)

Inside(i) == {j \in DOMAIN chunks : j > i /\ chunks[j].at < EndOf(i)}

Below(i) == {j \in DOMAIN chunks : j > i /\ \A k \in i + 1 .. j :
                chunks[k].depth > chunks[i].depth}

(* An interpreter that reads the PkgLength of a package skips exactly what *)
(* the tree has below that node: packages nest the way the nodes do.       *)
PackagesNest ==
    Finished => \A i \in DOMAIN chunks :
        chunks[i].what = "pkg" =>
            /\ {j \in Inside(i) : chunks[j].len > 0} = {j \in Below(i) : chunks[j].len > 0}
            /\ EndOf(i) <= buffer_size
=============================================================================
