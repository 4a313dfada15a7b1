-------------------------- MODULE FragmentedBuffer --------------------------
(***************************************************************************)
(* fb::FragmentedBuffer (src/core/platform/d2_fragmented_buffer.cpp): a    *)
(* text as a list of shards, views of the source or blocks of BlockSize,   *)
(* with a history of insertions and erasures.                              *)
(*                                                                         *)
(* A buffer is a record.  The pointer is where the last jump left it: the  *)
(* shard it is in follows from the shards and its absolute offset, and     *)
(* every operation jumps before it looks at it.  Offsets count from 0.     *)
(***************************************************************************)
EXTENDS Integers, Sequences, SequencesExt, FiniteSetsExt

CONSTANT BlockSize  \* 128 in the code

View(s) == [view |-> TRUE, s |-> s]
Block(s) == [view |-> FALSE, s |-> s]

\* flatten
Flatten(shards) == FlattenSeq([i \in DOMAIN shards |-> shards[i].s])
Text(b) == Flatten(b.shards)

Before(t, pos) == SubSeq(t, 1, pos)
After(t, pos) == SubSeq(t, pos + 1, Len(t))
Least(i, j) == IF i < j THEN i ELSE j

\* _setup_buffer and _setup_view
Setup(s) == [shards |-> <<View(s)>>, history |-> <<>>, undone |-> 0, abs |-> 0,
             lost |-> FALSE]

\* _jump_char: the first shard that reaches pos, and the offset in it.
Jump(b, pos) == [b EXCEPT !.abs = Least(pos, Len(Text(b)))]
Offset(shards, i) == Len(Flatten(SubSeq(shards, 1, i - 1)))
ShardAt(shards, pos) == Min({i \in DOMAIN shards : pos <= Offset(shards, i + 1)})

\* A mutant: the block is always put in front.
SplitShardFront(shards, i, rel) == SubSeq(shards, 1, i - 1) \o <<Block(<<>>)>> \o After(shards, i - 1)

\* _split_shard: a view is cut in two, with an empty block in between.
SplitShard(shards, i, rel) ==
    LET s == shards[i].s
        new == CASE rel = 0 -> <<Block(<<>>), shards[i]>>
                 [] rel # 0 /\ rel >= Len(s) -> <<shards[i], Block(<<>>)>>
                 [] OTHER -> <<View(Before(s, rel)), Block(<<>>), View(After(s, rel))>>
    IN  SubSeq(shards, 1, i - 1) \o new \o After(shards, i)

\* _insert_data: what fits goes into the block, and the rest into new blocks behind it.
\* In a block that is larger than BlockSize everything fits, since the room is unsigned.
\* (The block before is never filled up: the pointer is at the beginning of a shard only
\* in the first one, or in a block that was just made behind a view.)
Pieces(s) == [k \in 1..((Len(s) + BlockSize - 1) \div BlockSize) |->
                 Block(SubSeq(s, (k - 1) * BlockSize + 1, Least(k * BlockSize, Len(s))))]
Room(block) == IF Len(block.s) > BlockSize THEN 100 ELSE BlockSize - Len(block.s)
\* Whether the rest of an insertion goes behind the end of a block it is in the middle of.
Misplaces(b, data) ==
    LET i == ShardAt(b.shards, b.abs)
        rel == b.abs - Offset(b.shards, i)
    IN  /\ ~b.shards[i].view
        /\ Len(data) > Room(b.shards[i]) /\ rel < Len(b.shards[i].s)

InsertData(b, data) ==
    LET i0 == ShardAt(b.shards, b.abs)
        r0 == b.abs - Offset(b.shards, i0)
        view == b.shards[i0].view
        shards == IF view THEN SplitShard(b.shards, i0, r0) ELSE b.shards
        i == IF view /\ r0 > 0 THEN i0 + 1 ELSE i0
        rel == IF view THEN 0 ELSE r0
        s == shards[i].s
        n == Least(Len(data), Room(shards[i]))
    IN  Jump([b EXCEPT !.shards = SubSeq(shards, 1, i - 1)
                  \o <<Block(Before(s, rel) \o Before(data, n) \o After(s, rel))>>
                  \o Pieces(After(data, n)) \o After(shards, i),
                          !.lost = @ \/ Misplaces(b, data)],
             b.abs + Len(data))

\* _action_erase: what is left becomes one block.
EraseData(b, len) ==
    LET t == Text(b) IN
    IF b.abs >= Len(t) \/ len = 0 THEN b
    ELSE [b EXCEPT !.shards = <<Block(Before(t, b.abs) \o After(t, b.abs + len))>>]

-----------------------------------------------------------------------------
(* History                                                                 *)

\* Action::apply and Action::revert
Apply(b, a) == LET c == Jump(b, a.abs)
               IN  IF a.kind = "insert" THEN InsertData(c, a.s) ELSE EraseData(c, Len(a.s))
Revert(b, a) ==
    LET c == Jump(b, a.abs)
    IN  Jump(IF a.kind = "insert" THEN EraseData(c, Len(a.s)) ELSE InsertData(c, a.s), a.abs)

\* _push_action: what was undone is forgotten.
PushAction(b, a) ==
    [Apply(b, a) EXCEPT !.history = Append(SubSeq(@, 1, Len(@) - b.undone), a), !.undone = 0]

UndoAction(b) == IF b.undone >= Len(b.history) THEN b
                 ELSE [Revert(b, b.history[Len(b.history) - b.undone]) EXCEPT !.undone = @ + 1]
RedoAction(b) == IF b.undone = 0 THEN b
                 ELSE [Apply(b, b.history[Len(b.history) - b.undone + 1]) EXCEPT !.undone = @ - 1]

\* act.insert and act.erase at a position put the pointer back where it was.
Insert(b, pos, data) ==
    LET c == Jump(b, pos)
    IN  [PushAction(c, [kind |-> "insert", abs |-> c.abs, s |-> data]) EXCEPT !.abs = b.abs]
Erase(b, pos, len) ==
    LET c == Jump(b, pos)
        n == Least(len, Len(Text(c)) - c.abs)
    IN  IF n <= 0 THEN b
        ELSE [PushAction(c, [kind |-> "erase", abs |-> c.abs,
                             s |-> SubSeq(Text(c), c.abs + 1, c.abs + n)]) EXCEPT !.abs = b.abs]
=============================================================================
