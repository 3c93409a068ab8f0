----------------------------- MODULE MCPackedCkv -----------------------------
(* A virtual block is four tokens: two ranks with two records a page.       *)
EXTENDS PackedCkv

\* Out of order, beyond the causal length, negative, at both ends of a block.
SelectedIds == <<5, 0, -1, 3, 8, 1, 7, 2, 6, 4, 20>>

\* Rank 0's table, and the table of the other ranks.
Table(first, others) == [r \in Ranks |-> IF r = 0 THEN first ELSE others]

\* One request over three blocks; a page missing on one rank only.
Long(p, n) == [ lens |-> <<9>>, qlens |-> <<n>>, pad |-> 0,
                tables |-> Table(<<p>>, <<[p EXCEPT ![2] = -1]>>) ]
\* Two requests, one of them mid-prefill, sharing a prefix page.
Pair(pad) == [ lens |-> <<5, 7>>, qlens |-> <<2, 7>>, pad |-> pad,
               tables |-> Table(<<<<2, 0, -1>>, <<2, 3, -1>>>>, <<<<2, 0, -1>>, <<2, 1, -1>>>>) ]
\* A block boundary, and a request whose last block has one token.
Edge == [ lens |-> <<4, 1>>, qlens |-> <<4, 1>>, pad |-> 0,
          tables |-> Table(<<<<1, 3>>, <<0, 3>>>>, <<<<1, 3>>, <<0, 3>>>>) ]
\* More blocks than the builder's capacity.
Huge == [ lens |-> <<16, 16>>, qlens |-> <<1, 1>>, pad |-> 0,
          tables |-> Table(<<<<0, 1, 2, 3>>, <<0, 1, 2, 3>>>>, <<<<0, 1, 2, 3>>, <<0, 1, 2, 3>>>>) ]

Batches == {Long(<<3, 1, 0>>, 3), Pair(0), Pair(2), Edge}
TwoBatches   == {<<b, c>> : b, c \in Batches} \cup {<<Edge, Huge>>}
=============================================================================
