---------------------------- MODULE MCDecodePath ----------------------------
EXTENDS DecodePath

CONSTANTS p1, p2, p3

ThreeConnections == {p1, p2, p3}
OnlyFirst == {p1}

\* A compressed payload of one byte n inflates to n bytes; from 200 on it is not zlib.
InflateByte(z) ==
  IF z = <<>> \/ z[1] >= 200 THEN [ok |-> FALSE, data |-> <<>>]
  ELSE [ok |-> TRUE, data |-> [i \in 1..z[1] |-> 7]]

Part(what, raw) == [what |-> what, raw |-> raw]
Compress(value, raw) == Part("compression", raw) @@ [value |-> value]
Bytes(what, bytes, raw) == Part(what, raw) @@ [bytes |-> bytes]

\* Plain and longer than they need be, in tag, value and length.
Compressions == {Compress(0, <<32, 0>>), Compress(1, <<160, 0, 129, 0>>)}
Payloads == {Bytes("payload", <<3>>, <<74, 1, 3>>), Bytes("payload", <<1>>, <<74, 129, 0, 1>>)}
Others == {Part("other", <<13, 4, 32, 1, 74>>)}
\* Wrong types, no number, a group, a varint above the range, a cut value.
Broken == {Part("broken", raw) : raw \in {<<34, 0>>, <<72, 1>>, <<0, 0>>, <<11>>, <<8, 128, 128, 2>>,
                                          <<128>>, <<74, 2, 3>>, <<9, 1, 2, 3>>}}
\* Too long once inflated, not zlib, empty, an unknown algorithm.
Rare == {Bytes("payload", <<14>>, <<74, 1, 14>>), Bytes("payload", <<30>>, <<74, 1, 30>>),
         Bytes("payload", <<255>>, <<74, 1, 255>>), Bytes("payload", <<>>, <<74, 0>>),
         Compress(2, <<32, 2>>), Part("other", <<8, 255, 255, 1>>)}

SeqsOf(S, n) == UNION {[1..k -> S] : k \in 0..n}

Common == Compressions \cup Payloads \cup Others
SomeFrames ==
  SeqsOf(Common, 2)
    \cup {s \in [1..3 -> Common] : \A i, j \in 1..3 : i # j => s[i].what # s[j].what}
    \cup {<<x, y>> : x \in Common, y \in Broken \cup Rare}
    \cup {<<y, x>> : x \in Compressions, y \in Rare}
    \cup {<<x, x, y, z>> : x \in Others, y \in Compressions, z \in Payloads}
OneFrame == {<<Compress(1, <<32, 1>>), Bytes("payload", <<4>>, <<74, 1, 4>>)>>}
FewFrames == [p \in ThreeConnections |-> IF p = p1 THEN SomeFrames ELSE OneFrame]

Version == <<118, 53>>
Inner == {Part("other", <<8, 1>>), Bytes("version", <<118>>, <<138, 1, 1, 118>>),
          Bytes("version", Version, <<138, 1, 2, 118, 53>>), Part("broken", <<139, 1>>)}
Pre == {<<>>, <<Part("other", <<8, 2>>)>>}
SomeProvisions ==
  [p \in ThreeConnections |->
     IF p # p1 THEN {}
     ELSE {v \in [before : Pre, inner : SeqsOf(Inner, 2), after : Pre] :
             \A i \in DOMAIN v.inner : v.inner[i].what = "broken" => i = 1}]

Sizes == [sync |-> 4, status |-> 2, redirect |-> 1, jid |-> 2, meta |-> 3, string |-> 1]

Jids == {<<>>, <<0, 1, 0, 0>>, <<1, 0, 2, 2>>, <<0, 3, 0, 0>>}
Metas == [payload : {0, 3}, attributes : {0, 3}, from : {<<>>}, to : {<<1, 0, 1, 2>>},
          users : {<<>>, <<1, 0>>}]
Statuses == {<<>>, <<[reason |-> 1, redirects |-> <<>>]>>, <<[reason |-> 0, redirects |-> <<2, 1>>]>>,
             <<[reason |-> 0, redirects |-> <<0, 0, 0>>]>>}
Syncs == [kind : {"sync"}, status : {<<>>, <<[reason |-> 1, redirects |-> <<>>]>>},
          queue : Jids, metas : SeqsOf(Metas, 1)]
           \cup [kind : {"sync"}, status : {<<>>}, queue : {<<>>},
                 metas : [1..2 -> Metas] \cup {[i \in 1..3 |-> m] : m \in Metas}]
ManyNatives ==
  Syncs
    \cup [kind : {"provision"}, status : Statuses, session : {0, 3, 7}, token : {16, 17}]
    \cup [kind : {"unread"}, status : {<<>>}, queues : SeqsOf(Jids \ {<<>>}, 2)]
    \cup [kind : {"notice"}, status : Statuses, queue : Jids]
    \cup [kind : {"logout"}, status : Statuses]

\* An envelope of one payload stands for the messages of every kind and size.
SomeNatives(data) ==
  IF data = <<74, 1, 3>> THEN ManyNatives ELSE {[kind |-> "logout", status |-> <<>>]}
=============================================================================
