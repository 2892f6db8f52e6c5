----------------------------- MODULE MCSendAck -----------------------------
EXTENDS SendAck, TLC

CONSTANTS s1, s2, s3

\* s2 sends the message of s1 again, under its id; s3 is another message.
ThreeCalls == {s1, s2, s3}
Messages == (s1 :> s1) @@ (s2 :> s1) @@ (s3 :> s3)
Retry == (s1 :> None) @@ (s2 :> s1) @@ (s3 :> None)

\* Two automatic ids are left, or one.
NearTheEnd == {0, 1}
=============================================================================
