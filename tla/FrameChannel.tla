----------------------------- MODULE FrameChannel -----------------------------
(***************************************************************************)
(* What a framed stream promises to the code above it: the messages come   *)
(* out whole, each once and in the order they went in, until the stream is *)
(* given up; and what was sent comes out unless the stream is given up.    *)
(* This is the channel StateLink and RpcClient use.                        *)
(***************************************************************************)
EXTENDS Naturals, Sequences

CONSTANT Messages

VARIABLES sent, got, open

Init == sent = <<>> /\ got = <<>> /\ open = TRUE

Send(m) ==
    /\ sent' = Append(sent, m)
    /\ UNCHANGED <<got, open>>

Deliver ==
    /\ open /\ Len(got) < Len(sent)
    /\ got' = Append(got, sent[Len(got) + 1])
    /\ UNCHANGED <<sent, open>>

GiveUp ==
    /\ open' = FALSE
    /\ UNCHANGED <<sent, got>>

Next == (\E m \in Messages : Send(m)) \/ Deliver \/ GiveUp

Spec == Init /\ [][Next]_<<sent, got, open>> /\ WF_<<sent, got, open>>(Deliver)
=============================================================================
