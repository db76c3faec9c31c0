----------------------------- MODULE MCJanusApi -----------------------------
(* A session with one handle: a message call beside a call that the HTTP    *)
(* response answers and whose event nobody waits for.                       *)
EXTENDS JanusApi, TLC

CONSTANTS attach, publish, unpublish, h1

MCHandle == {h1}

MCTid == {attach, publish, unpublish}
MCOpOf == (attach :> "AttachPlugin") @@ (publish :> "Publish")
          @@ (unpublish :> "UnPublish")
MCHandleOf == [t \in MCTid |-> h1]
=============================================================================
