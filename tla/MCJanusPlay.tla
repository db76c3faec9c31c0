---------------------------- MODULE MCJanusPlay ----------------------------
(* One viewer: the helper and main each have a handle of their own.         *)
EXTENDS JanusPlay, TLC

CONSTANTS h1, h2

MCTid == {hAttach, hJoin, hDetach, mAttach, mJoin, mStart}
MCHandle == {h1, h2}
MCOpOf == (hAttach :> "AttachPlugin") @@ (hJoin :> "JoinAsPublisher")
          @@ (hDetach :> "DetachPlugin") @@ (mAttach :> "AttachPlugin")
          @@ (mJoin :> "JoinAsSubscribe") @@ (mStart :> "Subscribe")
MCHandleOf == [t \in MCTid |-> IF t \in {hAttach, hJoin, hDetach} THEN h1 ELSE h2]
=============================================================================
