------------------------------ MODULE MCHooks ------------------------------
(* A hook that suspends in each mode, one that blocks, and a loop end that *)
(* can be suspended on either side of loop.terminate.                      *)
EXTENDS Hooks

RetryHook == [onError |-> "suspend", mode |-> "retry_backoff"]
HoldHook   == [onError |-> "suspend", mode |-> "wait_then_retry"]
WaitHook   == [onError |-> "suspend", mode |-> "wait_for_resume"]
BlockHook  == [onError |-> "block",   mode |-> "wait_for_resume"]
WarnHook   == [onError |-> "warn",    mode |-> "wait_for_resume"]

MCConfigured ==
  [phase \in Phases |->
     CASE phase = "pre.loop.start"      -> <<HoldHook, BlockHook>>
       [] phase = "pre.iteration.start" -> <<RetryHook>>
       [] phase = "pre.human.interact"  -> <<WaitHook, WarnHook>>
       [] phase = "post.plan.created"   -> <<RetryHook, HoldHook>>
       [] phase = "pre.loop.complete"   -> <<HoldHook>>
       [] phase = "post.loop.complete"  -> <<WaitHook>>
       [] phase = "post.loop.error"     -> <<WaitHook>>
       [] OTHER                         -> <<>>]
=============================================================================
