--------------------------- MODULE MessageChannel ---------------------------
(***************************************************************************)
(* What a Prolog message queue promises to the threads that use it: a      *)
(* channel whose operations each take effect at one instant between call   *)
(* and return.  A send appends, a get removes the oldest message that      *)
(* unifies with its pattern, nobody else touches the messages, and a call  *)
(* only reports that the queue does not exist once it was closed.          *)
(* MessageQueue implements this specification.                             *)
(***************************************************************************)
EXTENDS Integers, Sequences

CONSTANTS Threads, Msgs, Patterns, Deadlines, Signalled, Closable, MaxSize

VARIABLES
  chan,     \* the messages, oldest first
  open,     \* the channel exists
  call,     \* the pending call of each thread
  reply,    \* how its last call ended
  msg       \* the message its last call unified with

vars == <<chan, open, call, reply, msg>>

NoReq == [call |-> "none"]
SendReq == [call : {"send"}, msg : Msgs, deadline : Deadlines]
GetReq == [call : {"get"}, pat : Patterns, deadline : Deadlines]
PeekReq == [call : {"peek"}, pat : Patterns]
OtherReq == [call : {"property", "destroy"}]
Request == SendReq \cup GetReq \cup PeekReq \cup OtherReq
NoMsg == "no message"

Matching(t) == {i \in DOMAIN chan : chan[i] \in call[t].pat}
First(S, i) == i \in S /\ \A j \in S : i <= j
Without(s, i) == SubSeq(s, 1, i - 1) \o SubSeq(s, i + 1, Len(s))

Init ==
  /\ chan = <<>>
  /\ open = TRUE
  /\ call = [t \in Threads |-> NoReq]
  /\ reply = [t \in Threads |-> "none"]
  /\ msg = [t \in Threads |-> NoMsg]

Invoke(t, r) ==
  /\ call[t] = NoReq
  /\ call' = [call EXCEPT ![t] = r]
  /\ reply' = [reply EXCEPT ![t] = "none"]
  /\ msg' = [msg EXCEPT ![t] = NoMsg]
  /\ UNCHANGED <<chan, open>>

(* The call of thread t returns r. *)
Return(t, r) ==
  /\ call' = [call EXCEPT ![t] = NoReq]
  /\ reply' = [reply EXCEPT ![t] = r]

Put(t) ==
  /\ open /\ call[t].call = "send"
  /\ MaxSize > 0 => Len(chan) < MaxSize
  /\ chan' = Append(chan, call[t].msg)
  /\ Return(t, "ok")
  /\ UNCHANGED <<open, msg>>

Take(t) ==
  /\ open /\ call[t].call = "get"
  /\ \E i \in DOMAIN chan :
       /\ First(Matching(t), i)
       /\ chan' = Without(chan, i)
       /\ msg' = [msg EXCEPT ![t] = chan[i]]
  /\ Return(t, "ok")
  /\ UNCHANGED open

Peek(t) ==
  /\ open /\ call[t].call = "peek"
  /\ \/ /\ Matching(t) = {}
        /\ Return(t, "fail")
        /\ UNCHANGED msg
     \/ \E i \in DOMAIN chan :
          /\ First(Matching(t), i)
          /\ msg' = [msg EXCEPT ![t] = chan[i]]
          /\ Return(t, "ok")
  /\ UNCHANGED <<chan, open>>

(* Any thread may ask about an open channel. *)
Property(t) ==
  /\ open /\ call[t].call = "property"
  /\ Return(t, "ok")
  /\ UNCHANGED <<chan, open, msg>>

Destroy(t) ==
  /\ open /\ call[t].call = "destroy"
  /\ IF Closable
     THEN Return(t, "ok") /\ open' = FALSE /\ chan' = <<>>
     ELSE Return(t, "permission") /\ UNCHANGED <<open, chan>>
  /\ UNCHANGED msg

(* Only a send or a get that was given a deadline can fail for the time.   *)
Timeout(t) ==
  /\ call[t].call \in {"send", "get"}
  /\ call[t].deadline
  /\ Return(t, "fail")
  /\ UNCHANGED <<chan, open, msg>>

NoSuchQueue(t) ==
  /\ ~open /\ call[t] # NoReq
  /\ Return(t, "existence")
  /\ UNCHANGED <<chan, open, msg>>

(* A signal handler that runs while a send or get waits raised an          *)
(* exception.                                                              *)
Raise(t) ==
  /\ t \in Signalled
  /\ call[t].call \in {"send", "get"}
  /\ Return(t, "exception")
  /\ UNCHANGED <<chan, open, msg>>

(* The channel goes away without a call: its thread exits, or nobody       *)
(* refers to it any more.                                                  *)
Close ==
  /\ open
  /\ open' = FALSE
  /\ chan' = <<>>
  /\ UNCHANGED <<call, reply, msg>>

Next ==
  \/ \E t \in Threads :
       \/ \E r \in Request : Invoke(t, r)
       \/ Put(t) \/ Take(t) \/ Peek(t) \/ Property(t) \/ Destroy(t)
       \/ Timeout(t) \/ NoSuchQueue(t) \/ Raise(t)
  \/ Close

Spec == Init /\ [][Next]_vars
=============================================================================
