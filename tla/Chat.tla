-------------------------------- MODULE Chat --------------------------------
(***************************************************************************)
(* The chat hook of the console and of the published apps: a tree of       *)
(* messages fed by the event streams of the answers, the references the    *)
(* streams share, stopping, starting anew, and the requests that follow an *)
(* answer.                                                                 *)
(* src/web/app/components/base/chat/chat/hooks.ts; src/web/service/base.ts *)
(*                                                                         *)
(* A message is a question with its answer; it is named by the order of    *)
(* sending.  The texts, the order of siblings and which branch is looked   *)
(* at are left out: any answer of the tree may be gone on from.            *)
(***************************************************************************)
EXTENDS Naturals, FiniteSets

CONSTANTS
  MaxSends,       \* bound: messages
  MaxHalts        \* bound: times the chat is stopped or started anew

ASSUME BoundsAssumption == MaxSends \in Nat /\ MaxHalts \in Nat

VARIABLES
  tree,           \* chatTreeRef.current: the messages in it, and what it has of each
  chatTree,       \* ... and the tree that is shown
  parent,         \* parent_message_id, 0 for a first message
  snapshot,       \* the tree held by the callbacks of a first message
  stream,         \* the event stream of each answer
  fetch,          \* what each answer's onCompleted waits for
  messagesOf, questionsOf,   \* whose request, if it is out, the two abort controllers are for
  conv,           \* the server's conversation of a message, by its first message
  conversation,   \* conversationId.current, 0 if empty
  task,           \* taskIdRef.current: whose task, 0 if empty
  torn,           \* history: it was last set for a line that was cut off
  responding,     \* isRespondingRef.current
  stopped,        \* hasStopResponded.current
  suggested,      \* suggestedQuestions: after which message they were asked for, 0 if none
  sent,           \* messages sent so far
  before,         \* history: messages sent before the chat was last started anew
  halts,          \* bound: stops and restarts so far
  lapses          \* history: what the code does not foresee

vars == <<tree, chatTree, parent, snapshot, stream, fetch, messagesOf, questionsOf, conv, conversation, task,
          torn, responding, stopped, suggested, sent, before, halts, lapses>>
refs == <<conversation, task, torn, responding, stopped>>
user == <<parent, conv, sent, before, halts, lapses>>
after == <<fetch, messagesOf, questionsOf, suggested>>

Msgs == 1..MaxSends
Some == 0..MaxSends
(* Under a provisional id; under its own; with message_end *)
Copies == {"asked", "partial", "whole"}
Trees == UNION {[S -> Copies] : S \in SUBSET Msgs}
(* Not sent; sent; workflow started; named by a line that was cut off;  *)
(* answering; message_end; over; over without message_end; silent for   *)
(* ever                                                                 *)
Open == {"sent", "started", "named", "answering", "ended"}
Streams == Open \cup {"none", "over", "cut", "lost"}

Empty == [m \in {} |-> "asked"]

(* Nothing in the tree is without what it answers to. *)
TypeOK ==
  /\ tree \in Trees /\ snapshot \in [Msgs -> Trees]
  /\ \A m \in DOMAIN tree : parent[m] \in DOMAIN tree \cup {0}
  /\ chatTree \in {tree, Empty}
  /\ {parent, conv} \subseteq [Msgs -> Some]
  /\ stream \in [Msgs -> Streams] /\ fetch \in [Msgs -> {"none", "messages", "questions"}]
  /\ {conversation, task, suggested, messagesOf, questionsOf, sent, before} \subseteq Some
  /\ {torn, responding, stopped} \subseteq BOOLEAN
  /\ halts \in 0..MaxHalts
  /\ lapses \subseteq {"overlap", "early"}

Init ==
  /\ tree = Empty /\ chatTree = Empty /\ snapshot = [m \in Msgs |-> Empty]
  /\ parent = [m \in Msgs |-> 0] /\ conv = parent
  /\ stream = [m \in Msgs |-> "none"] /\ fetch = stream
  /\ messagesOf = 0 /\ questionsOf = 0 /\ conversation = 0 /\ task = 0 /\ suggested = 0
  /\ torn = FALSE /\ responding = FALSE /\ stopped = FALSE
  /\ sent = 0 /\ before = 0 /\ halts = 0 /\ lapses = {}

-----------------------------------------------------------------------------
(* What follows m: all that is in any set with the messages under m and under *)
(* its own members                                                            *)
Following(m) ==
  {x \in Msgs : \A S \in SUBSET Msgs :
                  (\A y \in Msgs : parent[y] \in S \cup {m} => y \in S) => x \in S}
Put(t, m, copy) == [x \in DOMAIN t \cup {m} |-> IF x = m THEN copy ELSE t[x]]
Answered(t, m) == m \in DOMAIN t /\ t[m] # "asked"

\* Mutant of Update: a message whose parent is gone is put into the tree all the same.
UpdateAnyway(p, held, m, copy) ==
  /\ tree' = IF p = 0 THEN Put(held, m, copy) ELSE Put([x \in DOMAIN tree \ Following(m) |-> tree[x]], m, copy)
  /\ chatTree' = tree'

(* updateCurrentQAOnTree: a first message is put into the tree its callbacks *)
(* hold; any other takes its place under its parent p, if that is there,     *)
(* without what has followed it.  Either way the tree is shown.              *)
Update(p, held, m, copy) ==
  /\ tree' = IF p = 0 THEN Put(held, m, copy)
             ELSE IF ~Answered(tree, p) THEN tree
             ELSE Put([x \in DOMAIN tree \ Following(m) |-> tree[x]], m, copy)
  /\ chatTree' = tree'
Shown(m, copy) == Update(parent[m], snapshot[m], m, copy)

(* What the code does not foresee: that a message is sent while an answer that *)
(* was stopped still comes in, or the chat started anew while any does or a    *)
(* request for the messages is left ("overlap"); and that a message is sent    *)
(* while something is still asked for after an answer ("early").               *)
Coming == \E m \in Msgs : stream[m] \in Open
LapsesOfSending ==
  lapses \cup (IF stopped /\ Coming THEN {"overlap"} ELSE {})
         \cup (IF \E m \in Msgs : fetch[m] # "none" THEN {"early"} ELSE {})

\* Mutant of Send: not asked whether an answer is under way.
SendAnyway(p) ==
  LET m == sent + 1 IN
  /\ sent < MaxSends /\ sent' = m
  /\ parent' = [parent EXCEPT ![m] = p]
  /\ snapshot' = [snapshot EXCEPT ![m] = IF p = 0 THEN chatTree ELSE Empty]
  /\ conv' = [conv EXCEPT ![m] = IF conversation = 0 THEN m ELSE conversation]
  /\ Update(p, chatTree, m, "asked")
  /\ stream' = [stream EXCEPT ![m] = "sent"]
  /\ responding' = TRUE /\ stopped' = FALSE /\ suggested' = 0
  /\ lapses' = LapsesOfSending
  /\ UNCHANGED <<fetch, messagesOf, questionsOf, conversation, task, torn, before, halts>>

\* Mutant of Send: the suggested questions stay.
SendBelow(p) ==
  LET m == sent + 1 IN
  /\ ~responding
  /\ sent < MaxSends /\ sent' = m
  /\ parent' = [parent EXCEPT ![m] = p]
  /\ snapshot' = [snapshot EXCEPT ![m] = IF p = 0 THEN chatTree ELSE Empty]
  /\ conv' = [conv EXCEPT ![m] = IF conversation = 0 THEN m ELSE conversation]
  /\ Update(p, chatTree, m, "asked")
  /\ stream' = [stream EXCEPT ![m] = "sent"]
  /\ responding' = TRUE /\ stopped' = FALSE
  /\ lapses' = LapsesOfSending
  /\ UNCHANGED <<fetch, messagesOf, questionsOf, conversation, task, torn, suggested, before,
                 halts>>

(* handleSend, after an answer p or as a first message.  The suggested       *)
(* questions go before it is asked whether an answer is under way.           *)
Send(p) ==
  LET m == sent + 1 IN
  /\ ~responding
  /\ sent < MaxSends /\ sent' = m
  /\ parent' = [parent EXCEPT ![m] = p]
  /\ snapshot' = [snapshot EXCEPT ![m] = IF p = 0 THEN chatTree ELSE Empty]
  /\ conv' = [conv EXCEPT ![m] = IF conversation = 0 THEN m ELSE conversation]
  /\ Update(p, chatTree, m, "asked")
  /\ stream' = [stream EXCEPT ![m] = "sent"]
  /\ responding' = TRUE /\ stopped' = FALSE /\ suggested' = 0
  /\ lapses' = LapsesOfSending
  /\ UNCHANGED <<fetch, messagesOf, questionsOf, conversation, task, torn, before, halts>>

SendRefused ==
  /\ responding /\ suggested' = 0
  /\ UNCHANGED <<tree, chatTree, snapshot, stream, fetch, messagesOf, questionsOf, refs, user>>

(* handleStop but for the call of the server: the two requests whose         *)
(* controllers are at hand are aborted, and the stream is not.  An aborted   *)
(* request for questions leaves none.                                        *)
Halt ==
  /\ stopped' = TRUE /\ responding' = FALSE
  /\ fetch' = [m \in Msgs |-> IF m \in {messagesOf, questionsOf} THEN "none" ELSE fetch[m]]
  /\ messagesOf' = 0 /\ questionsOf' = 0
  /\ halts < MaxHalts /\ halts' = halts + 1
  /\ UNCHANGED <<parent, snapshot, conv, sent, stream>>

(* ... with the call, which ends the task of the last event, if it is not    *)
(* over by then; when is up to the server.                                   *)
Stop ==
  /\ responding
  /\ Halt
  /\ suggested' = IF questionsOf # 0 THEN 0 ELSE suggested
  /\ UNCHANGED <<tree, chatTree, conversation, task, torn, before, lapses>>

(* handleRestart forgets the task first and so does not call the server; and *)
(* chatTreeRef keeps the tree that is no longer shown.                       *)
Restart ==
  /\ Halt
  /\ chatTree' = Empty /\ suggested' = 0 /\ before' = sent
  /\ conversation' = 0 /\ task' = 0
  /\ lapses' = IF Coming \/ \E m \in Msgs : fetch'[m] = "messages" THEN lapses \cup {"overlap"} ELSE lapses
  /\ UNCHANGED <<tree, torn>>

-----------------------------------------------------------------------------
(* With the stream go its callbacks and the tree they hold. *)
Becomes(m, state) ==
  /\ stream' = [stream EXCEPT ![m] = state]
  /\ snapshot' = IF state \in Open THEN snapshot ELSE [snapshot EXCEPT ![m] = Empty]
(* What a callback of the stream knows of its answer *)
Known(m) == CASE stream[m] \in {"sent", "started"} -> "asked"
              [] stream[m] \in {"named", "answering"} -> "partial"
              [] OTHER -> "whole"

(* onWorkflowStarted *)
Begin(m) ==
  /\ stream[m] = "sent" /\ Becomes(m, "started")
  /\ task' = m /\ torn' = FALSE
  /\ UNCHANGED <<conversation, responding, stopped, user, after>>
  /\ Shown(m, "asked")

\* Mutant of Say: the conversation is not noted.
SayOnly(m) ==
  /\ stream[m] \in Open \ {"ended"} /\ Becomes(m, "answering")
  /\ task' = m /\ torn' = FALSE
  /\ UNCHANGED <<conversation, responding, stopped, user, after>>
  /\ Shown(m, "partial")

(* onData: the first piece of the text names the message and the conversation. *)
Say(m) ==
  /\ stream[m] \in Open \ {"ended"} /\ Becomes(m, "answering")
  /\ conversation' = IF stream[m] = "answering" THEN conversation ELSE conv[m]
  /\ task' = m /\ torn' = FALSE
  /\ UNCHANGED <<responding, stopped, user, after>>
  /\ Shown(m, "partial")

(* A piece of the stream ends within a line: handleStream calls onData with  *)
(* what the line before it, if any, says of the message and the conversation, *)
(* and with no task.                                                         *)
CutOff(m) ==
  /\ stream[m] \in Open
  /\ IF stream[m] = "started"
     THEN Becomes(m, "named") /\ conversation' = conv[m] /\ Shown(m, "partial")
     ELSE /\ conversation' = IF stream[m] = "named" THEN conv[m] ELSE conversation
          /\ UNCHANGED <<stream, snapshot>> /\ Shown(m, Known(m))
  /\ task' = 0 /\ torn' = TRUE
  /\ UNCHANGED <<responding, stopped, user, after>>

(* onMessageEnd *)
End(m) ==
  /\ stream[m] = "answering" /\ Becomes(m, "ended")
  /\ UNCHANGED <<refs, user, after>>
  /\ Shown(m, "whole")

(* onCompleted, up to where it waits: for the messages of the conversation,  *)
(* for the suggested questions, or for nothing, as the app asks for them.    *)
Complete(m) ==
  /\ stream[m] \in Open /\ Becomes(m, IF stream[m] = "ended" THEN "over" ELSE "cut")
  /\ responding' = FALSE
  /\ \/ UNCHANGED after
     \/ /\ ~stopped /\ conversation # 0
        /\ fetch' = [fetch EXCEPT ![m] = "messages"] /\ messagesOf' = m
        /\ UNCHANGED <<questionsOf, suggested>>
     \/ /\ ~stopped
        /\ fetch' = [fetch EXCEPT ![m] = "questions"] /\ questionsOf' = m
        /\ UNCHANGED <<messagesOf, suggested>>
  /\ UNCHANGED <<tree, chatTree, conversation, task, torn, stopped, user>>

\* Mutant of Fail: only the tree is seen to.
FailResponding(m) ==
  /\ stream[m] \in Open /\ Becomes(m, IF stream[m] = "ended" THEN "over" ELSE "cut")
  /\ UNCHANGED <<refs, user, after>>
  /\ Shown(m, Known(m))

(* onError, and onCompleted with an error where the stream has reported it *)
Fail(m) ==
  /\ stream[m] \in Open /\ Becomes(m, IF stream[m] = "ended" THEN "over" ELSE "cut")
  /\ responding' = FALSE
  /\ UNCHANGED <<conversation, task, torn, stopped, user, after>>
  /\ Shown(m, Known(m))

(* A request that does not get through, or a connection that breaks: the     *)
(* handlers of ssePost and of handleStream call none of the callbacks.       *)
Lose(m) ==
  /\ stream[m] \in Open /\ Becomes(m, "lost")
  /\ UNCHANGED <<tree, chatTree, refs, user, after>>

(* onCompleted goes on with the messages of the conversation, the answer     *)
(* among them or not.                                                        *)
GetMessages(m) ==
  /\ fetch[m] = "messages"
  /\ \/ /\ tree' = IF Answered(tree, m) THEN Put(tree, m, "whole") ELSE tree
        /\ chatTree' = tree'
        /\ \/ fetch' = [fetch EXCEPT ![m] = "none"] /\ UNCHANGED questionsOf
           \/ ~stopped /\ fetch' = [fetch EXCEPT ![m] = "questions"] /\ questionsOf' = m
     \/ /\ fetch' = [fetch EXCEPT ![m] = "none"] /\ UNCHANGED <<tree, chatTree, questionsOf>>
  /\ messagesOf' = IF m = messagesOf THEN 0 ELSE messagesOf
  /\ UNCHANGED <<snapshot, stream, suggested, refs, user>>

(* ... and with the suggested questions, whatever was sent meanwhile. *)
GetQuestions(m) ==
  /\ fetch[m] = "questions" /\ fetch' = [fetch EXCEPT ![m] = "none"]
  /\ questionsOf' = IF m = questionsOf THEN 0 ELSE questionsOf
  /\ suggested' \in {0, m}
  /\ UNCHANGED <<tree, chatTree, snapshot, stream, messagesOf, refs, user>>

-----------------------------------------------------------------------------
Next ==
  \/ \E p \in {0} \cup {m \in DOMAIN chatTree : Answered(chatTree, m)} : Send(p)
  \/ SendRefused \/ Stop \/ Restart
  \/ \E m \in Msgs : \/ Begin(m) \/ Say(m) \/ CutOff(m) \/ End(m) \/ Complete(m) \/ Fail(m) \/ Lose(m)
                     \/ GetMessages(m) \/ GetQuestions(m)

Spec == Init /\ [][Next]_vars

-----------------------------------------------------------------------------
(* Unless a message was sent, or the chat started anew, while a stopped      *)
(* answer was still coming in, the tree has every message of the chat, and   *)
(* an answer that has ended as a whole.                                      *)
MessagesKept ==
  "overlap" \notin lapses =>
    \A m \in before + 1..sent :
      m \in DOMAIN chatTree /\ (stream[m] \in {"ended", "over"} => chatTree[m] = "whole")

(* ... the answers in the tree are those of the conversation the next        *)
(* message is sent to.                                                       *)
OneConversation ==
  "overlap" \notin lapses =>
    \A m \in DOMAIN chatTree : chatTree[m] # "asked" => conv[m] = conversation

(* ... only the last answer comes in, and the chat is responding unless it   *)
(* was stopped; it responds for no other reason, or because the answer has   *)
(* fallen silent.                                                            *)
RespondingIsOpen ==
  "overlap" \notin lapses =>
    /\ \A m \in Msgs : stream[m] \in Open => m = sent /\ (responding \/ stopped)
    /\ responding => stream[sent] \in Open \cup {"lost"}

(* ... once the last answer has begun, a stop would end its task and no      *)
(* other, but for the time from a line that was cut off to the next piece of *)
(* the text, when it would end none.                                         *)
StopReaches ==
  "overlap" \notin lapses /\ sent > before /\ stream[sent] \in Open \ {"sent"}
    => task = IF torn THEN 0 ELSE sent

(* ... so that what the hook refers to is the last answer, and nothing else. *)
LastInv == RespondingIsOpen /\ StopReaches

(* The questions suggested follow the last message, unless that was sent     *)
(* while those of an earlier one were asked for.                             *)
SuggestionsAreFresh ==
  lapses = {} => suggested \in {0, sent}
=============================================================================
