------------------------------- MODULE ChatPanel -------------------------------
(***************************************************************************)
(* The conversation panel of the AI page (apps/web/src/components/ai/      *)
(* chat-panel.tsx): one list of messages, one mark that says an answer is  *)
(* on its way, one event stream, and callbacks of the sessions list, the   *)
(* input and the stream that all write to them.  None of the callbacks     *)
(* asks, after its await, which conversation is shown by now.              *)
(*                                                                         *)
(* Of the messages only the last one is kept, since only it can be waited  *)
(* for.  What the service answers is external: a conversation that is read *)
(* may end in an unfinished answer, and a stream ends sooner or later.     *)
(***************************************************************************)
EXTENDS Naturals, FiniteSets

CONSTANTS Sessions,   \* the conversations that exist or can be made
          FirstMade,  \* bound: those that exist at the start
          NoSession,
          MaxClicks   \* bound: what the user does

VARIABLES
  made,       \* the conversations that exist, which the list shows
  shown,      \* sessionId
  tail,       \* the last message: none, whole, or an answer with streaming set
  chatBusy,   \* busy
  stream,     \* the conversation esRef's event stream belongs to
  opens,      \* openSession: loads under way
  sends,      \* send: calls under way, creating a session or posting to one
  deletes,    \* deleteSession: calls under way, with the session they saw shown
  stops,      \* stop: calls under way
  clicks

chatVars == <<made, shown, tail, chatBusy, stream, opens, sends, deletes, stops, clicks>>

ChatInit ==
  /\ made = FirstMade
  /\ shown = NoSession /\ tail = "none" /\ chatBusy = FALSE /\ stream = NoSession
  /\ opens = {} /\ sends = {} /\ deletes = {} /\ stops = 0 /\ clicks = 0

Click == clicks < MaxClicks /\ clicks' = clicks + 1

\* Mutant: an unfinished answer is shown and not subscribed to.
ShowOnly(sid, last, else) == shown' = sid /\ tail' = last /\ stream' = else

\* The effect on sessionId and messages, run whenever one of them is set: an
\* unfinished answer at the end is subscribed to, again, with replay.
Show(sid, last, else) ==
  /\ shown' = sid /\ tail' = last
  /\ stream' = IF sid # NoSession /\ last = "streaming" THEN sid ELSE else

Finished(last) == IF last = "streaming" THEN "whole" ELSE last

-----------------------------------------------------------------------------
(* The list of sessions, none of whose buttons waits for busy.             *)

\* The messages of the conversation before stay until the load is answered;
\* opening the one already shown sets nothing the effect depends on.
OpenSession(s) ==
  /\ s \in made /\ Click /\ chatBusy' = FALSE
  /\ IF s = shown THEN stream' = NoSession /\ UNCHANGED <<shown, tail>>
                  ELSE Show(s, tail, NoSession)
  /\ opens' = opens \cup {[nr |-> clicks, sid |-> s]}
  /\ UNCHANGED <<made, sends, deletes, stops>>

\* The messages of the load that is answered last are shown, and an empty
\* answer at their end is waited for.
SessionLoaded(o) ==
  /\ o \in opens /\ opens' = opens \ {o}
  /\ \E last \in {"none", "whole", "streaming"} :
       /\ Show(shown, last, stream)
       /\ chatBusy' = (chatBusy \/ last = "streaming")
  /\ UNCHANGED <<made, sends, deletes, stops, clicks>>

NewSession ==
  /\ Click /\ chatBusy' = FALSE
  /\ Show(NoSession, "none", NoSession)
  /\ UNCHANGED <<made, opens, sends, deletes, stops>>

DeleteSession(s) ==
  /\ s \in made /\ Click
  /\ deletes' = deletes \cup {[nr |-> clicks, sid |-> s, saw |-> shown]}
  /\ UNCHANGED <<made, shown, tail, chatBusy, stream, opens, sends, stops>>

\* Deleted or not, the panel is cleared if the session was shown at the click.
SessionDeleted(d) ==
  /\ d \in deletes /\ deletes' = deletes \ {d}
  /\ IF d.sid = d.saw
     THEN chatBusy' = FALSE /\ Show(NoSession, "none", NoSession)
     ELSE UNCHANGED <<shown, tail, chatBusy, stream>>
  /\ UNCHANGED <<made, opens, sends, stops, clicks>>

-----------------------------------------------------------------------------
(* send and stop.                                                          *)

\* The question and an empty answer are shown before the question is posted.
Send ==
  /\ Click /\ ~chatBusy /\ chatBusy' = TRUE
  /\ IF shown = NoSession
     THEN /\ sends' = sends \cup {[nr |-> clicks, sid |-> NoSession]}
          /\ UNCHANGED <<shown, tail, stream>>
     ELSE /\ sends' = sends \cup {[nr |-> clicks, sid |-> shown]}
          /\ Show(shown, "streaming", stream)
  /\ UNCHANGED <<made, opens, deletes, stops>>

SessionCreated(c, s) ==
  /\ c \in sends /\ c.sid = NoSession
  /\ s \in Sessions \ made /\ made' = made \cup {s}
  /\ sends' = (sends \ {c}) \cup {[c EXCEPT !.sid = s]}
  /\ Show(s, "streaming", stream)
  /\ UNCHANGED <<chatBusy, opens, deletes, stops, clicks>>

\* Whatever the status of the answer.
QuestionPosted(c) ==
  /\ c \in sends /\ c.sid # NoSession /\ sends' = sends \ {c}
  /\ stream' = c.sid
  /\ UNCHANGED <<made, shown, tail, chatBusy, opens, deletes, stops, clicks>>

\* A fetch throws, or there is no session in the answer.
SendFails(c) ==
  /\ c \in sends /\ sends' = sends \ {c}
  /\ chatBusy' = FALSE
  /\ Show(shown, "whole", stream)
  /\ UNCHANGED <<made, opens, deletes, stops, clicks>>

Stop ==
  /\ Click /\ chatBusy /\ shown # NoSession
  /\ stream' = NoSession /\ stops' = stops + 1
  /\ UNCHANGED <<made, shown, tail, chatBusy, opens, sends, deletes>>

\* The finally block, with the state of the panel as it is by now.
Stopped ==
  /\ stops > 0 /\ stops' = stops - 1
  /\ chatBusy' = FALSE
  /\ Show(shown, Finished(tail), stream)
  /\ UNCHANGED <<made, opens, sends, deletes, clicks>>

-----------------------------------------------------------------------------
(* The event stream.                                                       *)

\* A text_delta, a tool_call or a tool_result changes the last answer shown.
Delta ==
  /\ stream # NoSession
  /\ Show(shown, tail, stream)
  /\ UNCHANGED <<made, chatBusy, opens, sends, deletes, stops, clicks>>

\* Mutant: the mark stays when the stream ends.
StreamEndsBusy ==
  /\ stream # NoSession /\ tail' = Finished(tail) /\ stream' = NoSession
  /\ UNCHANGED <<made, shown, chatBusy, opens, sends, deletes, stops, clicks>>

\* finish: the attempt ended, or the stream broke.
StreamEnds ==
  /\ stream # NoSession
  /\ chatBusy' = FALSE
  /\ shown' = shown /\ tail' = Finished(tail) /\ stream' = NoSession
  /\ UNCHANGED <<made, opens, sends, deletes, stops, clicks>>

-----------------------------------------------------------------------------
ChatAnswers == \/ \E o \in opens : SessionLoaded(o)
               \/ \E d \in deletes : SessionDeleted(d)
               \/ \E c \in sends : QuestionPosted(c) \/ SendFails(c)
                                   \/ \E s \in Sessions : SessionCreated(c, s)
               \/ Stopped
ChatNext == \/ \E s \in Sessions : OpenSession(s) \/ DeleteSession(s)
            \/ NewSession \/ Send \/ Stop
            \/ ChatAnswers \/ Delta \/ StreamEnds
ChatSpec == ChatInit /\ [][ChatNext]_chatVars

\* The browser settles every fetch; an attempt ends, or the stream breaks.
ChatFairness == WF_chatVars(ChatAnswers) /\ WF_chatVars(StreamEnds)

-----------------------------------------------------------------------------
\* While the conversation shown is marked busy there is something that will
\* take the mark off: a stream, a question on its way, or a stop.
BusyBacked ==
  chatBusy /\ shown # NoSession => stream # NoSession \/ sends # {} \/ stops > 0

\* The mark comes off in the end.  (Without a session shown it may stay: then
\* a load answered after a new conversation was begun has set it.)
ChatBusyEnds == chatBusy ~> ~chatBusy \/ shown = NoSession
=============================================================================
