------------------------------- MODULE Robot -------------------------------
(***************************************************************************)
(* The human in the loop: an agent asks with human.interact, the loop puts *)
(* the question to a human and blocks until an answer or a timeout.  Two   *)
(* services carry questions and answers, and both meet the loop in its     *)
(* event log.  With Telegram a polling task in the loop's process appends  *)
(* each message as human.response or human.guidance, by what it finds in   *)
(* telegram-state.json; the wait reads the log for an answer, and the loop *)
(* then moves its reader past it.  With the web service question and       *)
(* answer are files, and the loop appends the answer to the log itself,    *)
(* while the API server appends guidance.                                  *)
(*                                                                         *)
(* `ralph emit`, the message handler, the API and the recorded answer use  *)
(* writeln!, which writes the line and its newline one after the other;    *)
(* the loop's event logger writes both at once.                            *)
(***************************************************************************)
EXTENDS Integers, Sequences, FiniteSets

CONSTANTS
  Turns,      \* bound: turns of the agent
  Emits,      \* bound: events the agent emits
  Messages,   \* bound: messages of the human, answers in the web included
  Payloads    \* what a message may say

ASSUME RobotAssumption ==
  /\ Turns \in Nat \ {0} /\ Emits \in Nat /\ Messages \in Nat

\* A line is two cells and a newline, so that a reader can be in its middle.
Cell(part, kind, message) ==
  [part |-> part, kind |-> kind, message |-> message]

\* A message answers the question of the number re, or none if that is 0.
Said(to, re, payload) == [to |-> to, re |-> re, payload |-> payload]
Nothing == Said("main", 0, 0)

Newline == Cell("newline", "", Nothing)
Line(kind, message) ==
  <<Cell("head", kind, message), Cell("tail", "", Nothing)>>

VARIABLES
  mode,      \* RobotConfig.mode: "telegram" or "web"
  file,      \* the event log, a sequence of cells
  pos,       \* EventReader::position, in cells
  taken,     \* the lines the loop has taken up, by where they begin
  again,     \* those of them it has taken up more than once
  turn,
  pc,        \* where the loop is
  question,  \* the number of the last question the loop asked
  mark,      \* file_pos of the wait, or before_len of the recording
  answer,    \* where the answer the wait returned is in the log, or below
  agent,     \* `ralph emit`: "idle", or "half" way through a line
  pending,   \* telegram-state.json: the open question of the loop, or 0
  inbox,     \* messages of the human that are not handled yet
  poll,      \* the polling task: where it is, its message, its copy of pending
  asked,     \* the question the human has before him
  answered,  \* the questions the human has answered
  said,      \* number of messages of the human
  card, reply, \* robot-question.json, robot-response.json: a token, or 0
  api        \* the API's guidance: "idle", or "half" way through a line

telegram == <<pending, inbox, poll>>
web == <<card, reply, api>>
human == <<asked, answered, said>>
reading == <<pos, taken, again>>
loop == <<turn, pc, question, mark, answer>>
vars == <<mode, file, reading, loop, agent, telegram, human, web>>

Asking == {"asking", "storing", "measuring", "waiting", "answered"}
Carding == {"asking", "waiting", "stale", "cleaning", "cleaned", "measuring",
            "recording", "ending line", "settling"}

NoAnswer == 0
Unrecorded == -1  \* an answer of the web that is not in the log yet

TypeOK ==
  /\ mode \in {"telegram", "web"}
  /\ pos \in 0..(Len(file) + 1)
  /\ taken \subseteq 1..Len(file) /\ again \subseteq taken
  /\ turn \in 1..Turns
  /\ pc \in {"agent", "logging", "done"}
            \cup (IF mode = "web" THEN Carding ELSE Asking)
  /\ question \in Nat /\ pending \in 0..question
  /\ mark \in 0..(Len(file) + 1)
  /\ answer \in {NoAnswer, Unrecorded} \cup 1..Len(file)
  /\ agent \in {"idle", "half"}
  /\ card \in {0, question}
  /\ reply \in 0..question
  /\ asked \in 0..(question + 1) /\ answered \subseteq 1..(question + 1)
  /\ said \in 0..Messages /\ Len(inbox) <= said
  /\ poll.at \in {"idle", "loaded", "half", "written", "reacting"}
  /\ poll.pending \in 0..question
  /\ api \in {"idle", "half"}
-----------------------------------------------------------------------------
(* The log.                                                                *)

Is(i, part) == i \in 1..Len(file) /\ file[i].part = part

\* The lines that parse when the file is read from p on: the reader takes p for
\* the beginning of a line, and the end of the file for the end of one.
Parsed(p) ==
  {i \in (p + 1)..Len(file) :
     /\ Is(i, "head")
     /\ i = p + 1 \/ Is(i - 1, "newline")
     /\ i + 1 = Len(file) \/ Is(i + 2, "newline")}

\* Mutant: counts the newline at the end of the file again.
AfterTheEnd(p) ==
  IF p >= Len(file) THEN p + 1
  ELSE IF Is(Len(file), "newline") THEN Len(file) ELSE Len(file) + 1

\* Every line is counted with a newline, the last one too if it has none.
After(p) ==
  IF p >= Len(file) THEN p
  ELSE IF Is(Len(file), "newline") THEN Len(file) ELSE Len(file) + 1

First(lines) == CHOOSE i \in lines : \A j \in lines : i <= j

TakeUp(lines) ==
  /\ taken' = taken \cup lines
  /\ again' = again \cup (taken \cap lines)

WriteLine(kind, message) == file' = file \o Line(kind, message)

EndLine == file' = Append(file, Newline)
-----------------------------------------------------------------------------
(* The agent, and what it leaves running.                                  *)

Emitted == Cardinality({i \in 1..Len(file) : file[i].kind \in {"ask", "work"}})

Emit ==
  /\ pc # "done" /\ agent = "idle" /\ Emitted < Emits
  /\ \E kind \in {"ask", "work"} : WriteLine(kind, Nothing)
  /\ agent' = "half"
  /\ UNCHANGED <<mode, reading, loop, telegram, human, web>>

EmitEnds ==
  /\ agent = "half" /\ EndLine
  /\ agent' = "idle"
  /\ UNCHANGED <<mode, reading, loop, telegram, human, web>>

\* The agent is killed between the line and its newline.
EmitKilled ==
  /\ agent = "half" /\ agent' = "idle"
  /\ UNCHANGED <<mode, file, reading, loop, telegram, human, web>>
-----------------------------------------------------------------------------
(* The loop: the read after a turn and the first human.interact in it.     *)

Goto(place) == pc' = place /\ UNCHANGED <<turn, question, mark, answer>>

Read ==
  /\ pc = "agent"
  /\ TakeUp(Parsed(pos)) /\ pos' = After(pos)
  /\ Goto(IF \E i \in Parsed(pos) : file[i].kind = "ask" THEN "asking"
                                                       ELSE "logging")
  /\ UNCHANGED <<mode, file, agent, telegram, human, web>>

\* The event logger: iteration.summary and the like, in one write.
LogTurn ==
  /\ pc = "logging"
  /\ file' = Append(file \o Line("telemetry", Nothing), Newline)
  /\ IF turn < Turns THEN turn' = turn + 1 /\ pc' = "agent"
                     ELSE turn' = turn /\ pc' = "done"
  /\ UNCHANGED <<mode, reading, question, mark, answer, agent, telegram,
                 human, web>>
-----------------------------------------------------------------------------
(* Telegram: the question.                                                 *)

\* After three failures the loop goes on without a wait.
SendFails ==
  /\ mode = "telegram" /\ pc = "asking" /\ Goto("logging")
  /\ UNCHANGED <<mode, file, reading, agent, telegram, human, web>>

\* The message is out before the question is stored.
SendQuestion ==
  /\ mode = "telegram" /\ pc = "asking" /\ Goto("storing")
  /\ asked' = question + 1
  /\ UNCHANGED <<mode, file, reading, agent, telegram, answered, said, web>>

StoreQuestion ==
  /\ pc = "storing"
  /\ question' = question + 1 /\ pending' = question + 1
  /\ pc' = "measuring"
  /\ UNCHANGED <<mode, file, reading, turn, mark, answer, agent, inbox, poll,
                 human, web>>

\* wait_for_response begins at the end of the file.
BeginWait ==
  /\ mode = "telegram" /\ pc = "measuring"
  /\ mark' = Len(file) /\ pc' = "waiting"
  /\ UNCHANGED <<mode, file, reading, turn, question, answer, agent, telegram,
                 human, web>>

Responses(p) == {i \in Parsed(p) : file[i].kind = "response"}

PollLog ==
  /\ mode = "telegram" /\ pc = "waiting" /\ Responses(mark) = {}
  /\ mark' = After(mark)
  /\ UNCHANGED <<mode, file, reading, turn, pc, question, answer, agent,
                 telegram, human, web>>

FindResponse ==
  /\ mode = "telegram" /\ pc = "waiting" /\ Responses(mark) # {}
  /\ answer' = First(Responses(mark))
  /\ pending' = 0
  /\ pc' = "answered"
  /\ UNCHANGED <<mode, file, reading, turn, question, mark, agent, inbox, poll,
                 human, web>>

\* Mutant: what timed out is waited for again.
WaitEndsAgain ==
  /\ mode = "telegram" /\ pc = "waiting" /\ Goto("measuring")
  /\ UNCHANGED <<mode, file, reading, agent, telegram, human, web>>

\* The timeout, or a signal: human.timeout is published, not written.
WaitEnds ==
  /\ mode = "telegram" /\ pc = "waiting" /\ Goto("logging")
  /\ pending' = 0
  /\ UNCHANGED <<mode, file, reading, agent, inbox, poll, human, web>>

\* Mutant: the reader is not moved.
SkipConsumedStays ==
  /\ pc = "answered"
  /\ TakeUp({answer})
  /\ Goto("logging")
  /\ UNCHANGED <<mode, file, pos, agent, telegram, human, web>>

\* skip_consumed_robot_response_event: the lines before the first response with
\* that payload are taken up with it, and the reader goes behind it.  If there
\* is none the reader stays.
SkipConsumed ==
  /\ pc = "answered"
  /\ LET found == {i \in Responses(pos) :
                     file[i].message.payload = file[answer].message.payload}
     IN IF found # {}
        THEN /\ TakeUp({i \in Parsed(pos) : i <= First(found)})
             /\ pos' = First(found) + 2
        ELSE /\ TakeUp(Parsed(pos) \cup {answer})
             /\ UNCHANGED pos
  /\ Goto("logging")
  /\ UNCHANGED <<mode, file, agent, telegram, human, web>>
-----------------------------------------------------------------------------
(* Telegram: the human and the polling task.                               *)

\* A message, a reply to the last question, or a message for another loop.
Send ==
  /\ mode = "telegram" /\ said < Messages /\ said' = said + 1
  /\ \E payload \in Payloads :
       \/ /\ \E to \in {"main", "other"} :
              inbox' = Append(inbox, Said(to, 0, payload))
          /\ UNCHANGED answered
       \/ /\ asked > 0 /\ asked \notin answered
          /\ answered' = answered \cup {asked}
          /\ inbox' = Append(inbox, Said("main", asked, payload))
  /\ UNCHANGED <<mode, file, reading, loop, agent, pending, poll, asked, web>>

Polls(at) == poll' = [poll EXCEPT !.at = at]

PollLoads ==
  /\ poll.at = "idle" /\ inbox # <<>>
  /\ poll' = [at |-> "loaded", message |-> Head(inbox), pending |-> pending]
  /\ inbox' = Tail(inbox)
  /\ UNCHANGED <<mode, file, reading, loop, agent, pending, human, web>>

\* handle_message: a reply to a question that is no longer pending is for the
\* main loop too, and any message is a response while a question is pending.
HandleMessage ==
  /\ poll.at = "loaded"
  /\ IF poll.message.to = "main"
     THEN /\ WriteLine(IF poll.pending # 0 THEN "response" ELSE "guidance",
                       poll.message)
          /\ Polls("half")
     ELSE Polls("reacting") /\ UNCHANGED file
  /\ UNCHANGED <<mode, reading, loop, agent, pending, inbox, human, web>>

EndMessage ==
  /\ poll.at = "half" /\ EndLine
  /\ Polls("written")
  /\ UNCHANGED <<mode, reading, loop, agent, pending, inbox, human, web>>

\* remove_pending_question saves the copy without the question.
RemovePending ==
  /\ poll.at = "written"
  /\ pending' = IF poll.pending # 0 THEN 0 ELSE pending
  /\ poll' = [poll EXCEPT !.at = "reacting", !.pending = 0]
  /\ UNCHANGED <<mode, file, reading, loop, agent, inbox, human, web>>

\* After a reaction was sent over the network the copy is saved once more.
PollSaves ==
  /\ poll.at = "reacting"
  /\ pending' = poll.pending
  /\ Polls("idle")
  /\ UNCHANGED <<mode, file, reading, loop, agent, inbox, human, web>>
-----------------------------------------------------------------------------
(* The web service.                                                        *)

WriteQuestion ==
  /\ mode = "web" /\ pc = "asking"
  /\ question' = question + 1 /\ card' = question + 1
  /\ pc' = "waiting"
  /\ UNCHANGED <<mode, file, reading, turn, mark, answer, agent, telegram,
                 human, reply, api>>

\* read_response_file: the answer must carry the token of the question.
ResponseReady ==
  /\ mode = "web" /\ pc = "waiting" /\ reply = question
  /\ answer' = Unrecorded
  /\ pc' = "cleaning"
  /\ UNCHANGED <<mode, file, reading, turn, question, mark, agent, telegram,
                 human, web>>

ResponseStale ==
  /\ mode = "web" /\ pc = "waiting" /\ reply \notin {0, question}
  /\ Goto("stale")
  /\ UNCHANGED <<mode, file, reading, agent, telegram, human, web>>

\* The file is removed by its name, whatever is in it by now.
RemoveStale ==
  /\ pc = "stale" /\ Goto("waiting")
  /\ reply' = 0
  /\ UNCHANGED <<mode, file, reading, agent, telegram, human, card, api>>

GiveUp ==
  /\ mode = "web" /\ pc = "waiting"
  /\ answer' = NoAnswer
  /\ pc' = "cleaning"
  /\ UNCHANGED <<mode, file, reading, turn, question, mark, agent, telegram,
                 human, web>>

RemoveQuestion ==
  /\ pc = "cleaning" /\ Goto("cleaned")
  /\ card' = 0
  /\ UNCHANGED <<mode, file, reading, agent, telegram, human, reply, api>>

RemoveResponse ==
  /\ pc = "cleaned"
  /\ Goto(IF answer = NoAnswer THEN "logging" ELSE "measuring")
  /\ reply' = 0
  /\ UNCHANGED <<mode, file, reading, agent, telegram, human, card, api>>

\* append_robot_response_event: the length before, the line, the newline, the
\* length after.
MeasureLog ==
  /\ mode = "web" /\ pc = "measuring"
  /\ mark' = Len(file) /\ pc' = "recording"
  /\ UNCHANGED <<mode, file, reading, turn, question, answer, agent, telegram,
                 human, web>>

RecordAnswer ==
  /\ pc = "recording" /\ WriteLine("response", Nothing)
  /\ answer' = Len(file) + 1
  /\ pc' = "ending line"
  /\ UNCHANGED <<mode, reading, turn, question, mark, agent, telegram, human,
                 web>>

EndAnswer ==
  /\ pc = "ending line" /\ EndLine /\ Goto("settling")
  /\ UNCHANGED <<mode, reading, agent, telegram, human, web>>

\* The reader goes behind the answer; what stood unread before it is taken up.
Settle ==
  /\ pc = "settling" /\ Goto("logging")
  /\ IF pos <= mark
     THEN /\ TakeUp({answer} \cup {i \in Parsed(pos) : i + 2 <= mark})
          /\ pos' = Len(file)
     ELSE TakeUp({answer}) /\ UNCHANGED pos
  /\ UNCHANGED <<mode, file, agent, telegram, human, web>>

\* The page shows the question; the API writes what the human answers.
SeeQuestion ==
  /\ mode = "web" /\ card \notin {0, asked}
  /\ asked' = card
  /\ UNCHANGED <<mode, file, reading, loop, agent, telegram, answered, said, web>>

Respond ==
  /\ mode = "web" /\ said < Messages /\ asked \notin answered \cup {0}
  /\ reply' = asked
  /\ answered' = answered \cup {asked} /\ said' = said + 1
  /\ UNCHANGED <<mode, file, reading, loop, agent, telegram, asked, card, api>>

Guidance ==
  /\ mode = "web" /\ said < Messages /\ api = "idle"
  /\ WriteLine("guidance", Nothing)
  /\ api' = "half" /\ said' = said + 1
  /\ UNCHANGED <<mode, reading, loop, agent, telegram, asked, answered, card,
                 reply>>

GuidanceEnds ==
  /\ api = "half" /\ EndLine /\ api' = "idle"
  /\ UNCHANGED <<mode, reading, loop, agent, telegram, human, card, reply>>
-----------------------------------------------------------------------------
Init ==
  /\ mode \in {"telegram", "web"}
  /\ file = <<>> /\ pos = 0
  /\ taken = {} /\ again = {}
  /\ turn = 1 /\ pc = "agent" /\ question = 0 /\ mark = 0
  /\ answer = NoAnswer
  /\ agent = "idle" /\ api = "idle"
  /\ pending = 0 /\ inbox = <<>>
  /\ poll = [at |-> "idle", message |-> Nothing, pending |-> 0]
  /\ asked = 0 /\ answered = {} /\ said = 0
  /\ card = 0 /\ reply = 0

TelegramStep == \/ SendFails \/ SendQuestion \/ StoreQuestion \/ BeginWait
                \/ PollLog \/ FindResponse \/ WaitEnds \/ SkipConsumed
WebStep == \/ WriteQuestion \/ ResponseReady \/ ResponseStale \/ RemoveStale
           \/ GiveUp \/ RemoveQuestion \/ RemoveResponse
           \/ MeasureLog \/ RecordAnswer \/ EndAnswer \/ Settle
LoopStep == Read \/ LogTurn \/ TelegramStep \/ WebStep
PollStep == \/ PollLoads \/ HandleMessage \/ EndMessage \/ RemovePending
            \/ PollSaves
HumanStep == Send \/ SeeQuestion \/ Respond \/ Guidance \/ GuidanceEnds
AgentStep == Emit \/ EmitEnds \/ EmitKilled

Next == LoopStep \/ PollStep \/ HumanStep \/ AgentStep

Spec == Init /\ [][Next]_vars

\* The loop goes on, and timeout_seconds is not 0: a wait may end at any time.
FairSpec == Spec /\ WF_vars(LoopStep)
-----------------------------------------------------------------------------
(* What the human and the agent may rely on.                               *)

Events == {i \in 1..Len(file) : Is(i, "head")}

\* No two writers have run into one another: each line begins a line.
LinesAreApart ==
  \A i \in 2..Len(file) : Is(i, "head") => Is(i - 1, "newline")

\* While no two lines have run together, no event is taken up twice, by the
\* read after a turn, as the answer of a wait or along with one, and with
\* Telegram the events taken up are just those the reader is past, whoever
\* wrote between the read and the answer.  The reader may be past the end of
\* the file, behind a newline that is still to be written; a web answer that
\* is recorded just then is read again.
ReadExactlyOnce ==
  LinesAreApart =>
    \A i \in Events :
      /\ mode = "telegram" => (i \in taken <=> i < pos)
      /\ mode = "telegram" \/ file[i].kind # "response" => i \notin again

\* A wait that a message ends is ended by no reply to an earlier question.
AnswerIsToTheQuestion ==
  pc = "answered" => file[answer].message.re \in {0, question}

\* Every question comes to an end, by an answer or without one, whatever
\* stale answers, misfiled messages and torn lines there are.
EveryQuestionEnds == pc = "asking" ~> pc = "logging"
=============================================================================
