---------------------------- MODULE Robot_proofs ----------------------------
(***************************************************************************)
(* What holds of questions, answers and the log between them for any       *)
(* number of turns, events and messages, with either service: as long as   *)
(* no two writers ran into one another, each event is taken up just once.  *)
(***************************************************************************)
EXTENDS Robot, WellFoundedInduction, SequenceTheorems, TLAPS

Kinds == {"", "ask", "work", "telemetry", "response", "guidance"}
MessageType == [to : {"main", "other"}, re : Nat, payload : Payloads \cup {0}]
CellType ==
  [part : {"head", "tail", "newline"}, kind : Kinds, message : MessageType]

\* What TypeOK leaves open: the cells of the log and the messages.
DataOK ==
  /\ file \in Seq(CellType)
  /\ inbox \in Seq(MessageType)
  /\ poll \in [at : {"idle", "loaded", "half", "written", "reacting"},
               message : MessageType, pending : Nat]

\* A run has one of the two services, and what belongs to the other is at rest.
OneService ==
  /\ mode = "telegram" => card = 0 /\ reply = 0
  /\ mode = "web" => asked <= question /\ inbox = <<>> /\ poll.at = "idle"

\* The two cells of a line stay together, whoever writes.
LinesAreWhole ==
  \A i \in 1..Len(file) :
    /\ file[i].part = "head" => i < Len(file) /\ file[i + 1].part = "tail"
    /\ file[i].part = "tail" => i > 1 /\ file[i - 1].part = "head"

\* The reader is at the end of a line, or past one whose newline is missing.
BetweenLines ==
  /\ pos \in 1..Len(file) => file[pos].part # "head"
  /\ pos = Len(file) + 1 => Len(file) > 0 /\ file[Len(file)].part = "tail"

\* The reader is past what was taken up, and with Telegram past nothing else.
TakenIsBehind ==
  \A i \in Events :
    /\ mode = "telegram" => (i \in taken <=> i < pos)
    /\ mode = "telegram" \/ file[i].kind # "response" =>
         (i \in taken => i < pos) /\ i \notin again

\* What a wait looks at is not behind the reader, nor is what it found.
WaitIsAhead ==
  /\ mode = "telegram" /\ pc = "waiting" => pos <= mark + 1
  /\ pc = "answered" => pos <= answer

\* An answer that is to be taken up is a response in the log.
AnswerStands ==
  pc \in {"answered", "ending line", "settling"} =>
    Is(answer, "head") /\ file[answer].kind = "response"

IInv ==
  /\ TypeOK /\ DataOK /\ OneService
  /\ LinesAreWhole /\ WaitIsAhead /\ AnswerStands
  /\ LinesAreApart => BetweenLines /\ TakenIsBehind
-----------------------------------------------------------------------------
(* Lemmas about the log.                                                   *)

\* A set of numbers that is not empty has a first one.
LEMMA FirstIsFirst ==
  ASSUME NEW S \in SUBSET Nat, S # {}
  PROVE  First(S) \in S /\ \A j \in S : First(S) <= j
<1>1. PICK n \in S : \A m \in S : ~ (<<m, n>> \in OpToRel(<, Nat))
  BY NatLessThanWellFounded, WFMin
<1>2. \A m \in S : ~ (m < n)
  BY <1>1 DEF OpToRel
<1>3. \A m \in S : n <= m
  BY <1>2
<1>4. QED
  BY <1>3 DEF First

\* The log is a sequence of cells.
LEMMA LogIsCells ==
  ASSUME DataOK
  PROVE  /\ file \in Seq(CellType) /\ Len(file) \in Nat
         /\ \A i \in 1..Len(file) :
              file[i].part \in {"head", "tail", "newline"}
<1>1. file \in Seq(CellType)
  BY DEF DataOK
<1>2. \A i \in 1..Len(file) : file[i] \in CellType
  BY <1>1
<1>3. QED
  BY <1>1, <1>2 DEF CellType

\* Where no two lines run together, a reader that begins between lines
\* finds every line that is left.
LEMMA ParsedIsTheRest ==
  ASSUME DataOK, LinesAreWhole, LinesAreApart, NEW p \in Nat
  PROVE  Parsed(p) = {i \in Events : i > p}
<1> USE LogIsCells
<1>1. ASSUME NEW i \in Events, i > p
      PROVE  i \in Parsed(p)
  <2>1. i \in 1..Len(file) /\ file[i].part = "head"
    BY DEF Events, Is
  <2>2. i < Len(file) /\ file[i + 1].part = "tail"
    BY <2>1 DEF LinesAreWhole
  <2>3. i = p + 1 \/ Is(i - 1, "newline")
    BY <1>1, <2>1 DEF LinesAreApart, Is
  <2>4. i + 1 = Len(file) \/ Is(i + 2, "newline")
    <3> SUFFICES ASSUME i + 1 # Len(file) PROVE Is(i + 2, "newline")
      OBVIOUS
    <3>1. i + 2 \in 2..Len(file) /\ i + 2 \in 1..Len(file)
          /\ (i + 2) - 1 = i + 1
      BY <2>1, <2>2
    <3>2. file[i + 2].part # "tail"
      BY <2>2, <3>1 DEF LinesAreWhole
    <3>3. file[i + 2].part # "head"
      BY <2>2, <3>1 DEF LinesAreApart, Is
    <3>4. QED
      BY <3>1, <3>2, <3>3 DEF Is
  <2>5. QED
    BY <1>1, <2>1, <2>3, <2>4 DEF Parsed, Is
<1>2. Parsed(p) \subseteq {i \in Events : i > p}
  <2>1. ASSUME NEW i \in Parsed(p)
        PROVE  i > p /\ Is(i, "head")
    BY DEF Parsed
  <2>2. QED
    BY <2>1 DEF Events, Is
<1>3. QED
  BY <1>1, <1>2

\* A response that the reader finds is a line in the log behind p.
LEMMA ResponsesAreLines ==
  ASSUME DataOK, NEW p \in Nat
  PROVE  \A i \in Responses(p) :
           i \in 1..Len(file) /\ i > p /\ file[i].part = "head"
                              /\ file[i].kind = "response"
<1>1. Len(file) \in Nat
  BY LogIsCells
<1>2. \A i \in Parsed(p) : i \in 1..Len(file) /\ i > p /\ file[i].part = "head"
  BY <1>1 DEF Parsed, Is
<1>3. QED
  BY <1>2 DEF Responses

\* The reader goes to the end of the log, or stays behind it.
LEMMA AfterIsTheEnd ==
  ASSUME DataOK, NEW p \in 0..(Len(file) + 1)
  PROVE  /\ After(p) \in 0..(Len(file) + 1) /\ After(p) >= p
         /\ After(p) >= Len(file)
BY DEF After, DataOK

\* What is in the log stays.
Keeps ==
  /\ file' \in Seq(CellType) /\ Len(file) <= Len(file')
  /\ \A i \in 1..Len(file) : file'[i] = file[i]

\* A newline is one cell more.
Ends == Len(file') = Len(file) + 1 /\ file'[Len(file) + 1] = Newline

\* A line is two, with a newline three.
Begins(kind) ==
  /\ Len(file') \in {Len(file) + 2, Len(file) + 3}
  /\ file'[Len(file) + 1].part = "head"
  /\ file'[Len(file) + 1].kind = kind
  /\ file'[Len(file) + 2].part = "tail"
  /\ Len(file') = Len(file) + 3 => file'[Len(file) + 3].part = "newline"

LEMMA NewlineIsACell ==
  /\ Nothing \in MessageType
  /\ Newline \in CellType /\ Newline.part = "newline"
<1>1. Nothing \in MessageType
  BY DEF Nothing, Said, MessageType
<1>2. QED
  BY <1>1 DEF Newline, Cell, CellType, Kinds

LEMMA EndLineEnds ==
  ASSUME DataOK, EndLine
  PROVE  Keeps /\ Ends
<1>1. file \in Seq(CellType) /\ Newline \in CellType
      /\ file' = Append(file, Newline)
  BY LogIsCells, NewlineIsACell DEF EndLine
<1>2. QED
  BY <1>1 DEF Keeps, Ends

\* What ConcatProperties says of two more cells.
LEMMA TwoMore ==
  ASSUME NEW S, NEW s \in Seq(S), NEW t \in Seq(S), Len(t) = 2
  PROVE  /\ s \o t \in Seq(S) /\ Len(s \o t) = Len(s) + 2
         /\ \A i \in 1..Len(s) : (s \o t)[i] = s[i]
         /\ (s \o t)[Len(s) + 1] = t[1] /\ (s \o t)[Len(s) + 2] = t[2]
<1>1. /\ s \o t \in Seq(S) /\ Len(s \o t) = Len(s) + Len(t)
      /\ \A i \in 1..Len(s) + Len(t) :
           (s \o t)[i] = IF i <= Len(s) THEN s[i] ELSE t[i - Len(s)]
  BY ConcatProperties
<1>2. Len(s) \in Nat
  OBVIOUS
<1> DEFINE u == s \o t
<1> HIDE DEF u
<1>3. /\ Len(u) = Len(s) + 2
      /\ \A i \in 1..Len(s) + 2 :
           u[i] = IF i <= Len(s) THEN s[i] ELSE t[i - Len(s)]
  BY <1>1 DEF u
<1>4. /\ \A i \in 1..Len(s) : u[i] = s[i]
      /\ u[Len(s) + 1] = t[1] /\ u[Len(s) + 2] = t[2]
  BY <1>2, <1>3
<1>5. QED
  BY <1>1, <1>4 DEF u

LEMMA ALineIsTwoCells ==
  ASSUME NEW kind \in Kinds, NEW message \in MessageType
  PROVE  /\ Line(kind, message) \in Seq(CellType)
         /\ Len(Line(kind, message)) = 2
         /\ Line(kind, message)[1].part = "head"
         /\ Line(kind, message)[1].kind = kind
         /\ Line(kind, message)[2].part = "tail"
<1>1. /\ Cell("head", kind, message) \in CellType
      /\ Cell("head", kind, message).part = "head"
      /\ Cell("head", kind, message).kind = kind
      /\ Cell("tail", "", Nothing) \in CellType
      /\ Cell("tail", "", Nothing).part = "tail"
  BY NewlineIsACell DEF Cell, CellType, Kinds
<1> DEFINE head == Cell("head", kind, message)
           tail == Cell("tail", "", Nothing)
<1>2. Line(kind, message) = <<head, tail>>
  BY DEF Line
<1> HIDE DEF head, tail
<1>3. head \in CellType /\ tail \in CellType
  BY <1>1 DEF head, tail
<1>4. <<head, tail>> \in Seq(CellType) /\ Len(<<head, tail>>) = 2
      /\ <<head, tail>>[1] = head /\ <<head, tail>>[2] = tail
  BY <1>3
<1>5. QED
  BY <1>1, <1>2, <1>4 DEF head, tail

LEMMA WriteLineBegins ==
  ASSUME DataOK, NEW kind \in Kinds, NEW message \in MessageType,
         WriteLine(kind, message)
  PROVE  Keeps /\ Begins(kind)
<1> DEFINE line == Line(kind, message)
<1>1. line \in Seq(CellType) /\ Len(line) = 2
      /\ line[1].part = "head" /\ line[1].kind = kind /\ line[2].part = "tail"
  BY ALineIsTwoCells
<1>2. file \in Seq(CellType) /\ file' = file \o line
  BY LogIsCells DEF WriteLine
<1> HIDE DEF line
<1>3. file' \in Seq(CellType) /\ Len(file') = Len(file) + 2
      /\ \A i \in 1..Len(file) : file'[i] = file[i]
      /\ file'[Len(file) + 1] = line[1] /\ file'[Len(file) + 2] = line[2]
  BY <1>1, <1>2, TwoMore
<1>4. QED
  BY <1>1, <1>2, <1>3 DEF Keeps, Begins

LEMMA LogTurnBegins ==
  ASSUME DataOK, LogTurn
  PROVE  Keeps /\ Begins("telemetry")
<1> DEFINE line == Line("telemetry", Nothing)
           lines == file \o line
<1>1. line \in Seq(CellType) /\ Len(line) = 2
      /\ line[1].part = "head" /\ line[1].kind = "telemetry"
      /\ line[2].part = "tail"
  <2>1. "telemetry" \in Kinds /\ Nothing \in MessageType
    BY NewlineIsACell DEF Kinds
  <2>2. QED
    BY <2>1, ALineIsTwoCells
<1>2. Newline \in CellType /\ Newline.part = "newline"
  BY NewlineIsACell
<1>3. file \in Seq(CellType) /\ file' = Append(lines, Newline)
  BY LogIsCells DEF LogTurn
<1> HIDE DEF line
<1>4. /\ lines \in Seq(CellType) /\ Len(lines) = Len(file) + 2
      /\ \A i \in 1..Len(file) : lines[i] = file[i]
      /\ lines[Len(file) + 1] = line[1] /\ lines[Len(file) + 2] = line[2]
  BY <1>1, <1>3, TwoMore
<1> HIDE DEF lines
<1>5. file' \in Seq(CellType) /\ Len(file') = Len(file) + 3
      /\ file'[Len(file) + 3] = Newline
      /\ \A i \in 1..(Len(file) + 2) : file'[i] = lines[i]
  BY <1>2, <1>3, <1>4, AppendProperties
<1>6. Len(file) \in Nat /\ file' \in Seq(CellType)
      /\ Len(file) <= Len(file')
      /\ (\A i \in 1..Len(file) : file'[i] = file[i])
      /\ file'[Len(file) + 1] = line[1] /\ file'[Len(file) + 2] = line[2]
  BY <1>3, <1>4, <1>5
<1>7. QED
  BY <1>1, <1>2, <1>5, <1>6 DEF Keeps, Begins
-----------------------------------------------------------------------------
(* What the log and the reader keep when something is written.             *)

\* Of the log and the reader.
Reading ==
  /\ LinesAreWhole
  /\ LinesAreApart => BetweenLines /\ TakenIsBehind

\* Lines that have run together stay so.
LEMMA ApartBefore ==
  ASSUME DataOK, Keeps, LinesAreApart'
  PROVE  LinesAreApart
<1>1. /\ Len(file) \in Nat /\ Len(file') \in Nat /\ Len(file) <= Len(file')
      /\ \A i \in 1..Len(file) : file'[i] = file[i]
  BY LogIsCells DEF Keeps
<1>2. QED
  BY <1>1 DEF LinesAreApart, Is

\* A newline may come at any time.
LEMMA EndKeepsReading ==
  ASSUME DataOK, TypeOK, Reading, Keeps, Ends, UNCHANGED <<mode, reading>>
  PROVE  Reading'
<1>0. /\ Len(file) \in Nat /\ Len(file') = Len(file) + 1
      /\ \A i \in 1..Len(file) : file'[i] = file[i]
      /\ file'[Len(file) + 1].part = "newline"
  BY LogIsCells, NewlineIsACell DEF Keeps, Ends
<1>1. LinesAreWhole'
  BY <1>0 DEF Reading, LinesAreWhole
<1>2. ASSUME LinesAreApart'
      PROVE  BetweenLines' /\ TakenIsBehind'
  <2>1. BetweenLines /\ TakenIsBehind
    BY <1>2, ApartBefore DEF Reading
  <2>2. BetweenLines'
    BY <1>0, <2>1 DEF BetweenLines, reading, TypeOK
  <2>3. Events' = Events
    BY <1>0 DEF Events, Is
  <2>4. TakenIsBehind'
    BY <1>0, <2>1, <2>3 DEF TakenIsBehind, reading, Events
  <2>5. QED
    BY <2>2, <2>4
<1>3. QED
  BY <1>1, <1>2 DEF Reading

\* A line that begins where another ended is ahead of the reader.
LEMMA LineKeepsReading ==
  ASSUME DataOK, TypeOK, Reading, Keeps, NEW kind, Begins(kind),
         UNCHANGED <<mode, reading>>
  PROVE  Reading'
<1>0. /\ Len(file) \in Nat /\ Len(file') \in {Len(file) + 2, Len(file) + 3}
      /\ \A i \in 1..Len(file) : file'[i] = file[i]
      /\ file'[Len(file) + 1].part = "head"
      /\ file'[Len(file) + 2].part = "tail"
      /\ Len(file') = Len(file) + 3 => file'[Len(file) + 3].part = "newline"
  BY LogIsCells DEF Keeps, Begins
<1>1. LinesAreWhole'
  <2> SUFFICES ASSUME NEW i \in 1..Len(file')
               PROVE  /\ file'[i].part = "head" =>
                           i < Len(file') /\ file'[i + 1].part = "tail"
                      /\ file'[i].part = "tail" =>
                           i > 1 /\ file'[i - 1].part = "head"
    BY DEF LinesAreWhole
  <2>1. CASE i <= Len(file)
    <3>1. i \in 1..Len(file)
      BY <1>0, <2>1
    <3>2. file[i].part = "head" => i + 1 \in 1..Len(file)
      BY <1>0, <3>1 DEF Reading, LinesAreWhole
    <3>3. file[i].part = "tail" => i - 1 \in 1..Len(file)
      BY <1>0, <3>1 DEF Reading, LinesAreWhole
    <3>4. QED
      BY <1>0, <3>1, <3>2, <3>3 DEF Reading, LinesAreWhole
  <2>2. CASE i = Len(file) + 1
    BY <1>0, <2>2
  <2>3. CASE i = Len(file) + 2
    BY <1>0, <2>3
  <2>4. CASE i = Len(file) + 3
    BY <1>0, <2>4
  <2>5. QED
    BY <1>0, <2>1, <2>2, <2>3, <2>4
<1>2. ASSUME LinesAreApart'
      PROVE  BetweenLines' /\ TakenIsBehind'
  <2>1. BetweenLines /\ TakenIsBehind
    BY <1>2, ApartBefore DEF Reading
  <2>2. pos \in 0..Len(file)
    <3> SUFFICES ASSUME pos = Len(file) + 1 PROVE FALSE
      BY <1>0 DEF TypeOK
    <3>1. Len(file) > 0 /\ file[Len(file)].part = "tail"
      BY <1>0, <2>1 DEF BetweenLines
    <3>2. file'[Len(file)].part = "newline"
      BY <1>0, <1>2, <3>1 DEF LinesAreApart, Is
    <3>3. QED
      BY <1>0, <3>1, <3>2
  <2>3. BetweenLines'
    BY <1>0, <2>1, <2>2 DEF BetweenLines, reading
  <2>4. Events' = Events \cup {Len(file) + 1}
    BY <1>0 DEF Events, Is
  <2>5. Len(file) + 1 \notin taken /\ Len(file) + 1 \notin again
    BY <1>0 DEF TypeOK
  <2>6. TakenIsBehind'
    BY <1>0, <2>1, <2>2, <2>4, <2>5 DEF TakenIsBehind, reading, Events
  <2>7. QED
    BY <2>3, <2>6
<1>3. QED
  BY <1>1, <1>2 DEF Reading
-----------------------------------------------------------------------------
(* Who writes, and who takes up.                                           *)

Writes ==
  /\ Keeps /\ (Ends \/ \E kind \in Kinds : Begins(kind))
  /\ UNCHANGED <<mode, reading>>

Takes == Read \/ SkipConsumed \/ Settle

\* A step writes, or takes up, or does neither.
LEMMA WritesOrTakes ==
  ASSUME DataOK, [Next]_vars
  PROVE  \/ Writes
         \/ Takes /\ UNCHANGED <<mode, file>>
         \/ UNCHANGED <<mode, file, reading>>
<1> USE DEF Writes, Takes, Goto
<1>1. CASE EmitEnds \/ EndMessage \/ EndAnswer \/ GuidanceEnds
  <2>1. EndLine /\ UNCHANGED <<mode, reading>>
    BY <1>1 DEF EmitEnds, EndMessage, EndAnswer, GuidanceEnds
  <2>2. QED
    BY <2>1, EndLineEnds
<1>2. ASSUME NEW kind \in Kinds, NEW message \in MessageType,
             WriteLine(kind, message), UNCHANGED <<mode, reading>>
      PROVE  Writes
  BY <1>2, WriteLineBegins
<1>3. CASE Emit \/ RecordAnswer \/ Guidance
  <2>1. \E kind \in Kinds : WriteLine(kind, Nothing)
    BY <1>3 DEF Emit, RecordAnswer, Guidance, Kinds
  <2>2. UNCHANGED <<mode, reading>>
    BY <1>3 DEF Emit, RecordAnswer, Guidance
  <2>3. QED
    BY <1>2, <2>1, <2>2, NewlineIsACell
<1>4. CASE HandleMessage
  <2>1. CASE poll.message.to = "main"
    <3>1. poll.message \in MessageType
      BY DEF DataOK
    <3>2. \E kind \in Kinds : WriteLine(kind, poll.message)
      BY <1>4, <2>1 DEF HandleMessage, Kinds
    <3>3. UNCHANGED <<mode, reading>>
      BY <1>4 DEF HandleMessage
    <3>4. QED
      BY <1>2, <3>1, <3>2, <3>3
  <2>2. CASE poll.message.to # "main"
    BY <1>4, <2>2 DEF HandleMessage
  <2>3. QED
    BY <2>1, <2>2
<1>5. CASE LogTurn
  <2>1. "telemetry" \in Kinds
    BY DEF Kinds
  <2>2. UNCHANGED <<mode, reading>>
    BY <1>5 DEF LogTurn
  <2>3. QED
    BY <1>5, <2>1, <2>2, LogTurnBegins
<1>6. CASE Takes
  BY <1>6 DEF Read, SkipConsumed, Settle
<1>7. CASE SendFails \/ SendQuestion \/ StoreQuestion \/ BeginWait
           \/ PollLog \/ FindResponse \/ WaitEnds
  BY <1>7 DEF SendFails, SendQuestion, StoreQuestion, BeginWait, PollLog,
                FindResponse, WaitEnds
<1>8. CASE WriteQuestion \/ ResponseReady \/ ResponseStale
           \/ RemoveStale \/ GiveUp \/ RemoveQuestion \/ RemoveResponse
           \/ MeasureLog
  BY <1>8 DEF WriteQuestion, ResponseReady, ResponseStale, RemoveStale,
                GiveUp, RemoveQuestion, RemoveResponse, MeasureLog
<1>9. CASE PollLoads \/ RemovePending \/ PollSaves \/ Send
           \/ SeeQuestion \/ Respond \/ EmitKilled
  BY <1>9 DEF PollLoads, RemovePending, PollSaves, Send, SeeQuestion,
                Respond, EmitKilled
<1>10. CASE UNCHANGED vars
  BY <1>10 DEF vars
<1>11. QED
  BY <1>1, <1>3, <1>4, <1>5, <1>6, <1>7, <1>8, <1>9, <1>10
     DEF Next, LoopStep, TelegramStep, WebStep, PollStep, HumanStep, AgentStep
-----------------------------------------------------------------------------
(* Each step keeps the invariant.                                          *)

\* Lines stand where they stood.
LEMMA LogKeeps ==
  ASSUME DataOK, Writes \/ UNCHANGED file
  PROVE  Keeps /\ Len(file) \in Nat /\ Len(file') \in Nat
<1>1. CASE Writes
  BY <1>1, LogIsCells DEF Writes, Keeps
<1>2. CASE UNCHANGED file
  BY <1>2, LogIsCells DEF Keeps
<1>3. QED
  BY <1>1, <1>2

\* The read after a turn takes up what is left, and goes to the end.
LEMMA ReadStep ==
  ASSUME IInv, Read
  PROVE  Reading'
<1> USE LogIsCells DEF IInv
<1>1. UNCHANGED <<mode, file>> /\ pos' = After(pos) /\ TakeUp(Parsed(pos))
  BY DEF Read
<1>2. LinesAreWhole'
  BY <1>1 DEF LinesAreWhole
<1>3. ASSUME LinesAreApart'
      PROVE  BetweenLines' /\ TakenIsBehind'
  <2>1. LinesAreApart
    BY <1>1, <1>3 DEF LinesAreApart, Is
  <2>2. BetweenLines /\ TakenIsBehind
    BY <2>1
  <2>3. pos \in Nat /\ Parsed(pos) = {i \in Events : i > pos}
    BY <2>1, ParsedIsTheRest DEF TypeOK
  <2>4. \A i \in Events : i \in Nat /\ i < Len(file) /\ i # pos
    BY <2>2 DEF Events, Is, LinesAreWhole, BetweenLines
  <2>5. After(pos) \in Nat /\ After(pos) >= Len(file)
    BY AfterIsTheEnd DEF TypeOK
  <2>6. BetweenLines'
    BY <1>1, <2>2 DEF After, BetweenLines, Is, TypeOK, LinesAreWhole
  <2>7. Events' = Events
    BY <1>1 DEF Events, Is
  <2>8. TakenIsBehind'
    BY <1>1, <2>2, <2>3, <2>4, <2>5, <2>7 DEF TakenIsBehind, TakeUp
  <2>9. QED
    BY <2>6, <2>8
<1>4. QED
  BY <1>2, <1>3 DEF Reading

\* An answer over Telegram is ahead of the reader, which takes up all lines
\* as far as the first that looks like it.
LEMMA SkipStep ==
  ASSUME IInv, SkipConsumed
  PROVE  Reading'
<1> USE LogIsCells DEF IInv
<1> DEFINE found == {i \in Responses(pos) :
                       file[i].message.payload = file[answer].message.payload}
<1>1. UNCHANGED <<mode, file>> /\ pc = "answered"
  BY DEF SkipConsumed
<1>2. LinesAreWhole'
  BY <1>1 DEF LinesAreWhole
<1>3. ASSUME LinesAreApart'
      PROVE  BetweenLines' /\ TakenIsBehind'
  <2>1. LinesAreApart
    BY <1>1, <1>3 DEF LinesAreApart, Is
  <2>2. BetweenLines /\ TakenIsBehind
    BY <2>1
  <2>3. pos \in Nat /\ Parsed(pos) = {i \in Events : i > pos}
    BY <2>1, ParsedIsTheRest DEF TypeOK
  <2>4. \A i \in Events : i \in Nat /\ i < Len(file) /\ i # pos
                          /\ file[i + 1].part = "tail"
    BY <2>2 DEF Events, Is, LinesAreWhole, BetweenLines
  <2>5. answer \in found
    <3>1. answer \in Events /\ file[answer].kind = "response"
      BY <1>1 DEF AnswerStands, Events, Is
    <3>2. answer > pos
      BY <1>1, <2>3, <2>4, <3>1 DEF WaitIsAhead
    <3>3. QED
      BY <2>3, <3>1, <3>2 DEF Responses
  <2>6. found \in SUBSET Events /\ found \in SUBSET Nat /\ found # {}
    BY <2>3, <2>4, <2>5 DEF Responses
  <2>7. /\ pos' = First(found) + 2
        /\ TakeUp({i \in Parsed(pos) : i <= First(found)})
    BY <2>6 DEF SkipConsumed
  <2> DEFINE end == First(found)
  <2>8. end \in Events /\ end > pos
    BY <2>3, <2>6, FirstIsFirst DEF Responses
  <2> HIDE DEF found, end
  <2>9. BetweenLines'
    <3>1. end + 2 \in 1..Len(file) => file[end + 2].part # "head"
      <4> SUFFICES ASSUME end + 2 \in 1..Len(file), Is(end + 2, "head")
                   PROVE  FALSE
        BY DEF Is
      <4>1. Is(end + 1, "newline")
        <5>1. end + 2 \in 2..Len(file) /\ (end + 2) - 1 = end + 1
          BY <2>4, <2>8
        <5>2. QED
          BY <2>1, <5>1 DEF LinesAreApart
      <4>2. QED
        BY <2>4, <2>8, <4>1 DEF Is
    <3>2. end + 2 = Len(file) + 1 =>
            Len(file) > 0 /\ file[Len(file)].part = "tail"
      <4> SUFFICES ASSUME end + 2 = Len(file) + 1
                   PROVE  Len(file) > 0 /\ file[Len(file)].part = "tail"
        OBVIOUS
      <4>1. end \in Nat /\ end < Len(file) /\ end + 1 = Len(file)
        BY <2>4, <2>8
      <4>2. QED
        BY <2>4, <2>8, <4>1
    <3>3. QED
      BY <1>1, <2>7, <3>1, <3>2 DEF BetweenLines, end
  <2>10. \A i \in Events : i < end + 2 <=> i <= end
    <3> SUFFICES ASSUME NEW i \in Events, i = end + 1
                 PROVE  FALSE
      BY <2>4, <2>8
    <3>1. QED
      BY <2>4, <2>8 DEF Events, Is
  <2>11. Events' = Events
    BY <1>1 DEF Events, Is
  <2>12. TakenIsBehind'
    BY <1>1, <2>2, <2>3, <2>4, <2>7, <2>8, <2>10, <2>11
       DEF TakenIsBehind, TakeUp, end
  <2>13. QED
    BY <2>9, <2>12
<1>4. QED
  BY <1>2, <1>3 DEF Reading

\* A web answer is taken up where it was recorded; what else is taken up
\* stood unread before it.
LEMMA SettleStep ==
  ASSUME IInv, Settle
  PROVE  Reading'
<1> USE LogIsCells DEF IInv
<1>1. UNCHANGED <<mode, file>> /\ pc = "settling" /\ mode = "web"
  BY DEF Settle, TypeOK, Asking
<1>2. LinesAreWhole'
  BY <1>1 DEF LinesAreWhole
<1>3. ASSUME LinesAreApart'
      PROVE  BetweenLines' /\ TakenIsBehind'
  <2>1. LinesAreApart
    BY <1>1, <1>3 DEF LinesAreApart, Is
  <2>2. BetweenLines /\ TakenIsBehind
    BY <2>1
  <2>3. pos \in Nat /\ Parsed(pos) = {i \in Events : i > pos}
    BY <2>1, ParsedIsTheRest DEF TypeOK
  <2>4. \A i \in Events : i \in Nat /\ i < Len(file)
    BY DEF Events, Is, LinesAreWhole
  <2>5. answer \in Events /\ file[answer].kind = "response"
    BY <1>1 DEF AnswerStands, Events, Is
  <2>6. Events' = Events
    BY <1>1 DEF Events, Is
  <2>7. CASE pos <= mark
    <3>1. /\ pos' = Len(file)
          /\ TakeUp({answer} \cup {i \in Parsed(pos) : i + 2 <= mark})
      BY <2>7 DEF Settle
    <3>2. BetweenLines'
      BY <1>1, <3>1 DEF BetweenLines, LinesAreWhole
    <3>3. TakenIsBehind'
      BY <1>1, <2>2, <2>3, <2>4, <2>5, <2>6, <3>1 DEF TakenIsBehind, TakeUp
    <3>4. QED
      BY <3>2, <3>3
  <2>8. CASE ~ (pos <= mark)
    <3>1. UNCHANGED pos /\ TakeUp({answer})
      BY <2>8 DEF Settle
    <3>2. BetweenLines'
      BY <1>1, <2>2, <3>1 DEF BetweenLines
    <3>3. TakenIsBehind'
      BY <1>1, <2>2, <2>5, <2>6, <3>1 DEF TakenIsBehind, TakeUp
    <3>4. QED
      BY <3>2, <3>3
  <2>9. QED
    BY <2>7, <2>8
<1>4. QED
  BY <1>2, <1>3 DEF Reading

LEMMA ReadingStep ==
  ASSUME IInv, [Next]_vars
  PROVE  Reading'
<1>1. DataOK /\ TypeOK /\ Reading
  BY DEF IInv, Reading
<1>2. CASE Writes
  BY <1>1, <1>2, EndKeepsReading, LineKeepsReading DEF Writes
<1>3. CASE Takes
  BY <1>3, ReadStep, SkipStep, SettleStep DEF Takes
<1>4. CASE UNCHANGED <<mode, file, reading>>
  BY <1>1, <1>4
     DEF Reading, LinesAreWhole, LinesAreApart, BetweenLines, TakenIsBehind,
         Events, Is, reading
<1>5. QED
  BY <1>1, <1>2, <1>3, <1>4, WritesOrTakes

\* What is written are cells, and what is sent are messages.
LEMMA DataStep ==
  ASSUME IInv, [Next]_vars
  PROVE  DataOK'
<1> DEFINE Polling == [at : {"idle", "loaded", "half", "written", "reacting"},
                       message : MessageType, pending : Nat]
           Sent == inbox \in Seq(MessageType) /\ poll \in Polling
<1>1. DataOK /\ Sent /\ pending \in Nat /\ asked \in Nat
  BY DEF IInv, DataOK, TypeOK
<1>2. file' \in Seq(CellType)
  <2>1. Writes \/ UNCHANGED file
    BY <1>1, WritesOrTakes
  <2>2. QED
    BY <1>1, <2>1, LogKeeps DEF Keeps
<1>3. Sent'
  <2>1. CASE Send
    <3>1. UNCHANGED poll
      BY <2>1 DEF Send, human, web
    <3>2. \E payload \in Payloads :
            \/ \E to \in {"main", "other"} :
                 inbox' = Append(inbox, Said(to, 0, payload))
            \/ inbox' = Append(inbox, Said("main", asked, payload))
      BY <2>1 DEF Send
    <3>3. \A to \in {"main", "other"}, re \in Nat, payload \in Payloads :
            Said(to, re, payload) \in MessageType
      BY DEF Said, MessageType
    <3>4. inbox' \in Seq(MessageType)
      BY <1>1, <3>2, <3>3
    <3>5. QED
      BY <1>1, <3>1, <3>4
  <2>2. CASE PollLoads
    <3>1. inbox # <<>> /\ inbox' = Tail(inbox)
          /\ poll' = [at |-> "loaded", message |-> Head(inbox),
                      pending |-> pending]
      BY <2>2 DEF PollLoads
    <3>2. Head(inbox) \in MessageType /\ Tail(inbox) \in Seq(MessageType)
      BY <1>1, <3>1
    <3>3. QED
      BY <1>1, <3>1, <3>2
  <2>3. CASE HandleMessage \/ EndMessage \/ PollSaves \/ RemovePending
    <3>1. inbox' = inbox
      BY <2>3 DEF HandleMessage, EndMessage, PollSaves, RemovePending
    <3>2. ASSUME HandleMessage \/ EndMessage \/ PollSaves
          PROVE  \E at \in {"half", "reacting", "written", "idle"} :
                   poll' = [poll EXCEPT !.at = at]
      BY <3>2 DEF HandleMessage, EndMessage, PollSaves, Polls
    <3>3. ASSUME RemovePending
          PROVE  poll' = [poll EXCEPT !.at = "reacting", !.pending = 0]
      BY <3>3 DEF RemovePending
    <3>4. poll' \in Polling
      <4>1. poll \in Polling
        BY <1>1
      <4>2. ASSUME NEW at \in {"half", "reacting", "written", "idle"}
            PROVE  [poll EXCEPT !.at = at] \in Polling
        BY <4>1
      <4>3. [poll EXCEPT !.at = "reacting", !.pending = 0] \in Polling
        BY <4>1
      <4>4. QED
        BY <2>3, <3>2, <3>3, <4>2, <4>3
    <3>5. QED
      BY <1>1, <3>1, <3>4
  <2>4. CASE Read \/ LogTurn \/ SendFails \/ SendQuestion
            \/ StoreQuestion \/ BeginWait \/ PollLog \/ FindResponse
            \/ WaitEnds
    <3>1. UNCHANGED <<inbox, poll>>
      BY <2>4 DEF Read, LogTurn, SendFails, SendQuestion, StoreQuestion,
             BeginWait, PollLog, FindResponse, WaitEnds, Goto, telegram
    <3>2. QED
      BY <1>1, <3>1
  <2>5. CASE SkipConsumed \/ WriteQuestion \/ ResponseReady
            \/ ResponseStale \/ RemoveStale \/ GiveUp \/ RemoveQuestion
            \/ RemoveResponse \/ MeasureLog
    <3>1. UNCHANGED <<inbox, poll>>
      BY <2>5 DEF SkipConsumed, WriteQuestion, ResponseReady, ResponseStale,
             RemoveStale, GiveUp, RemoveQuestion, RemoveResponse,
             MeasureLog, Goto, telegram
    <3>2. QED
      BY <1>1, <3>1
  <2>6. CASE RecordAnswer \/ EndAnswer \/ Settle \/ SeeQuestion
            \/ Respond \/ Guidance \/ GuidanceEnds \/ Emit \/ EmitEnds
    <3>1. UNCHANGED <<inbox, poll>>
      BY <2>6 DEF RecordAnswer, EndAnswer, Settle, SeeQuestion, Respond,
             Guidance, GuidanceEnds, Emit, EmitEnds, Goto, telegram
    <3>2. QED
      BY <1>1, <3>1
  <2>7. CASE EmitKilled
    <3>1. UNCHANGED <<inbox, poll>>
      BY <2>7 DEF EmitKilled, Goto, telegram
    <3>2. QED
      BY <1>1, <3>1
  <2>8. CASE UNCHANGED vars
    BY <1>1, <2>8 DEF vars, telegram
  <2>9. QED
    BY <2>1, <2>2, <2>3, <2>4, <2>5, <2>6, <2>7, <2>8
       DEF Next, LoopStep, TelegramStep, WebStep, PollStep, HumanStep,
           AgentStep
<1>4. QED
  BY <1>2, <1>3 DEF DataOK

\* The reader stays in the log, and takes up lines.
LEMMA ReaderTypes ==
  ASSUME IInv, [Next]_vars
  PROVE  /\ pos' \in 0..(Len(file') + 1)
         /\ taken' \subseteq 1..Len(file') /\ again' \subseteq taken'
<1>1. /\ Len(file) \in Nat /\ pos \in 0..(Len(file) + 1)
      /\ taken \subseteq 1..Len(file) /\ again \subseteq taken
  BY LogIsCells DEF IInv, TypeOK
<1>2. CASE Writes
  <2>1. UNCHANGED <<pos, taken, again>> /\ Len(file') \in Nat
        /\ Len(file) <= Len(file')
    BY <1>2, LogKeeps DEF IInv, Writes, Keeps, reading
  <2>2. QED
    BY <1>1, <2>1
<1>3. CASE UNCHANGED <<mode, file, reading>>
  BY <1>1, <1>3 DEF reading
<1>4. Parsed(pos) \subseteq 1..Len(file)
  BY <1>1 DEF Parsed
<1> DEFINE Taking == taken' \subseteq 1..Len(file) /\ again' \subseteq taken'
<1>5. ASSUME NEW lines, lines \subseteq 1..Len(file), TakeUp(lines)
      PROVE  Taking
  BY <1>1, <1>5 DEF TakeUp
<1> HIDE DEF Taking
<1>6. ASSUME UNCHANGED file, Taking, pos' \in 0..(Len(file) + 1)
      PROVE  /\ pos' \in 0..(Len(file') + 1)
             /\ taken' \subseteq 1..Len(file') /\ again' \subseteq taken'
  BY <1>6 DEF Taking
<1>7. CASE Read
  <2>1. UNCHANGED file /\ TakeUp(Parsed(pos)) /\ pos' = After(pos)
    BY <1>7 DEF Read
  <2>2. QED
    BY <1>1, <1>4, <1>5, <1>6, <2>1, AfterIsTheEnd DEF IInv
<1>8. CASE SkipConsumed
  <2> DEFINE found == {i \in Responses(pos) :
                         file[i].message.payload = file[answer].message.payload}
  <2>1. answer \in 1..Len(file) /\ UNCHANGED file
    BY <1>8 DEF SkipConsumed, IInv, AnswerStands, Is
  <2>2. CASE found = {}
    <3>1. UNCHANGED pos /\ TakeUp(Parsed(pos) \cup {answer})
      BY <1>8, <2>2 DEF SkipConsumed
    <3>2. Parsed(pos) \cup {answer} \subseteq 1..Len(file)
      BY <1>4, <2>1
    <3>3. QED
      BY <1>1, <1>5, <1>6, <2>1, <3>1, <3>2
  <2>3. CASE found # {}
    <3>1. First(found) \in found
      <4>1. found \in SUBSET Nat
        BY <1>1 DEF Responses, Parsed
      <4>2. QED
        BY <2>3, <4>1, FirstIsFirst
    <3>2. First(found) \in 1..Len(file) /\ file[First(found)].part = "head"
      BY <1>1, <3>1 DEF Responses, Parsed, Is
    <3>3. First(found) < Len(file)
      BY <3>2 DEF IInv, LinesAreWhole
    <3>4. pos' = First(found) + 2
          /\ TakeUp({i \in Parsed(pos) : i <= First(found)})
      BY <1>8, <2>3 DEF SkipConsumed
    <3>5. {i \in Parsed(pos) : i <= First(found)} \subseteq 1..Len(file)
      BY <1>4
    <3> HIDE DEF found
    <3>6. pos' \in 0..(Len(file) + 1)
      BY <1>1, <3>2, <3>3, <3>4
    <3>7. QED
      BY <1>5, <1>6, <2>1, <3>4, <3>5, <3>6
  <2>4. QED
    BY <2>2, <2>3
<1>9. CASE Settle
  <2>1. answer \in 1..Len(file) /\ UNCHANGED file
    BY <1>9 DEF Settle, IInv, AnswerStands, Is
  <2>2. \/ /\ pos' = Len(file)
           /\ TakeUp({answer} \cup {i \in Parsed(pos) : i + 2 <= mark})
        \/ UNCHANGED pos /\ TakeUp({answer})
    BY <1>9 DEF Settle
  <2>3. {answer} \cup {i \in Parsed(pos) : i + 2 <= mark} \subseteq 1..Len(file)
    BY <1>4, <2>1
  <2>4. {answer} \subseteq 1..Len(file) /\ Len(file) \in 0..(Len(file) + 1)
    BY <1>1, <2>1
  <2>5. QED
    BY <1>1, <1>5, <1>6, <2>1, <2>2, <2>3, <2>4
<1>10. QED
  BY <1>2, <1>3, <1>7, <1>8, <1>9, WritesOrTakes DEF IInv, Takes

\* So do the marks of the waits.
LEMMA MarkTypes ==
  ASSUME IInv, [Next]_vars
  PROVE  /\ mark' \in 0..(Len(file') + 1)
         /\ answer' \in {NoAnswer, Unrecorded} \cup 1..Len(file')
<1>1. /\ Len(file) \in Nat /\ mark \in 0..(Len(file) + 1)
      /\ answer \in {NoAnswer, Unrecorded} \cup 1..Len(file)
  BY LogIsCells DEF IInv, TypeOK
<1>2. Len(file') \in Nat /\ Len(file) <= Len(file')
  <2>1. Writes \/ UNCHANGED file
    BY WritesOrTakes DEF IInv
  <2>2. QED
    BY <2>1, LogKeeps DEF IInv, Keeps
<1>3. CASE FindResponse
  <2>1. Responses(mark) # {} /\ Responses(mark) \in SUBSET (1..Len(file))
    BY <1>1, <1>3 DEF FindResponse, Responses, Parsed
  <2>2. First(Responses(mark)) \in 1..Len(file)
    BY <1>1, <2>1, FirstIsFirst
  <2>3. QED
    BY <1>1, <1>3, <2>2 DEF FindResponse
<1>4. CASE RecordAnswer
  <2>1. Len(file') >= Len(file) + 2
    <3>1. Nothing \in MessageType /\ "response" \in Kinds
      BY NewlineIsACell DEF Kinds
    <3>2. DataOK /\ WriteLine("response", Nothing)
      BY <1>4 DEF RecordAnswer, IInv
    <3>3. Begins("response")
      BY <3>1, <3>2, WriteLineBegins
    <3>4. QED
      BY <1>1, <3>3 DEF Begins
  <2>2. answer' = Len(file) + 1 /\ UNCHANGED mark
    BY <1>4 DEF RecordAnswer
  <2>3. QED
    BY <1>1, <1>2, <2>1, <2>2
<1>5. CASE PollLog
  BY <1>1, <1>5, AfterIsTheEnd DEF PollLog, IInv
<1>6. CASE BeginWait
  BY <1>1, <1>2, <1>6 DEF BeginWait
<1>7. CASE MeasureLog
  BY <1>1, <1>2, <1>7 DEF MeasureLog
<1>8. CASE ResponseReady
  BY <1>1, <1>2, <1>8 DEF ResponseReady
<1>9. CASE GiveUp
  BY <1>1, <1>2, <1>9 DEF GiveUp
<1>10. CASE Read \/ LogTurn \/ SendFails \/ SendQuestion
            \/ StoreQuestion \/ WaitEnds \/ SkipConsumed
            \/ WriteQuestion \/ ResponseStale \/ RemoveStale
            \/ RemoveQuestion \/ RemoveResponse
  <2>1. UNCHANGED <<mark, answer>>
    BY <1>10 DEF Read, LogTurn, SendFails, SendQuestion, StoreQuestion,
             WaitEnds, SkipConsumed, WriteQuestion, ResponseStale,
             RemoveStale, RemoveQuestion, RemoveResponse, Goto, loop
  <2>2. QED
    BY <1>1, <1>2, <2>1
<1>11. CASE EndAnswer \/ Settle \/ PollLoads \/ HandleMessage
            \/ EndMessage \/ RemovePending \/ PollSaves \/ Send
            \/ SeeQuestion \/ Respond \/ Guidance \/ GuidanceEnds
  <2>1. UNCHANGED <<mark, answer>>
    BY <1>11 DEF EndAnswer, Settle, PollLoads, HandleMessage, EndMessage,
             RemovePending, PollSaves, Send, SeeQuestion, Respond,
             Guidance, GuidanceEnds, Goto, loop
  <2>2. QED
    BY <1>1, <1>2, <2>1
<1>12. CASE Emit \/ EmitEnds \/ EmitKilled
  <2>1. UNCHANGED <<mark, answer>>
    BY <1>12 DEF Emit, EmitEnds, EmitKilled, Goto, loop
  <2>2. QED
    BY <1>1, <1>2, <2>1
<1>13. CASE UNCHANGED vars
  BY <1>1, <1>2, <1>13 DEF vars, loop
<1>14. QED
  BY <1>3, <1>4, <1>5, <1>6, <1>7, <1>8, <1>9, <1>10, <1>11, <1>12, <1>13
     DEF Next, LoopStep, TelegramStep, WebStep, PollStep, HumanStep,
         AgentStep

\* The loop, the agent and the API are somewhere in their own code.
LEMMA PlaceTypes ==
  ASSUME IInv, [Next]_vars
  PROVE  /\ mode' \in {"telegram", "web"} /\ turn' \in 1..Turns
         /\ pc' \in {"agent", "logging", "done"}
                    \cup (IF mode' = "web" THEN Carding ELSE Asking)
         /\ agent' \in {"idle", "half"} /\ api' \in {"idle", "half"}
<1> DEFINE Places == /\ mode \in {"telegram", "web"} /\ turn \in 1..Turns
                     /\ pc \in {"agent", "logging", "done"}
                               \cup (IF mode = "web" THEN Carding ELSE Asking)
                     /\ agent \in {"idle", "half"} /\ api \in {"idle", "half"}
<1>1. Places
  BY DEF IInv, TypeOK
<1>2. Turns \in Nat
  BY RobotAssumption
<1> USE DEF Asking, Carding
<1>3. CASE Read
  BY <1>1, <1>3 DEF Read, Goto, loop, telegram, human, web
<1>4. CASE LogTurn
  <2>1. \/ turn < Turns /\ turn' = turn + 1 /\ pc' = "agent"
        \/ turn' = turn /\ pc' = "done"
    BY <1>4 DEF LogTurn
  <2>2. UNCHANGED <<mode, agent, api>>
    BY <1>4 DEF LogTurn, web
  <2>3. turn \in 1..Turns
    BY <1>1
  <2>4. turn' \in 1..Turns
    BY <1>2, <2>1, <2>3
  <2>5. pc' \in {"agent", "done"}
    BY <2>1
  <2>6. QED
    BY <1>1, <2>2, <2>4, <2>5
<1>5. CASE SendFails \/ SendQuestion \/ StoreQuestion \/ BeginWait
           \/ PollLog \/ FindResponse \/ WaitEnds \/ SkipConsumed
  BY <1>1, <1>5
     DEF SendFails, SendQuestion, StoreQuestion, BeginWait, PollLog,
         FindResponse, WaitEnds, SkipConsumed, Goto, loop, telegram,
         human, web
<1>6. CASE WriteQuestion \/ ResponseReady \/ ResponseStale
           \/ RemoveStale \/ GiveUp \/ RemoveQuestion \/ RemoveResponse
           \/ MeasureLog
  BY <1>1, <1>6
     DEF WriteQuestion, ResponseReady, ResponseStale, RemoveStale,
         GiveUp, RemoveQuestion, RemoveResponse, MeasureLog, Goto,
         loop, telegram, human, web
<1>7. CASE RecordAnswer \/ EndAnswer \/ Settle
  BY <1>1, <1>7
     DEF RecordAnswer, EndAnswer, Settle, Goto, loop, telegram, human,
         web
<1>8. CASE PollLoads \/ HandleMessage \/ EndMessage \/ RemovePending
           \/ PollSaves \/ Send
  BY <1>1, <1>8
     DEF PollLoads, HandleMessage, EndMessage, RemovePending,
         PollSaves, Send, Goto, loop, telegram, human, web
<1>9. CASE SeeQuestion \/ Respond \/ Guidance \/ GuidanceEnds \/ Emit
           \/ EmitEnds \/ EmitKilled
  BY <1>1, <1>9
     DEF SeeQuestion, Respond, Guidance, GuidanceEnds, Emit, EmitEnds,
         EmitKilled, Goto, loop, telegram, human, web
<1>10. CASE UNCHANGED vars
  BY <1>1, <1>10 DEF vars, loop, telegram, human, web
<1>11. QED
  BY <1>3, <1>4, <1>5, <1>6, <1>7, <1>8, <1>9, <1>10
     DEF Next, LoopStep, TelegramStep, WebStep, PollStep, HumanStep,
         AgentStep

\* What is said of questions is said of questions that were asked, and by the
\* service of the run.
LEMMA QuestionTypes ==
  ASSUME IInv, [Next]_vars
  PROVE  /\ question' \in Nat /\ pending' \in 0..question'
         /\ card' \in {0, question'} /\ reply' \in 0..question'
         /\ asked' \in 0..(question' + 1)
         /\ answered' \subseteq 1..(question' + 1)
         /\ poll'.pending \in 0..question'
         /\ OneService'
<1> DEFINE Told == /\ question \in Nat /\ pending \in 0..question
                   /\ card \in {0, question} /\ reply \in 0..question
                   /\ asked \in 0..(question + 1)
                   /\ answered \subseteq 1..(question + 1)
                   /\ poll.pending \in 0..question
                   /\ OneService
<1>1. Told /\ poll = [at |-> poll.at, message |-> poll.message,
                     pending |-> poll.pending]
  BY DEF IInv, TypeOK, DataOK
<1>2. pc \in {"storing", "answered"} => mode = "telegram"
  BY DEF IInv, TypeOK, Carding
<1> USE DEF OneService
<1>3. CASE SendQuestion \/ StoreQuestion \/ FindResponse \/ WaitEnds
  BY <1>1, <1>2, <1>3
     DEF SendQuestion, StoreQuestion, FindResponse, WaitEnds, Goto,
         Polls, loop, human, web, telegram
<1>4. CASE WriteQuestion \/ RemoveStale \/ RemoveQuestion
          \/ RemoveResponse
  BY <1>1, <1>2, <1>4
     DEF WriteQuestion, RemoveStale, RemoveQuestion, RemoveResponse,
         Goto, Polls, loop, human, web, telegram
<1>5. CASE PollLoads
  BY <1>1, <1>2, <1>5
     DEF PollLoads, Goto, Polls, loop, human, web, telegram
<1>6. CASE HandleMessage \/ EndMessage \/ PollSaves
  BY <1>1, <1>2, <1>6
     DEF HandleMessage, EndMessage, PollSaves, Goto, Polls, loop,
         human, web, telegram
<1>7. CASE RemovePending
  BY <1>1, <1>2, <1>7
     DEF RemovePending, Goto, Polls, loop, human, web, telegram
<1>8. CASE Send \/ SeeQuestion \/ Respond
  BY <1>1, <1>2, <1>8
     DEF Send, SeeQuestion, Respond, Goto, Polls, loop, human, web,
         telegram
<1>9. CASE Read \/ LogTurn \/ SendFails \/ BeginWait \/ PollLog
            \/ SkipConsumed \/ ResponseReady \/ ResponseStale \/ GiveUp
            \/ MeasureLog \/ RecordAnswer \/ EndAnswer
  <2>1. UNCHANGED <<mode, question, telegram, asked, answered, card, reply>>
    BY <1>9 DEF Read, LogTurn, SendFails, BeginWait, PollLog, SkipConsumed,
             ResponseReady, ResponseStale, GiveUp, MeasureLog,
             RecordAnswer, EndAnswer, Goto, loop, telegram, human, web
  <2>2. QED
    BY <1>1, <1>2, <2>1 DEF telegram
<1>10. CASE Settle \/ Guidance \/ GuidanceEnds \/ Emit \/ EmitEnds
            \/ EmitKilled
  <2>1. UNCHANGED <<mode, question, telegram, asked, answered, card, reply>>
    BY <1>10 DEF Settle, Guidance, GuidanceEnds, Emit, EmitEnds, EmitKilled,
             Goto, loop, telegram, human, web
  <2>2. QED
    BY <1>1, <1>2, <2>1 DEF telegram
<1>11. CASE UNCHANGED vars
  BY <1>1, <1>2, <1>11 DEF vars, loop, telegram, human, web
<1>12. QED
  BY <1>3, <1>4, <1>5, <1>6, <1>7, <1>8,
     <1>9, <1>10, <1>11
     DEF Next, LoopStep, TelegramStep, WebStep, PollStep, HumanStep,
         AgentStep

\* Nobody has said more than the bound, and what waits has been said.
LEMMA MessageTypes ==
  ASSUME IInv, [Next]_vars
  PROVE  said' \in 0..Messages /\ Len(inbox') <= said'
<1>1. /\ said \in 0..Messages /\ Len(inbox) <= said /\ Messages \in Nat
      /\ inbox \in Seq(MessageType)
  BY RobotAssumption DEF IInv, TypeOK, DataOK
<1>2. Len(inbox) \in Nat
  BY <1>1
<1>3. CASE Send
  <2>1. said < Messages /\ said' = said + 1
    BY <1>3 DEF Send
  <2>2. \E message : inbox' = Append(inbox, message)
    BY <1>3 DEF Send
  <2>3. Len(inbox') = Len(inbox) + 1
    BY <1>1, <2>2
  <2>4. QED
    BY <1>1, <1>2, <2>1, <2>3
<1>4. CASE PollLoads
  <2>1. inbox # <<>> /\ inbox' = Tail(inbox) /\ UNCHANGED said
    BY <1>4 DEF PollLoads, human
  <2>2. Len(inbox') = Len(inbox) - 1
    BY <1>1, <2>1
  <2>3. QED
    BY <1>1, <1>2, <2>1, <2>2
<1>5. CASE Respond \/ Guidance
  <2>1. said < Messages /\ said' = said + 1 /\ UNCHANGED inbox
    BY <1>5 DEF Respond, Guidance, telegram
  <2>2. QED
    BY <1>1, <1>2, <2>1
<1>6. CASE Read \/ LogTurn \/ SendFails \/ SendQuestion
            \/ StoreQuestion \/ BeginWait \/ PollLog \/ FindResponse
            \/ WaitEnds \/ SkipConsumed \/ WriteQuestion
            \/ ResponseReady
  <2>1. UNCHANGED <<said, inbox>>
    BY <1>6 DEF Read, LogTurn, SendFails, SendQuestion, StoreQuestion,
             BeginWait, PollLog, FindResponse, WaitEnds, SkipConsumed,
             WriteQuestion, ResponseReady, Goto, loop, telegram, human, web
  <2>2. QED
    BY <1>1, <2>1
<1>7. CASE ResponseStale \/ RemoveStale \/ GiveUp \/ RemoveQuestion
            \/ RemoveResponse \/ MeasureLog \/ RecordAnswer \/ EndAnswer
            \/ Settle \/ HandleMessage \/ EndMessage \/ RemovePending
  <2>1. UNCHANGED <<said, inbox>>
    BY <1>7 DEF ResponseStale, RemoveStale, GiveUp, RemoveQuestion,
             RemoveResponse, MeasureLog, RecordAnswer, EndAnswer, Settle,
             HandleMessage, EndMessage, RemovePending, Goto, loop,
             telegram, human, web
  <2>2. QED
    BY <1>1, <2>1
<1>8. CASE PollSaves \/ SeeQuestion \/ GuidanceEnds \/ Emit \/ EmitEnds
            \/ EmitKilled
  <2>1. UNCHANGED <<said, inbox>>
    BY <1>8 DEF PollSaves, SeeQuestion, GuidanceEnds, Emit, EmitEnds,
             EmitKilled, Goto, loop, telegram, human, web
  <2>2. QED
    BY <1>1, <2>1
<1>9. CASE UNCHANGED vars
  BY <1>1, <1>9 DEF vars, loop, telegram, human, web
<1>10. QED
  BY <1>3, <1>4, <1>5,
     <1>6, <1>7, <1>8, <1>9
     DEF Next, LoopStep, TelegramStep, WebStep, PollStep, HumanStep,
         AgentStep

\* A response stands in a log.
Response(cells, i) ==
  i \in 1..Len(cells) /\ cells[i].part = "head" /\ cells[i].kind = "response"

\* A wait finds a response behind its mark.
LEMMA FoundIsAResponse ==
  ASSUME IInv, Responses(mark) # {}
  PROVE  /\ First(Responses(mark)) \in Nat /\ First(Responses(mark)) > mark
         /\ Response(file, First(Responses(mark)))
<1>1. DataOK /\ mark \in Nat /\ Len(file) \in Nat
  BY LogIsCells DEF IInv, TypeOK
<1>2. \A i \in Responses(mark) : i \in Nat /\ i > mark /\ Response(file, i)
  BY <1>1, ResponsesAreLines DEF Response
<1>3. First(Responses(mark)) \in Responses(mark)
  BY <1>2, FirstIsFirst
<1>4. QED
  BY <1>2, <1>3

\* What is waited for is ahead of the reader: nobody else moves it.
LEMMA WaitStep ==
  ASSUME IInv, [Next]_vars
  PROVE  WaitIsAhead'
<1> DEFINE Ahead == /\ mode = "telegram" /\ pc = "waiting" => pos <= mark + 1
                    /\ pc = "answered" => pos <= answer
<1>1. /\ Ahead /\ Len(file) \in Nat
      /\ mark \in 0..(Len(file) + 1) /\ pos \in 0..(Len(file) + 1)
      /\ mode = "web" => pc # "answered"
  BY LogIsCells DEF IInv, TypeOK, WaitIsAhead, Carding
<1>2. CASE BeginWait
  <2>1. mark' = Len(file) /\ pc' = "waiting" /\ UNCHANGED pos
    BY <1>2 DEF BeginWait, reading
  <2>2. QED
    BY <1>1, <2>1 DEF WaitIsAhead
<1>3. CASE PollLog
  <2>1. pc = "waiting" /\ mode = "telegram" /\ mark' = After(mark)
        /\ UNCHANGED <<mode, pos, pc>>
    BY <1>3 DEF PollLog, reading
  <2>2. After(mark) \in Nat /\ After(mark) >= mark
    BY <1>1, AfterIsTheEnd DEF IInv
  <2>3. QED
    BY <1>1, <2>1, <2>2 DEF WaitIsAhead
<1>4. CASE FindResponse
  <2>1. First(Responses(mark)) \in Nat /\ First(Responses(mark)) > mark
    BY <1>4, FoundIsAResponse DEF FindResponse
  <2>2. pc = "waiting" /\ mode = "telegram" /\ answer' = First(Responses(mark))
        /\ pc' = "answered" /\ UNCHANGED pos
    BY <1>4 DEF FindResponse, reading
  <2>3. QED
    BY <1>1, <2>1, <2>2 DEF WaitIsAhead
<1>5. CASE Read \/ LogTurn \/ SendFails \/ SendQuestion
          \/ StoreQuestion \/ WaitEnds \/ SkipConsumed
          \/ ResponseReady
  <2>1. pc' \notin {"waiting", "answered"}
    BY <1>5 DEF Read, LogTurn, SendFails, SendQuestion, StoreQuestion,
            WaitEnds, SkipConsumed, ResponseReady, Goto
  <2>2. QED
    BY <2>1 DEF WaitIsAhead
<1>6. CASE GiveUp \/ RemoveQuestion \/ RemoveResponse \/ MeasureLog
          \/ RecordAnswer \/ EndAnswer \/ Settle \/ ResponseStale
  <2>1. pc' \notin {"waiting", "answered"}
    BY <1>6 DEF GiveUp, RemoveQuestion, RemoveResponse, MeasureLog,
            RecordAnswer, EndAnswer, Settle, ResponseStale, Goto
  <2>2. QED
    BY <2>1 DEF WaitIsAhead
<1>7. CASE WriteQuestion \/ RemoveStale
  <2>1. mode' = "web" /\ pc' = "waiting"
    BY <1>7 DEF WriteQuestion, RemoveStale, Goto, IInv, TypeOK, Asking
  <2>2. QED
    BY <2>1 DEF WaitIsAhead
<1>8. CASE PollLoads \/ HandleMessage \/ EndMessage \/ RemovePending
            \/ PollSaves \/ Send \/ SeeQuestion \/ Respond \/ Guidance
            \/ GuidanceEnds \/ Emit \/ EmitEnds
  <2>1. UNCHANGED <<mode, reading, loop>>
    BY <1>8 DEF PollLoads, HandleMessage, EndMessage, RemovePending,
             PollSaves, Send, SeeQuestion, Respond, Guidance,
             GuidanceEnds, Emit, EmitEnds, Goto, loop, telegram, human, web
  <2>2. QED
    BY <1>1, <2>1 DEF WaitIsAhead, reading, loop
<1>9. CASE EmitKilled
  <2>1. UNCHANGED <<mode, reading, loop>>
    BY <1>9 DEF EmitKilled, Goto, loop, telegram, human, web
  <2>2. QED
    BY <1>1, <2>1 DEF WaitIsAhead, reading, loop
<1>10. CASE UNCHANGED vars
  BY <1>1, <1>10 DEF vars, reading, loop, WaitIsAhead
<1>11. QED
  BY <1>2, <1>3, <1>4, <1>5, <1>6, <1>7,
     <1>8, <1>9, <1>10
     DEF Next, LoopStep, TelegramStep, WebStep, PollStep, HumanStep,
         AgentStep

\* An answer in the log stays where it is.
LEMMA AnswerStep ==
  ASSUME IInv, [Next]_vars
  PROVE  AnswerStands'
<1>0. Len(file) \in Nat /\ Len(file') \in Nat /\ Len(file) <= Len(file')
  BY WritesOrTakes, LogKeeps DEF IInv, Keeps
<1>1. pc \in {"answered", "ending line", "settling"} => Response(file, answer)
  BY DEF IInv, AnswerStands, Is, Response
<1>2. Keeps
  BY WritesOrTakes, LogKeeps DEF IInv
<1>3. \A i : Response(file, i) => Response(file', i)
  <2> SUFFICES ASSUME NEW i, Response(file, i)
               PROVE  Response(file', i)
    OBVIOUS
  <2>1. i \in 1..Len(file) /\ file[i].part = "head"
        /\ file[i].kind = "response"
    BY DEF Response
  <2>2. file'[i] = file[i]
    BY <1>2, <2>1 DEF Keeps
  <2>3. i \in 1..Len(file')
    BY <1>0, <2>1
  <2>4. QED
    BY <2>1, <2>2, <2>3 DEF Response
<1>4. ASSUME pc' \in {"answered", "ending line", "settling"} =>
               Response(file', answer')
      PROVE  AnswerStands'
  BY <1>4 DEF AnswerStands, Response, Is
<1>5. CASE FindResponse
  <2>1. answer' = First(Responses(mark)) /\ Responses(mark) # {}
    BY <1>5 DEF FindResponse
  <2>2. QED
    BY <1>3, <1>4, <2>1, FoundIsAResponse
<1>6. CASE RecordAnswer
  <2>1. Nothing \in MessageType /\ "response" \in Kinds
    BY NewlineIsACell DEF Kinds
  <2>2. DataOK /\ WriteLine("response", Nothing) /\ answer' = Len(file) + 1
    BY <1>6 DEF RecordAnswer, IInv
  <2>3. Begins("response")
    BY <2>1, <2>2, WriteLineBegins
  <2>4. answer' \in 1..Len(file') /\ file'[answer'].part = "head"
        /\ file'[answer'].kind = "response"
    BY <1>0, <2>2, <2>3 DEF Begins
  <2>5. QED
    BY <1>4, <2>4 DEF Response
<1>7. CASE EndAnswer
  <2>1. pc = "ending line" /\ UNCHANGED answer
    BY <1>7 DEF EndAnswer, Goto
  <2>2. QED
    BY <1>1, <1>3, <1>4, <2>1
<1>8. CASE Read \/ LogTurn \/ SendFails \/ SendQuestion
          \/ StoreQuestion \/ BeginWait \/ PollLog \/ WaitEnds
          \/ SkipConsumed
  <2>1. pc' \notin {"answered", "ending line", "settling"}
    BY <1>8 DEF Read, LogTurn, SendFails, SendQuestion, StoreQuestion,
            BeginWait, PollLog, WaitEnds, SkipConsumed, Goto
  <2>2. QED
    BY <2>1 DEF AnswerStands
<1>9. CASE WriteQuestion \/ ResponseReady \/ RemoveStale \/ GiveUp
          \/ RemoveQuestion \/ RemoveResponse \/ MeasureLog \/ Settle
          \/ ResponseStale
  <2>1. pc' \notin {"answered", "ending line", "settling"}
    BY <1>9 DEF WriteQuestion, ResponseReady, RemoveStale, GiveUp,
            RemoveQuestion, RemoveResponse, MeasureLog, Settle,
            ResponseStale, Goto
  <2>2. QED
    BY <2>1 DEF AnswerStands
<1>10. CASE PollLoads \/ HandleMessage \/ EndMessage \/ RemovePending
            \/ PollSaves \/ Send \/ SeeQuestion \/ Respond \/ Guidance
            \/ GuidanceEnds \/ Emit \/ EmitEnds
  <2>1. UNCHANGED loop
    BY <1>10 DEF PollLoads, HandleMessage, EndMessage, RemovePending,
             PollSaves, Send, SeeQuestion, Respond, Guidance,
             GuidanceEnds, Emit, EmitEnds, Goto, loop, telegram, human, web
  <2>2. QED
    BY <1>1, <1>3, <1>4, <2>1 DEF loop
<1>11. CASE EmitKilled
  <2>1. UNCHANGED loop
    BY <1>11 DEF EmitKilled, Goto, loop, telegram, human, web
  <2>2. QED
    BY <1>1, <1>3, <1>4, <2>1 DEF loop
<1>12. CASE UNCHANGED vars
  BY <1>1, <1>3, <1>4, <1>12 DEF vars, loop
<1>13. QED
  BY <1>5, <1>6, <1>7, <1>8, <1>9,
     <1>10, <1>11, <1>12
     DEF Next, LoopStep, TelegramStep, WebStep, PollStep, HumanStep,
         AgentStep

-----------------------------------------------------------------------------
LEMMA Initially == Init => IInv
<1> SUFFICES ASSUME Init PROVE IInv
  OBVIOUS
<1> USE DEF Init
<1>1. TypeOK
  BY RobotAssumption DEF TypeOK, NoAnswer
<1>2. DataOK
  BY NewlineIsACell DEF DataOK
<1>3. OneService /\ WaitIsAhead /\ AnswerStands
  BY DEF OneService, WaitIsAhead, AnswerStands
<1>4. LinesAreWhole /\ BetweenLines /\ TakenIsBehind
  BY DEF LinesAreWhole, BetweenLines, TakenIsBehind, Events
<1>5. QED
  BY <1>1, <1>2, <1>3, <1>4 DEF IInv

LEMMA InvariantStep == IInv /\ [Next]_vars => IInv'
<1> SUFFICES ASSUME IInv, [Next]_vars PROVE IInv'
  OBVIOUS
<1>1. DataOK'
  BY DataStep
<1>2. poll'.at \in {"idle", "loaded", "half", "written", "reacting"}
  BY <1>1 DEF DataOK
<1>3. TypeOK' /\ OneService'
  BY <1>2, ReaderTypes, MarkTypes, PlaceTypes, QuestionTypes, MessageTypes
     DEF TypeOK, NoAnswer, Unrecorded
<1>4. Reading' /\ WaitIsAhead' /\ AnswerStands'
  BY ReadingStep, WaitStep, AnswerStep
<1>5. QED
  BY <1>1, <1>3, <1>4 DEF IInv, Reading

LEMMA InvariantHolds == Spec => []IInv
BY Initially, InvariantStep, PTL DEF Spec

\* Whatever the agent, the human and the services write, and wherever the
\* loop is, its variables have their types: the reader and the marks of the
\* waits are in the log, and what is taken up are lines of it.
THEOREM TypeCorrect == Spec => []TypeOK
BY InvariantHolds, PTL DEF IInv

\* As long as no two lines have run together, no event is taken up twice by
\* the reads, waits and answers of the loop, and with Telegram those taken up
\* are just the ones the reader is past.
THEOREM AlwaysReadExactlyOnce == Spec => []ReadExactlyOnce
<1>1. IInv => ReadExactlyOnce
  BY DEF IInv, ReadExactlyOnce, TakenIsBehind
<1>2. QED
  BY <1>1, InvariantHolds, PTL

=============================================================================
