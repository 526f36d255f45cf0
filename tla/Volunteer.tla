----------------------------- MODULE Volunteer -----------------------------
(***************************************************************************)
(* One volunteer: the page that works (kaliya.js), the socket it gets from *)
(* a flash object (jSocket.js, JSocket.as), the connection, and the end of *)
(* it on the server (Handler, Worker.runClient, Client.sendMsg).           *)
(*                                                                         *)
(* The scripts of the page and the calls of the flash object run on one    *)
(* thread, one callback at a time; an action is a callback, or one turn of *)
(* the loop that reads the socket.  Workers has this volunteer in three    *)
(* actions, Connect, Answer and Disconnect; ImplementsWorkers says that    *)
(* this is what it comes to.                                               *)
(***************************************************************************)
EXTENDS Naturals, Sequences, SequencesExt

CONSTANTS
  Tasks,       \* the tasks the server may send it, each once
  Lines,       \* the lines of the log the server may send it
  TooLong,     \* the messages of more than 65535 bytes
  LongAnswer,  \* the tasks whose answer has more than 65535 bytes
  MayFail,     \* the tasks whose script may not be loaded, or may throw
  MayTear,     \* a segment of the network may end inside a message
  MayEnd,      \* the connection may end
  Me           \* the volunteer, for the server

ASSUME VolunteerAssumption ==
  /\ Tasks \cap Lines = {}
  /\ TooLong \subseteq Tasks \cup Lines
  /\ LongAnswer \subseteq Tasks /\ MayFail \subseteq Tasks
  /\ MayTear \in BOOLEAN /\ MayEnd \in BOOLEAN
  /\ {"connect", "greeting"} \cap Tasks = {}

VARIABLES
  init,         \* next step of JSocket.init
  swf,          \* the flash object
  swfloadedcb,  \* JSocket.swfloadedcb is set
  sockets,      \* the number of sockets the page has made
  timers,       \* calls the flash object has put off (setTimeout), in order
  line,         \* the connection; "left" by the page or "closed" by the server
  up, down,     \* messages on the way to the server and to the page
  arrived,      \* messages the flash socket has received
  torn,         \* the last has arrived in part: its length, not all its text
  socketData,   \* the handler of SOCKET_DATA is called, or runs
  inStep,       \* the flash socket begins to read where a message begins
  loading,      \* tasks whose script is being loaded
  shown,        \* lines on the console of the page
  reader,       \* the server's worker: "none", "reading", "removed"
  readerInStep, \* its reader begins to read where a message begins
  sent,         \* messages sendMsg was called with
  buffer,       \* m_communicationBuffer: the answers in it
  noise         \* something that is no answer was put there

startVars  == <<init, swf, swfloadedcb, sockets>>
flashVars  == <<arrived, torn, socketData, inStep>>
pageVars   == <<loading, shown>>
serverVars == <<reader, readerInStep, sent, buffer, noise>>
vars == <<startVars, timers, line, up, down, flashVars, pageVars, serverVars>>

Init ==
  /\ init = "embed" /\ swf = "none" /\ swfloadedcb = FALSE /\ sockets = 0
  /\ timers = << >>
  /\ line = "none"
  /\ up = << >> /\ down = << >>
  /\ arrived = << >> /\ torn = FALSE /\ socketData = FALSE /\ inStep = TRUE
  /\ loading = {} /\ shown = {}
  /\ reader = "none" /\ readerInStep = TRUE
  /\ sent = {} /\ buffer = << >> /\ noise = FALSE

-----------------------------------------------------------------------------
(* The flash object is put into the page.                                  *)

(* The callback of window.onload: new JSocket, and connect, which the      *)
(* flash object puts off.                                                  *)
SwfLoadedCallback ==
  /\ sockets' = sockets + 1
  /\ timers' = Append(timers, "connect")

(* window.onload, and JSocket.init up to the call of getApi                *)
Embed ==
  /\ init = "embed"
  /\ init' = "test"
  /\ swf' = "embedded"
  /\ UNCHANGED <<swfloadedcb, sockets, timers, line, up, down, flashVars,
                 pageVars, serverVars>>

(* Its constructor adds the callbacks, newsocket among them, ...           *)
AddCallbacks ==
  /\ swf = "embedded"
  /\ swf' = "ready"
  /\ UNCHANGED <<init, swfloadedcb, sockets, timers, line, up, down, flashVars,
                 pageVars, serverVars>>

(* ... and calls JSocket.swfloaded.                                        *)
SwfLoaded ==
  /\ swf = "ready"
  /\ swf' = "announced"
  /\ IF swfloadedcb
     THEN SwfLoadedCallback
     ELSE UNCHANGED <<sockets, timers>>
  /\ UNCHANGED <<init, swfloadedcb, line, up, down, flashVars, pageVars,
                 serverVars>>

(* Mutants: the callback is stored whether or not it has been called; it   *)
(* is only stored.                                                         *)
TestApiAndStore ==
  /\ init = "test"
  /\ init' = "done"
  /\ swfloadedcb' = TRUE
  /\ IF swf \in {"ready", "announced"}
     THEN SwfLoadedCallback
     ELSE UNCHANGED <<sockets, timers>>
  /\ UNCHANGED <<swf, line, up, down, flashVars, pageVars, serverVars>>
OnlyStore ==
  /\ init = "test"
  /\ init' = "done"
  /\ swfloadedcb' = TRUE
  /\ UNCHANGED <<swf, sockets, timers, line, up, down, flashVars, pageVars,
                 serverVars>>

(* The rest of JSocket.init: the flash object may be there already.        *)
TestApi ==
  /\ init = "test"
  /\ init' = "done"
  /\ IF swf \in {"ready", "announced"}
     THEN SwfLoadedCallback /\ UNCHANGED swfloadedcb
     ELSE swfloadedcb' = TRUE /\ UNCHANGED <<sockets, timers>>
  /\ UNCHANGED <<swf, line, up, down, flashVars, pageVars, serverVars>>

-----------------------------------------------------------------------------
(* The connection.                                                         *)

(* doConnect, called by the timer                                          *)
DoConnect ==
  /\ timers # << >> /\ Head(timers) = "connect"
  /\ timers' = Tail(timers)
  /\ line' = IF line = "none" THEN "connecting" ELSE line
  /\ UNCHANGED <<startVars, up, down, flashVars, pageVars, serverVars>>

(* connectHandler: the page greets the server.                             *)
Connected ==
  /\ line = "connecting"
  /\ line' = "open"
  /\ timers' = Append(timers, "greeting")
  /\ UNCHANGED <<startVars, up, down, flashVars, pageVars, serverVars>>

(* doWriteFlush, called by the timer.  writeUTF throws for a string of     *)
(* more than 65535 bytes, and on a socket that is closed.                  *)
DoWriteFlush ==
  /\ timers # << >> /\ Head(timers) # "connect"
  /\ timers' = Tail(timers)
  /\ up' = IF line = "open" /\ Head(timers) \notin LongAnswer
           THEN Append(up, Head(timers)) ELSE up
  /\ UNCHANGED <<startVars, line, down, flashVars, pageVars, serverVars>>

(* Some of what is on the way arrives; if MayTear, the last message may    *)
(* arrive in part.  The rest of it arrives with what comes next.           *)
Arrive ==
  /\ down # << >>
  /\ \E n \in 1..Len(down) :
       /\ arrived' = arrived \o SubSeq(down, 1, n)
       /\ down' = SubSeq(down, n + 1, Len(down))
  /\ torn' \in {FALSE, MayTear}
  /\ socketData' = TRUE
  /\ UNCHANGED <<startVars, timers, line, up, inStep, pageVars,
                 serverVars>>

-----------------------------------------------------------------------------
(* The page: dataHandler of JSocket.as, which reads as long as there are   *)
(* bytes, and dataHandler of kaliya.js, which it calls.                    *)

Torn == torn /\ Len(arrived) = 1

(* Mutant: one message is read for each event.                             *)
ReadOneUTF ==
  /\ socketData /\ inStep /\ arrived # << >> /\ ~Torn
  /\ arrived' = Tail(arrived)
  /\ socketData' = FALSE
  /\ loading' = loading \cup ({Head(arrived)} \cap Tasks)
  /\ shown' = shown \cup ({Head(arrived)} \cap Lines)
  /\ UNCHANGED <<startVars, timers, line, up, down, torn, inStep, serverVars>>

(* A message has arrived.  A task makes the page load the script of its    *)
(* job; a line of the log is no JSON and is shown.                         *)
ReadUTF ==
  /\ socketData /\ inStep /\ arrived # << >> /\ ~Torn
  /\ arrived' = Tail(arrived)
  /\ socketData' = (Len(arrived) > 1)
  /\ loading' = loading \cup ({Head(arrived)} \cap Tasks)
  /\ shown' = shown \cup ({Head(arrived)} \cap Lines)
  /\ UNCHANGED <<startVars, timers, line, up, down, torn, inStep, serverVars>>

(* A message that has not arrived completely: readUTF takes its length and *)
(* throws for want of its text, and errorHandler shows the error.  What    *)
(* comes next is the text, or the rest of it, and is read as a length.     *)
ReadTorn ==
  /\ socketData /\ inStep /\ Torn
  /\ arrived' = << >> /\ torn' = FALSE
  /\ socketData' = FALSE
  /\ inStep' = FALSE
  /\ UNCHANGED <<startVars, timers, line, up, down, pageVars, serverVars>>

(* Out of step, whatever arrives ends in an error or on the console.       *)
ReadGarbage ==
  /\ socketData /\ ~inStep
  /\ arrived' = << >> /\ torn' = FALSE
  /\ socketData' = FALSE
  /\ UNCHANGED <<startVars, timers, line, up, down, inStep, pageVars,
                 serverVars>>

(* Mutant: request is a global variable, which a later message replaces.   *)
ScriptLoadedLatest(t) ==
  /\ t \in loading
  /\ loading' = loading \ {t}
  /\ \E request \in loading : timers' = Append(timers, request)
  /\ UNCHANGED <<startVars, line, up, down, flashVars, shown,
                 serverVars>>

(* The callback of getScript: map or reduce, and the answer, which the     *)
(* flash object puts off.  Scripts are loaded in any order.                *)
ScriptLoaded(t) ==
  /\ t \in loading
  /\ loading' = loading \ {t}
  /\ timers' = Append(timers, t)
  /\ UNCHANGED <<startVars, line, up, down, flashVars, shown,
                 serverVars>>

(* The script is not there, or the function of the job throws.             *)
ScriptFails(t) ==
  /\ t \in loading \cap MayFail
  /\ loading' = loading \ {t}
  /\ UNCHANGED <<startVars, timers, line, up, down, flashVars, shown,
                 serverVars>>

(* The page is left; what it has written may still be on its way.          *)
Leave ==
  /\ MayEnd
  /\ line = "open" /\ reader = "reading"
  /\ line' = "left"
  /\ \E n \in 0..Len(up) : up' = SubSeq(up, 1, n)
  /\ timers' = << >> /\ loading' = {} /\ down' = << >>
  /\ arrived' = << >> /\ torn' = FALSE /\ socketData' = FALSE
  /\ UNCHANGED <<startVars, inStep, shown, serverVars>>

-----------------------------------------------------------------------------
(* The server.                                                             *)

(* Handler reads one character, through a buffer that takes all that has   *)
(* arrived and is thrown away: the length of the greeting and its text, or *)
(* the length alone.  Then it makes the worker and starts its reader.      *)
Register ==
  /\ reader = "none" /\ up # << >>
  /\ reader' = "reading"
  /\ up' = << >>
  /\ readerInStep' \in {TRUE, ~MayTear}
  /\ UNCHANGED <<startVars, timers, line, down, flashVars, pageVars, sent,
                 buffer, noise>>

(* Client.sendMsg: writeUTF throws for a message that is too long and on a *)
(* connection that is closed, and the exception is swallowed.              *)
SendMsg(m) ==
  /\ reader # "none" /\ m \notin sent
  /\ sent' = sent \cup {m}
  /\ down' = IF line = "open" /\ m \notin TooLong THEN Append(down, m) ELSE down
  /\ UNCHANGED <<startVars, timers, line, up, flashVars, pageVars, reader,
                 readerInStep, buffer, noise>>

(* Worker.runClient: reads an answer and puts it into the buffer.          *)
ReadAnswer ==
  /\ reader = "reading" /\ readerInStep
  /\ line # "closed" /\ up # << >>
  /\ up' = Tail(up)
  /\ buffer' = Append(buffer, Head(up))
  /\ UNCHANGED <<startVars, timers, line, down, flashVars, pageVars, reader,
                 readerInStep, sent, noise>>

(* Out of step it reads the text of one message as the length of the next: *)
(* it waits for more, or puts something into the buffer that is no answer. *)
ReadNoise ==
  /\ reader = "reading" /\ ~readerInStep
  /\ line # "closed" /\ up # << >>
  /\ up' = << >>
  /\ noise' \in BOOLEAN
  /\ UNCHANGED <<startVars, timers, line, down, flashVars, pageVars, reader,
                 readerInStep, sent, buffer>>

(* Client.closeConnection, when the server is stopped; closeHandler of the *)
(* page shows that the connection is lost and does nothing about it.       *)
CloseConnection ==
  /\ MayEnd
  /\ line = "open" /\ reader = "reading"
  /\ line' = "closed"
  /\ up' = << >>
  /\ UNCHANGED <<startVars, timers, down, flashVars, pageVars, serverVars>>

(* The reader meets the end of the stream, or the closed socket.           *)
RemoveClient ==
  /\ reader = "reading"
  /\ line \in {"left", "closed"} /\ up = << >>
  /\ reader' = "removed"
  /\ UNCHANGED <<startVars, timers, line, up, down, flashVars, pageVars,
                 readerInStep, sent, buffer, noise>>

-----------------------------------------------------------------------------
Start == Embed \/ AddCallbacks \/ SwfLoaded \/ TestApi
Timer == DoConnect \/ DoWriteFlush
Read  == ReadUTF \/ ReadTorn \/ ReadGarbage
Script(t) == ScriptLoaded(t) \/ ScriptFails(t)
Reader == Register \/ ReadAnswer \/ ReadNoise \/ RemoveClient

Next ==
  \/ Start \/ Timer \/ Connected \/ Arrive \/ Read
  \/ \E t \in Tasks : Script(t)
  \/ Leave \/ CloseConnection
  \/ Reader
  \/ \E m \in Tasks \cup Lines : SendMsg(m)

Spec == Init /\ [][Next]_vars

(* The flash object loads and connects, timers are called, what is sent    *)
(* arrives, a request for a script ends, and the threads of the server run. *)
Fairness ==
  /\ WF_vars(Start) /\ WF_vars(Timer) /\ WF_vars(Connected)
  /\ WF_vars(Arrive) /\ WF_vars(Read)
  /\ \A t \in Tasks : WF_vars(Script(t))
  /\ WF_vars(Reader)

FairSpec == Spec /\ Fairness

-----------------------------------------------------------------------------
(* Properties.                                                             *)

TypeOK ==
  /\ init \in {"embed", "test", "done"}
  /\ swf \in {"none", "embedded", "ready", "announced"}
  /\ swfloadedcb \in BOOLEAN
  /\ sockets \in Nat
  /\ timers \in Seq(Tasks \cup {"connect", "greeting"})
  /\ line \in {"none", "connecting", "open", "left", "closed"}
  /\ up \in Seq(Tasks \cup {"greeting"})
  /\ down \in Seq(Tasks \cup Lines)
  /\ arrived \in Seq(Tasks \cup Lines)
  /\ torn \in BOOLEAN /\ socketData \in BOOLEAN /\ inStep \in BOOLEAN
  /\ loading \subseteq Tasks
  /\ shown \subseteq Lines
  /\ reader \in {"none", "reading", "removed"} /\ readerInStep \in BOOLEAN
  /\ sent \subseteq Tasks \cup Lines
  /\ buffer \in Seq(Tasks) /\ noise \in BOOLEAN

(* The page makes one socket, whether the flash object is there before or  *)
(* after JSocket.init looks for it, or gets there in between.              *)
OneSocket == sockets <= 1

(* Answers read so far, and the tasks whose answer is still to be read, as *)
(* Workers has them: once the connection has ended, those on the wire.     *)
Answered == {t \in Tasks : Contains(buffer, t)}
Pending ==
  IF line \in {"left", "closed"}
  THEN {t \in Tasks : line = "left" /\ readerInStep /\ Contains(up, t)}
  ELSE (sent \cap Tasks) \ Answered

ConnOfMe == [w \in {Me} |-> IF reader = "none" THEN "new"
                            ELSE IF line = "open" THEN "open" ELSE "closed"]
Listed == IF reader = "reading" THEN <<Me>> ELSE << >>
AnswersRead == [i \in 1..Len(buffer) |-> [from |-> Me, task |-> buffer[i]]]

W == INSTANCE Workers WITH
       Workers <- {Me}, Mortal <- {Me}, PoolSize <- 1,
       conn    <- ConnOfMe,
       idle    <- Listed,
       status  <- [w \in {Me} |-> "IDLE"],
       pool    <- Listed,
       pending <- [w \in {Me} |-> Pending],
       buffer  <- AnswersRead

(* What the rest of the server may take the volunteer for, whatever goes   *)
(* wrong: a worker of the module Workers that nobody takes from the idle   *)
(* queue.  It answers a task it was sent at most once, with the answer to  *)
(* that task, and is removed when there is nothing left to read.           *)
(* (kaliya.js, JSocket.as, Handler.java, Worker.java and Client.java.)     *)
SendsTask(t) ==
  /\ W!SendMsg(Me, t)
  /\ UNCHANGED <<ConnOfMe, Listed, AnswersRead>>

ImplementsWorkers ==
  /\ W!WorkersInit
  /\ [][W!WorkersNext \/ \E t \in Tasks : SendsTask(t)]_(W!workerVars)

(* The volunteer gets to the server: the flash object, the socket, the     *)
(* greeting and the first byte that Handler waits for.                     *)
Joins == <>(reader = "reading")

(* The documented work of the page (kaliya.js): it receives a task from    *)
(* the server and returns the result.                                      *)
TaskAnswered == \A t \in Tasks : t \in sent ~> t \in Answered

(* It does so unless the message, the answer or the script fails, one of   *)
(* the two readers is out of step with a stream whose messages arrive in   *)
(* parts, or the connection ends.                                          *)
AnsweredUnlessLost ==
  \A t \in Tasks \ (TooLong \cup LongAnswer \cup MayFail) :
    t \in sent ~> \/ t \in Answered
                  \/ MayTear /\ (~inStep \/ ~readerInStep)
                  \/ line \in {"left", "closed"}
=============================================================================
