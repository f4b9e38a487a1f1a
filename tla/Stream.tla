------------------------------- MODULE Stream -------------------------------
(***************************************************************************)
(* A connection: the bytes a client sends, the loop of nserve that takes   *)
(* up to CMD_MAX_SIZE of them with each recv and has process of module     *)
(* Command run what they spell, and the answers that go back.  What the    *)
(* commands do to the key store is the subject of module Session: here a   *)
(* call gives a text or fails.                                             *)
(***************************************************************************)
EXTENDS Command

CONSTANTS
  Lines,     \* what clients send, with the newline if there is one
  MaxLines,  \* bound: the lines of one client
  Lists,     \* texts sslist may give; the other commands answer OK
  SndBuf,    \* how many answers send takes that the client has not read
  Modes      \* sets of what a client and its connection may do: "fragment" (a
             \* recv gives less than there is), "pipeline" (it sends before it
             \* has read the answer), "deaf" (it does not read), "leave" (it
             \* goes away), "oom" (the child has little memory)

ASSUME LinesAssumption == Lines \subseteq Seq(Int \ {NUL}) \ {<<>>}
ASSUME BoundsAssumption == MaxLines \in Nat /\ SndBuf \in Nat \ {0}
ASSUME ListsAssumption == Lists \subseteq Seq(Int \ {NUL})
ASSUME ModesAssumption == Modes \subseteq SUBSET {"fragment", "pipeline", "deaf", "leave", "oom"}

VARIABLES
  pc,     \* where nserve is
  cmd,    \* its buffer, CMD_MAX_SIZE bytes of it
  out,    \* the answer
  wire,   \* bytes sent to nserve that it has not received
  back,   \* answers the client has not read
  left,   \* the client has gone away
  mode,
  sent,   \* the lines the client has sent
  heard,  \* how many answers it has read that end like one
  ran     \* history: the calls that process made

vars == <<pc, cmd, out, wire, back, left, mode, sent, heard, ran>>

OK == <<79, 75, NewLine>>
Farewell == <<99, 108, 111, 115, 105, 110, 103, NewLine>>   \* "closing connection\n"

\* What a client that reads answers takes for the end of one.
Complete(text) == text # <<>> /\ Last(text) \in {NewLine, 13}

Init ==
  /\ pc = "start"
  /\ cmd = [j \in 1 .. CMD_MAX_SIZE |-> NUL] /\ out = <<>>
  /\ wire = <<>> /\ back = <<>>
  /\ left = FALSE /\ mode \in Modes
  /\ sent = <<>> /\ heard = 0 /\ ran = <<>>

----------------------------------------------------------------------------
(* The client. *)

client == <<left, mode, sent, heard>>

\* It waits for the answer to each line, unless it pipelines.
ClientSends ==
  /\ ~left /\ Len(sent) < MaxLines
  /\ "pipeline" \in mode \/ heard = Len(sent)
  /\ \E text \in Lines : wire' = wire \o text /\ sent' = Append(sent, text)
  /\ UNCHANGED <<pc, cmd, out, back, left, mode, heard, ran>>

ClientReads ==
  /\ ~left /\ "deaf" \notin mode /\ back # <<>>
  /\ back' = Tail(back)
  /\ heard' = heard + (IF Complete(Head(back)) /\ Head(back) # Farewell THEN 1 ELSE 0)
  /\ UNCHANGED <<pc, cmd, out, wire, left, mode, sent, ran>>

ClientLeaves ==
  /\ ~left /\ "leave" \in mode
  /\ left' = TRUE
  /\ UNCHANGED <<pc, cmd, out, wire, back, mode, sent, heard, ran>>

----------------------------------------------------------------------------
(* nserve. *)

\* Without the time-out or without out the error label is met with out = NULL.
Start ==
  /\ pc = "start"
  /\ \/ pc' = "recv" /\ UNCHANGED out
     \/ "oom" \in mode /\ pc' = "gone" /\ UNCHANGED out
     \/ "oom" \in mode /\ pc' = "closing" /\ out' = Farewell
  /\ UNCHANGED <<cmd, wire, back, client, ran>>

\* How many bytes recv may give.
Chunk == IF "fragment" \in mode THEN 1 .. Min({Len(wire), CMD_MAX_SIZE})
                                ELSE {Min({Len(wire), CMD_MAX_SIZE})}

\* Mutant: cmd still holds the line before.
slurpsock_NotCleared ==
  /\ pc = "recv" /\ wire # <<>>
  /\ \E n \in Chunk :
       /\ cmd' = [j \in DOMAIN cmd |-> IF j <= n THEN wire[j] ELSE cmd[j]]
       /\ wire' = SubSeq(wire, n + 1, Len(wire))
  /\ pc' = "process" /\ out' = <<>>
  /\ UNCHANGED <<back, client, ran>>

\* The buffers are cleared, and bytes received; recv gives 0 when the client
\* has left.
slurpsock ==
  /\ pc = "recv"
  /\ \/ /\ wire # <<>>
        /\ \E n \in Chunk :
             /\ cmd' = [j \in DOMAIN cmd |-> IF j <= n THEN wire[j] ELSE NUL]
             /\ wire' = SubSeq(wire, n + 1, Len(wire))
     \/ /\ wire = <<>> /\ left
        /\ cmd' = [j \in DOMAIN cmd |-> NUL]
        /\ UNCHANGED wire
  /\ pc' = "process" /\ out' = <<>>
  /\ UNCHANGED <<back, client, ran>>

TimesOut_Never == FALSE /\ UNCHANGED vars                            \* mutant

\* Nothing came for 30 seconds.
TimesOut ==
  /\ pc = "recv" /\ wire = <<>> /\ ~left
  /\ pc' = "closing" /\ out' = Farewell
  /\ UNCHANGED <<cmd, wire, back, client, ran>>

\* strncpy(out, text, RSP_SIZE)
Fit(text) == SubSeq(text, 1, Min({Len(text), RSP_SIZE}))

Process ==
  /\ pc = "process"
  /\ \E call \in process(cmd, "oom" \in mode) :
       \/ \* It is no command.
          /\ call = NoCall
          /\ pc' = "closing" /\ out' = Farewell
          /\ UNCHANGED ran
       \/ \* The function has failed, and its message is overwritten.
          /\ call # NoCall
          /\ ran' = Append(ran, call)
          /\ pc' = "closing" /\ out' = Farewell
       \/ /\ call # NoCall
          /\ ran' = Append(ran, call)
          /\ pc' = "send"
          /\ out' \in {Fit(t) : t \in IF call.func = NS_LIST THEN Lists ELSE {OK}}
  /\ UNCHANGED <<cmd, wire, back, client>>

\* send waits until there is room; an empty answer is nothing.  When the client
\* has left it fails, or SIGPIPE ends the child.
barfsock(next) ==
  \/ /\ ~left /\ (out = <<>> \/ Len(back) < SndBuf)
     /\ back' = IF out = <<>> THEN back ELSE Append(back, out)
     /\ pc' = next /\ UNCHANGED out
  \/ /\ left
     /\ pc' \in {"closing", "gone"} \ {pc} /\ out' = Farewell
     /\ UNCHANGED back

Respond == pc = "send" /\ barfsock("recv") /\ UNCHANGED <<cmd, wire, client, ran>>
Close == pc = "closing" /\ barfsock("gone") /\ UNCHANGED <<cmd, wire, client, ran>>

----------------------------------------------------------------------------
Nserve == Start \/ slurpsock \/ TimesOut \/ Process \/ Respond \/ Close

Next == ClientSends \/ ClientReads \/ ClientLeaves \/ Nserve

Spec == Init /\ [][Next]_vars

\* The child runs, its time-out runs out when nothing is sent, and a client
\* that is not deaf reads.  Nobody must send.
FairSpec == Spec /\ WF_vars(Nserve) /\ WF_vars(ClientReads)

----------------------------------------------------------------------------
(* PROPERTIES *)

\* A client that sends each command in one piece, of no more than CMD_MAX_SIZE
\* bytes, and waits for the answer.
Careful ==
  /\ mode \cap {"fragment", "pipeline", "oom"} = {}
  /\ \A j \in DOMAIN sent : Len(sent[j]) <= CMD_MAX_SIZE

\* Then what process makes of the bytes it is given is the line that was sent
\* last, each is run once, and only what is no command ends the session at
\* once (sanitize, check_cmd, cmd_parts, find_function, check_args, and memset
\* in nserve).
RunsAsSent ==
  [][Careful /\ pc = "process" /\ pc' # "process" /\ ~left =>
       LET text == UpTo(Last(sent), {NewLine})
       IN  IF IsCommand(text)
             THEN /\ Len(ran') = Len(sent)
                  /\ Spells(text, Last(ran').func, Last(ran').args)
             ELSE ran' = ran /\ pc' = "closing"]_vars

\* The line in the buffer.
Request == UpTo(cmd, {NUL, NewLine})

\* The name and the arguments of a call are words of the text, in their order.
OfWords(call, text) ==
  LET pieces == Pieces(text, Blank)
      argc == functions[call.func].argc
  IN  \E at \in [1 .. argc -> {j \in DOMAIN pieces : pieces[j] # <<>>}] :
        /\ \A i, j \in 1 .. argc : i < j => at[i] < at[j]
        /\ EqualIgnoringCase(btrimws(pieces[at[1]]), functions[call.func].name)
        /\ Len(call.args) = argc - 1
        /\ \A j \in 1 .. argc - 1 : call.args[j] = pieces[at[j + 1]]

\* Whatever memory is missing when a line is split, copied and looked up, what
\* runs are words of that line in their order: a part may be lost, but none is
\* cut, taken from another line, exchanged with another or a null pointer.
WordsAreRun == pc = "send" => OfWords(Last(ran), Request)

\* The parts of a command are within the list allocated for them.
PartsFit ==
  pc = "process" =>
    \A list \in cmd_parts(sanitize(cmd), "oom" \in mode) : ListFits(list)

\* A client that reads is not left waiting: for each line there is an answer it
\* can tell the end of, or the connection ends, though an answer may be empty
\* or cut off.
LinesAreAnswered ==
  \A n \in 1 .. MaxLines :
    (Len(sent) >= n /\ "deaf" \notin mode) ~> (heard >= n \/ pc = "gone")
=============================================================================
