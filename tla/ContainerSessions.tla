-------------------------- MODULE ContainerSessions --------------------------
(***************************************************************************)
(* What runs inside containers outside the operation queue: the agent's    *)
(* chat exchanges and debugging sessions, whose model proposes commands,   *)
(* and the interactive console. They share the hourly command budget of    *)
(* one user and the SSH slots of the process, and leave audit entries. A   *)
(* client may go away at any moment, which cancels the context of a chat   *)
(* or debug request; the connection of a console is hijacked, and its      *)
(* context outlives the client. The process may die, or be shut down       *)
(* without waiting for them.                                               *)
(***************************************************************************)
EXTENDS Naturals, FiniteSets, SequencesExt

CONSTANTS
    Session,       \* requests that may be open at once
    Conversation,  \* conversations of the user
    ChatSteps, DebugSteps,   \* turns of the model (6, 8)
    ExecBudget,    \* commands per user and hour (60)
    Keep,          \* exchanges kept of a conversation (30)
    Slots,         \* SSH sessions of the process
    MaxMessages,   \* bound: chat exchanges begun
    MaxCuts,       \* bound: clients that go away
    MaxDeaths,     \* bound: deaths of the process
    MaxAuditFaults      \* bound: audit writes of the console that fail

ASSUME ContainersAssumption ==
    /\ IsFiniteSet(Session) /\ Conversation # {}
    /\ {MaxMessages, MaxCuts, MaxDeaths, MaxAuditFaults, ExecBudget} \subseteq Nat
    /\ {ChatSteps, DebugSteps, Keep, Slots} \subseteq Nat \ {0}

VARIABLES
    conv,       \* the exchanges stored in each conversation
    session,    \* each request
    slots,      \* requests that hold an SSH slot
    used,       \* the budget counter of this hour
    ran,        \* history: commands run in this hour
    carried,    \* history: commands charged to the hour before, still to run
    begun,      \* chat exchanges begun
    answered,   \* history: exchanges whose reply was returned
    overlapped, \* history: exchanges open beside another of their conversation
    unaudited,  \* history: commands that ran and have no agent.exec entry
    unopened, unended,   \* history: consoles without their opening, their closing entry
    killed,     \* history: commands without an entry, and consoles, that died with the process
    cuts, deaths, auditFaults

containersVars == <<conv, session, slots, used, ran, carried, begun, answered, overlapped,
          unaudited, unopened, unended, killed, cuts, deaths, auditFaults>>
replies == <<answered, overlapped>>
audit == <<unaudited, unopened, unended>>
process == <<killed, deaths>>

Exchange == 1..MaxMessages
Steps(kind) == IF kind = "debug" THEN DebugSteps ELSE ChatSteps
NoSession == [at |-> "idle", kind |-> "chat", conv |-> CHOOSE c \in Conversation : TRUE,
         base |-> <<>>, step |-> 1, exchange |-> 0, cut |-> FALSE]

ContainersTypeOK ==
    /\ conv \in [Conversation -> Seq(Exchange)]
    /\ \A c \in Conversation : Len(conv[c]) <= Keep
    /\ \A s \in Session : LET x == session[s] IN
         /\ x.at \in {"idle", "turn", "budget", "slot", "run", "audit", "save", "report",
                      "enter", "wait", "shell", "leave"}
         /\ x.kind \in {"chat", "debug", "console"} /\ x.conv \in Conversation
         /\ x.base \in Seq(Exchange) /\ x.exchange \in Exchange \cup {0} /\ x.cut \in BOOLEAN
         /\ x.step \in 1..Steps(x.kind)
    /\ slots \subseteq Session /\ Cardinality(slots) <= Slots
    /\ used \in 0..(ExecBudget + 1)
    /\ {ran, carried, unaudited, unopened, unended} \subseteq Nat
    /\ begun \in 0..MaxMessages /\ answered \subseteq Exchange /\ overlapped \subseteq Exchange
    /\ killed \in [command : Nat, console : Nat]
    /\ cuts \in 0..MaxCuts /\ deaths \in 0..MaxDeaths /\ auditFaults \in 0..MaxAuditFaults

ContainersInit ==
    /\ conv = [c \in Conversation |-> <<>>]
    /\ session = [s \in Session |-> NoSession]
    /\ slots = {}
    /\ used = 0 /\ ran = 0 /\ carried = 0
    /\ begun = 0 /\ answered = {} /\ overlapped = {}
    /\ unaudited = 0 /\ unopened = 0 /\ unended = 0
    /\ killed = [command |-> 0, console |-> 0]
    /\ cuts = 0 /\ deaths = 0 /\ auditFaults = 0

Goto(s, at) == session' = [session EXCEPT ![s].at = at]
End(s) == session' = [session EXCEPT ![s] = NoSession]
AuditFault == auditFaults < MaxAuditFaults /\ auditFaults' = auditFaults + 1

\* The sessions in some position.
Standing(places) == {s \in Session : session[s].at \in places}

\* Consoles that were opened and not yet closed.
ConsoleOpen == {"wait", "shell", "leave"}

\* The browser closes the connection, or the request's deadline passes: the
\* context is done from here on.
Cut(s) ==
    /\ session[s].at # "idle" /\ session[s].kind # "console" /\ ~session[s].cut /\ cuts < MaxCuts
    /\ cuts' = cuts + 1
    /\ session' = [session EXCEPT ![s].cut = TRUE]
    /\ UNCHANGED <<conv, slots, used, ran, carried, begun, replies, audit, auditFaults, process>>

\* The hour of the budget is over.
Hour ==
    /\ used > 0
    /\ used' = 0 /\ ran' = 0
    /\ carried' = Cardinality(Standing({"slot", "run"}))
    /\ UNCHANGED <<conv, session, slots, begun, replies, audit, process, cuts, auditFaults>>

\* The process dies, or is stopped: Shutdown waits fifteen seconds for requests
\* and not at all for hijacked connections. A command under way may have reached
\* its container.
ProcessDies ==
    /\ deaths < MaxDeaths
    /\ deaths' = deaths + 1
    /\ \E sent \in SUBSET Standing({"run"}) :
         /\ ran' = ran + Cardinality(sent)
         /\ unaudited' = unaudited + Cardinality(sent)
    /\ killed' = [command |-> killed.command + Cardinality(Standing({"run", "audit"})),
                  console |-> killed.console + Cardinality(Standing(ConsoleOpen))]
    /\ session' = [s \in Session |-> NoSession]
    /\ slots' = {}
    /\ UNCHANGED <<conv, used, carried, begun, replies, unopened, unended, cuts, auditFaults>>

-----------------------------------------------------------------------------
(* Chat and Debug. *)

\* openSession: the only authorization there is; every command relies on it.
OpenSession(s, x) ==
    /\ session[s] = NoSession
    /\ session' = [session EXCEPT ![s] = x]

\* The exchanges of a conversation that were begun and are not stored yet.
Unsaved(c) == {x \in Session : session[x].kind = "chat" /\ session[x].conv = c
                                 /\ session[x].at \notin {"idle", "report"}}

\* The conversation is read before the session is opened and the request charged.
OpenChat(s, c) ==
    /\ begun < MaxMessages
    /\ begun' = begun + 1
    /\ OpenSession(s, [NoSession EXCEPT !.at = "turn", !.conv = c, !.base = conv[c], !.exchange = begun'])
    /\ LET beside == {session[x].exchange : x \in Unsaved(c)} IN
         overlapped' = overlapped \cup (IF beside = {} THEN {} ELSE beside \cup {begun'})
    /\ UNCHANGED <<conv, slots, used, ran, carried, answered, audit, cuts, auditFaults, process>>

OpenDebug(s) ==
    /\ OpenSession(s, [NoSession EXCEPT !.at = "turn", !.kind = "debug"])
    /\ UNCHANGED <<conv, slots, used, ran, carried, begun, replies, audit, cuts, auditFaults, process>>

LastStep_Past(x) == x.step > Steps(x.kind)

\* A command returned in the last turn is not run.
LastStep(x) == x.step = Steps(x.kind)

\* The model proposes a command, concludes, or fails; a session that ends here
\* without a reply or a valid diagnosis stores nothing.
Turn(s) ==
    /\ session[s].at = "turn"
    /\ \/ ~session[s].cut /\ ~LastStep(session[s]) /\ Goto(s, "budget")
       \/ ~session[s].cut /\ Goto(s, "save")
       \/ End(s)
    /\ UNCHANGED <<conv, slots, used, ran, carried, begun, replies, audit, cuts, auditFaults, process>>

NextStep_Same(x) == x.step

\* step++, also after a command that was rejected.
NextStep(x) == x.step + 1

WithinBudget_Plus(n) == n <= ExecBudget + 1

\* RateLimit: the counter as this call left it.
WithinBudget(n) == n <= ExecBudget

\* runCommand: the charge; a command the backend rejects goes back to the model.
Budget(s) ==
    /\ session[s].at = "budget"
    /\ used' = IF session[s].cut THEN used ELSE Min({used + 1, ExecBudget + 1})
    /\ IF session[s].cut \/ ~WithinBudget(used + 1)
       THEN End(s)
       ELSE \/ Goto(s, "slot")
            \/ session' = [session EXCEPT ![s].at = "turn", ![s].step = NextStep(session[s])]
    /\ UNCHANGED <<conv, slots, ran, carried, begun, replies, audit, cuts, auditFaults, process>>

SlotFree == Cardinality(slots) < Slots

TakeSlot(s) ==
    /\ session[s].at = "slot" /\ SlotFree
    /\ slots' = slots \cup {s}
    /\ Goto(s, "run")
    /\ UNCHANGED <<conv, used, ran, carried, begun, replies, audit, cuts, auditFaults, process>>

\* SSH_COMMAND_TIMEOUT passes, or the client leaves, before a slot is free: the
\* failure is audited without the context, and nothing ran.
SlotTimeout(s) ==
    /\ session[s].at = "slot"
    /\ End(s)
    /\ UNCHANGED <<conv, slots, used, ran, carried, begun, replies, audit, cuts, auditFaults, process>>

SlotsAfter_Ran(s, ok) == IF ok THEN slots \ {s} ELSE slots

\* defer func() { <-s.Slots }().
SlotsAfter(s, ok) == slots \ {s}

UnauditedAfter_Silent(ok, written) == unaudited + 1

\* A transport failure writes its entry even if the context is done, and ignores
\* an error of that write; otherwise the entry is the next step.
UnauditedAfter(ok, written) == IF ~ok /\ written THEN unaudited ELSE unaudited + 1

\* The command runs; it answers with a status, or the transport fails and ends
\* the session. A command counts as unaudited until its entry is written.
Run(s) ==
    /\ session[s].at = "run"
    /\ ran' = ran + 1
    /\ \E ok, written \in BOOLEAN :
         /\ ok => ~session[s].cut /\ written
         /\ IF written THEN UNCHANGED auditFaults ELSE AuditFault
         /\ slots' = SlotsAfter(s, ok)
         /\ unaudited' = UnauditedAfter(ok, written)
         /\ IF ok THEN Goto(s, "audit") ELSE End(s)
    /\ UNCHANGED <<conv, used, carried, begun, replies, unopened, unended, cuts, process>>

\* The agent.exec entry, written with the request's context; without it the
\* session ends.
AuditExec(s) ==
    /\ session[s].at = "audit"
    /\ \/ /\ ~session[s].cut
          /\ session' = [session EXCEPT ![s].at = "turn", ![s].step = NextStep(session[s])]
          /\ unaudited' = unaudited - 1
          /\ UNCHANGED auditFaults
       \/ /\ \/ session[s].cut /\ UNCHANGED auditFaults
             \/ AuditFault
          /\ End(s)
          /\ UNCHANGED unaudited
    /\ UNCHANGED <<conv, slots, used, ran, carried, begun, replies, unopened, unended, cuts, process>>

Newest(all) == SubSeq(all, Max({1, Len(all) - Keep + 1}), Len(all))

Stored_Alone(x) == <<x.exchange>>

\* The conversation as it was read, with the new exchange.
Stored(x) == Newest(Append(x.base, x.exchange))

\* SaveObject: the whole conversation as read at the start, with the new
\* exchange, the oldest dropped.
SaveChat(s) ==
    /\ session[s].at = "save" /\ session[s].kind = "chat"
    /\ IF session[s].cut THEN End(s) /\ UNCHANGED conv
       ELSE /\ conv' = [conv EXCEPT ![session[s].conv] = Stored(session[s])]
            /\ Goto(s, "report")
    /\ UNCHANGED <<slots, used, ran, carried, begun, replies, audit, cuts, auditFaults, process>>

\* Debug stores a recommendation of its own instead.
SaveDiagnosis(s) ==
    /\ session[s].at = "save" /\ session[s].kind = "debug"
    /\ IF session[s].cut THEN End(s) ELSE Goto(s, "report")
    /\ UNCHANGED <<conv, slots, used, ran, carried, begun, replies, audit, cuts, auditFaults, process>>

\* agent.chat or agent.debug, and the answer.
Report(s) ==
    /\ session[s].at = "report"
    /\ answered' = IF session[s].cut \/ session[s].kind = "debug" THEN answered
                   ELSE answered \cup {session[s].exchange}
    /\ End(s)
    /\ UNCHANGED <<conv, slots, used, ran, carried, begun, overlapped, audit, cuts, auditFaults, process>>

-----------------------------------------------------------------------------
(* The console. *)

OpenConsole(s) ==
    /\ session[s] = NoSession
    /\ session' = [session EXCEPT ![s] = [NoSession EXCEPT !.at = "enter", !.kind = "console"]]
    /\ UNCHANGED <<conv, slots, used, ran, carried, begun, replies, audit, cuts, auditFaults, process>>

\* resource.console; an error of the write is ignored. From here on a closing
\* entry is owed.
AuditOpen(s) ==
    /\ session[s].at = "enter"
    /\ \/ UNCHANGED <<auditFaults, unopened>>
       \/ AuditFault /\ unopened' = unopened + 1
    /\ unended' = unended + 1
    /\ Goto(s, "wait")
    /\ UNCHANGED <<conv, slots, used, ran, carried, begun, replies, unaudited, cuts, process>>

\* Shell holds its slot until the shell exits or half an hour passes. Nothing
\* asks whether the client is still there.
ShellStart(s) ==
    /\ session[s].at = "wait" /\ SlotFree
    /\ slots' = slots \cup {s}
    /\ Goto(s, "shell")
    /\ UNCHANGED <<conv, used, ran, carried, begun, replies, audit, cuts, auditFaults, process>>

AfterShell_Returns(ok) == IF ok THEN "leave" ELSE "idle"

\* An error of Shell is only recorded.
AfterShell(ok) == "leave"

\* No slot within the half hour, or no connection.
ShellRefused(s) ==
    /\ session[s].at = "wait"
    /\ Goto(s, AfterShell(FALSE))
    /\ UNCHANGED <<conv, slots, used, ran, carried, begun, replies, audit, cuts, auditFaults, process>>

ShellEnd(s) ==
    /\ session[s].at = "shell"
    /\ slots' = slots \ {s}
    /\ \E ok \in BOOLEAN : Goto(s, AfterShell(ok))
    /\ UNCHANGED <<conv, used, ran, carried, begun, replies, audit, cuts, auditFaults, process>>

\* resource.console_ended.
AuditEnd(s) ==
    /\ session[s].at = "leave"
    /\ \/ UNCHANGED auditFaults /\ unended' = unended - 1
       \/ AuditFault /\ UNCHANGED unended
    /\ End(s)
    /\ UNCHANGED <<conv, slots, used, ran, carried, begun, replies, unaudited, unopened, cuts, process>>

-----------------------------------------------------------------------------
AgentStep(s) ==
    \/ Turn(s) \/ Budget(s) \/ TakeSlot(s) \/ SlotTimeout(s) \/ Run(s)
    \/ AuditExec(s) \/ SaveChat(s) \/ SaveDiagnosis(s) \/ Report(s)
ConsoleStep(s) == AuditOpen(s) \/ ShellStart(s) \/ ShellRefused(s) \/ ShellEnd(s) \/ AuditEnd(s)
ContainersNext ==
    \/ Hour
    \/ ProcessDies
    \/ \E s \in Session :
         \/ \E c \in Conversation : OpenChat(s, c)
         \/ OpenDebug(s) \/ OpenConsole(s) \/ Cut(s)
         \/ AgentStep(s) \/ ConsoleStep(s)

\* Calls of the model, commands, shells and waits for a slot have timeouts.
ContainersFairness == \A s \in Session : WF_containersVars(AgentStep(s)) /\ WF_containersVars(ConsoleStep(s))

ContainersSpec == ContainersInit /\ [][ContainersNext]_containersVars /\ ContainersFairness

-----------------------------------------------------------------------------
(* Properties. *)

\* "60 comandos por usuário por hora": however many sessions of the user run at
\* once, an hour sees no more commands than the budget, plus those charged to
\* the hour before that were still waiting for a slot.
BudgetHolds == ran <= ExecBudget + carried

\* A command without its entry is one whose client left, or whose process died,
\* in the moment between the command and the write, or whose entry the database
\* refused; no failure of the command or of the transport, and no refused or
\* abandoned session, hides one.
UnauditedOnlyCut ==
    unaudited <= Cardinality(Standing({"audit"})) + cuts + auditFaults + killed.command

\* "todo comando executado está em `agent.exec`", "every command is audited": a
\* command has its entry unless it is just being written.
EveryCommandAudited == unaudited <= Cardinality(Standing({"audit"}))

\* "Duas entradas por sessão": a console leaves its entries also when the browser
\* disappears or no shell starts; a failing database loses one, and a process
\* that dies the closing one.
ConsoleEntries ==
    unopened + unended <= Cardinality(Standing(ConsoleOpen)) + auditFaults + killed.console

\* A slot belongs to a command or a shell that is running.
SlotsReturned == \A s \in slots : session[s].at \in {"run", "shell"}

\* Every exchange, debugging session and console comes to an end, with every
\* slot taken and with a model that never stops proposing commands.
SessionsEnd == \A s \in Session : session[s].at # "idle" ~> session[s].at = "idle"

\* "Chat appends one exchange to a conversation": an exchange that was answered
\* is in its conversation, unless newer ones fill it or another exchange was
\* open on the conversation before it was stored.
ExchangesKept == \A m \in answered \ overlapped :
    \E c \in Conversation : m \in ToSet(conv[c]) \/ Len(conv[c]) = Keep

\* Work inside containers as a whole: budget, audit entries, slots, conversations.
ContainersSafe ==
    /\ ContainersTypeOK
    /\ BudgetHolds
    /\ UnauditedOnlyCut /\ ConsoleEntries
    /\ SlotsReturned
    /\ ExchangesKept
=============================================================================
