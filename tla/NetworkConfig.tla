--------------------------- MODULE NetworkConfig ---------------------------
(***************************************************************************)
(* The network page: listing the adapters, giving one a static address,    *)
(* switching one to DHCP (NetworkPanel, NetworkViewModel, the use cases    *)
(* ApplyStaticIp and SetDhcp, NetshNetworkConfigurator).                   *)
(*                                                                         *)
(* A click asks for confirmation in a message box, which runs the event    *)
(* loop: the load that the first visit of the page posted may run under it *)
(* and fill the combo box and the form anew, before the answer is yes and  *)
(* both are read.                                                          *)
(*                                                                         *)
(* A change is a sequence of netsh commands; the first that fails stops it *)
(* and nothing is taken back.  After a success the adapters are listed     *)
(* again, up to three times, because what Windows lists lags behind what   *)
(* netsh changed: listed follows real on its own, while the GUI thread     *)
(* works or sleeps.  Test mode, in which a click does nothing, and the     *)
(* busy flag are in UiEventLoop.                                           *)
(*                                                                         *)
(* Bounded: at most MaxJobs changes.                                       *)
(***************************************************************************)
EXTENDS Naturals, Sequences

CONSTANTS
    Adapters, Addresses, Servers,
    DnsLists,   \* the DNS servers the user may put into the form
    MaxJobs

NoAdapter == "none"

ASSUME NetworkAssumption ==
    /\ NoAdapter \notin Adapters
    /\ {"dhcp"} \cap Addresses = {}
    /\ DnsLists \subseteq {<<>>} \cup {<<s>> : s \in Servers}
                            \cup {<<s, t>> : s, t \in Servers}
    /\ <<>> \in DnsLists
    /\ MaxJobs \in Nat

\* The address and the DNS servers of an adapter, in their order; it has none of
\* its own when they come from DHCP.
Configs == [addr : Addresses \cup {"dhcp"}, dns : Seq(Servers)]

Targets == [addr : Addresses \cup {"dhcp"}, dns : DnsLists]

\* What a listing says of an adapter; is_dhcp_enabled may be None.
Infos == [addr : Addresses \cup {"dhcp"}, dns : Seq(Servers), dhcpKnown : BOOLEAN]

DhcpConfig == [addr |-> "dhcp", dns |-> <<>>]

\* The listings of _reload_after_network_change.
MaxAttempts == 3

VARIABLES
    real,      \* configuration of each adapter
    listed,    \* what Windows lists of it
    phase,     \* "idle", "asking", "commands" or "reload"
    entry,     \* the load of the first visit: "none", "posted" or "done"
    question,  \* what is asked, and the adapter shown when it was (history)
    job,       \* the adapter of the current or last change and its target
    before,    \* configurations before that change (history)
    commands,  \* netsh commands left
    attempt,   \* listings made after the change
    lastError, \* did one of them raise?
    adapters,  \* NetworkViewModel.adapters, by name
    selected,  \* selected_adapter, shown in the table
    combo,     \* names in the panel's combo box, and the current one
    form,      \* the adapter whose settings the fields hold, if any, and
               \* whether they were kept at the last load or choice
    message,   \* NetworkViewModel.status_message
    jobs       \* changes so far

vars == <<real, listed, phase, entry, question, job, before, commands, attempt,
          lastError, adapters, selected, combo, form, message, jobs>>

windows == <<real, listed>>
view == <<adapters, selected, combo, form>>
asking == <<entry, question>>
change == <<job, before, commands, attempt, lastError, jobs>>

Requests == [adapter : Adapters, target : Targets]
NoJob == [adapter |-> NoAdapter, target |-> DhcpConfig]
NoSelection == [name |-> NoAdapter]
Questions == [about : {"nothing", "static", "dhcp"},
              adapter : Adapters \cup {NoAdapter}, refilled : BOOLEAN]
NoQuestion == [about |-> "nothing", adapter |-> NoAdapter, refilled |-> FALSE]
Forms == [from : Adapters \cup {NoAdapter}, kept : BOOLEAN]
EmptyForm == [from |-> NoAdapter, kept |-> FALSE]
Commands == {"address", "dns", "second_dns"}

TypeOK ==
    /\ real \in [Adapters -> Configs]
    /\ listed \in [Adapters -> Configs]
    /\ phase \in {"idle", "asking", "commands", "reload"}
    /\ entry \in {"none", "posted", "done"}
    /\ question \in Questions
    /\ job \in Requests \cup {NoJob}
    /\ before \in [Adapters -> Configs]
    /\ commands \in Seq(Commands)
    /\ attempt \in 0 .. MaxAttempts
    /\ lastError \in BOOLEAN
    /\ DOMAIN adapters \subseteq Adapters
    /\ \A a \in DOMAIN adapters : adapters[a] \in Infos
    /\ selected \in {NoSelection} \cup [name : Adapters, info : Infos]
    /\ combo \in [names : SUBSET Adapters, current : Adapters \cup {NoAdapter}]
    /\ form \in Forms
    /\ message \in {"none", "loaded", "not_found", "load_failed", "input_error",
                    "failed", "applied", "reload_failed"}
    /\ jobs \in Nat

NoAdapters == [a \in {} |-> {}]
EmptyCombo == [names |-> {}, current |-> NoAdapter]

\* Bounded: every adapter starts with DHCP; a first change makes one static.
Init ==
    /\ real = [a \in Adapters |-> DhcpConfig]
    /\ listed = real
    /\ phase = "idle"
    /\ entry = "none"
    /\ question = NoQuestion
    /\ job = NoJob
    /\ before = real
    /\ commands = <<>>
    /\ attempt = 0
    /\ lastError = FALSE
    /\ adapters = NoAdapters
    /\ selected = NoSelection
    /\ combo = EmptyCombo
    /\ form = EmptyForm
    /\ message = "none"
    /\ jobs = 0

-----------------------------------------------------------------------------
(* Listing and selecting *)

Info(a, known) == [addr |-> listed[a].addr, dns |-> listed[a].dns, dhcpKnown |-> known]

\* A listing finds some adapters; whether DHCP is on may not be known.
Listing(found, known) == [a \in found |-> Info(a, known)]

\* A wrong variant: an adapter that is gone is replaced by another one.
SelectAnother(infos, name) ==
    IF DOMAIN infos = {} THEN NoSelection
    ELSE LET n == IF name \in DOMAIN infos THEN name ELSE CHOOSE a \in DOMAIN infos : TRUE
         IN  [name |-> n, info |-> infos[n]]

Select(infos, name) ==
    IF name \in DOMAIN infos THEN [name |-> name, info |-> infos[name]]
    ELSE NoSelection

\* _fill_from_selected_adapter: with no adapter selected the fields keep what
\* they hold.
Filled(selection) ==
    IF selection = NoSelection THEN [form EXCEPT !.kept = TRUE]
    ELSE [from |-> selection.name, kept |-> FALSE]

\* _select_page posts a load at the first visit.
FirstVisit ==
    /\ phase = "idle"
    /\ entry = "none"
    /\ entry' = "posted"
    /\ UNCHANGED <<windows, phase, question, view, message, change>>

\* A load: by the refresh button, or the posted one, which is delivered while
\* the question is open as well.
Loading ==
    /\ entry # "none"
    /\ \/ phase = "idle" /\ UNCHANGED asking
       \/ /\ phase \in {"idle", "asking"}
          /\ entry = "posted"
          /\ entry' = "done"
          /\ question' = IF phase = "asking" THEN [question EXCEPT !.refilled = TRUE]
                         ELSE question

\* The panel fills its combo box from the adapters found, in their order; the
\* first one is selected.
LoadAdapters ==
    /\ Loading
    /\ \E found \in SUBSET Adapters, known \in BOOLEAN :
          /\ adapters' = Listing(found, known)
          /\ IF found = {}
             THEN /\ selected' = NoSelection
                  /\ combo' = EmptyCombo
                  /\ message' = "not_found"
             ELSE /\ \E first \in found :
                        /\ selected' = Select(adapters', first)
                        /\ combo' = [names |-> found, current |-> first]
                  /\ message' = "loaded"
    /\ form' = Filled(selected')
    /\ UNCHANGED <<windows, phase, change>>

\* The listing raises: no adapter is left to choose, but the selected one
\* stays in the table.
LoadFails ==
    /\ Loading
    /\ adapters' = NoAdapters
    /\ combo' = EmptyCombo
    /\ form' = Filled(selected)
    /\ message' = "load_failed"
    /\ UNCHANGED <<selected, windows, phase, change>>

\* The user picks another adapter in the combo box, which still holds the
\* names of the last load even if a reload found fewer.
AdapterChanged ==
    /\ phase = "idle"
    /\ \E name \in combo.names \ {combo.current} :
          /\ combo' = [combo EXCEPT !.current = name]
          /\ selected' = Select(adapters, name)
          /\ form' = Filled(selected')
    /\ UNCHANGED <<adapters, message, windows, phase, asking, change>>

\* The user fills in the form, or takes the defaults.
FillIn ==
    /\ phase = "idle"
    /\ entry # "none"
    /\ form # EmptyForm
    /\ form' = EmptyForm
    /\ UNCHANGED <<adapters, selected, combo, message, windows, phase, asking, change>>

-----------------------------------------------------------------------------
(* Changing *)

\* A click on one of the two buttons.  Bounded: the load of the first visit is
\* not put off beyond the first change; it is posted with no delay.
Ask ==
    /\ phase = "idle"
    /\ entry # "none"
    /\ jobs < MaxJobs /\ (entry = "posted" => jobs = 0)
    /\ phase' = "asking"
    /\ \E about \in {"static", "dhcp"} :
          question' = [about |-> about, adapter |-> combo.current, refilled |-> FALSE]
    /\ UNCHANGED <<entry, windows, view, message, change>>

AnswerNo ==
    /\ phase = "asking"
    /\ phase' = "idle"
    /\ question' = NoQuestion
    /\ UNCHANGED <<entry, windows, view, message, change>>

\* validate_static_ip_fields turns a missing adapter and bad fields down,
\* SetDhcp.execute a missing adapter.
Refuse ==
    /\ phase = "asking"
    /\ phase' = "idle"
    /\ question' = NoQuestion
    /\ IF question.about = "static" THEN message' = "input_error"
       ELSE combo.current = NoAdapter /\ message' = "failed"
    /\ UNCHANGED <<entry, windows, view, change>>

CommandsFor(target) ==
    IF Len(target.dns) = 2 THEN <<"address", "dns", "second_dns">>
    ELSE <<"address", "dns">>

\* The answer is yes, and the combo box is read.
Start(target) ==
    /\ phase = "asking"
    /\ combo.current # NoAdapter
    /\ phase' = "commands"
    /\ job' = [adapter |-> combo.current, target |-> target]
    /\ before' = real
    /\ commands' = CommandsFor(target)
    /\ attempt' = 0
    /\ lastError' = FALSE
    /\ jobs' = jobs + 1
    /\ UNCHANGED <<asking, view, message, windows>>

\* A static address with no, one or two DNS servers of its own: those in the
\* form, where the user may put any.
ApplyStaticIp ==
    /\ question.about = "static"
    /\ \E ip \in Addresses, dns \in DnsLists :
        Start([addr |-> ip, dns |-> dns])

SetDhcp == question.about = "dhcp" /\ Start(DhcpConfig)

\* A wrong variant: the second server is set, and replaces the first.
AfterCommandReplaces(config, command) ==
    CASE command = "address" -> [config EXCEPT !.addr = job.target.addr]
      [] command = "dns" ->
            [config EXCEPT !.dns = IF job.target.dns = <<>> THEN <<>>
                                   ELSE <<job.target.dns[1]>>]
      [] command = "second_dns" -> [config EXCEPT !.dns = <<job.target.dns[2]>>]

\* "set address"; "set dns", which replaces the servers by the first one asked
\* for, or by those of DHCP; "add dns index=2", which puts the second after it.
AfterCommand(config, command) ==
    CASE command = "address" -> [config EXCEPT !.addr = job.target.addr]
      [] command = "dns" ->
            [config EXCEPT !.dns = IF job.target.dns = <<>> THEN <<>>
                                   ELSE <<job.target.dns[1]>>]
      [] command = "second_dns" -> [config EXCEPT !.dns = Append(@, job.target.dns[2])]

RunCommand ==
    /\ phase = "commands"
    /\ commands # <<>>
    /\ real' = [real EXCEPT ![job.adapter] = AfterCommand(@, Head(commands))]
    /\ commands' = Tail(commands)
    /\ UNCHANGED <<listed, phase, asking, job, before, attempt, lastError, jobs, view,
                   message>>

\* A wrong variant: the next commands run all the same.
CommandFailsGoOn ==
    /\ phase = "commands"
    /\ commands # <<>>
    /\ commands' = Tail(commands)
    /\ message' = "failed"
    /\ UNCHANGED <<windows, phase, asking, job, before, attempt, lastError, jobs, view>>

\* The rest of the commands is given up, and the adapters are not listed again.
CommandFails ==
    /\ phase = "commands"
    /\ commands # <<>>
    /\ commands' = <<>>
    /\ phase' = "idle"
    /\ question' = NoQuestion
    /\ message' = "failed"
    /\ UNCHANGED <<windows, entry, job, before, attempt, lastError, jobs, view>>

CommandsDone ==
    /\ phase = "commands"
    /\ commands = <<>>
    /\ phase' = "reload"
    /\ question' = NoQuestion
    /\ message' = "applied"
    /\ UNCHANGED <<windows, entry, change, view>>

\* _adapter_matches_expected_state: an address is looked for after
\* apply_static_ip only, an unknown DHCP state matches.
ShowsTarget(selection) ==
    /\ selection # NoSelection
    /\ job.target.addr \in Addresses => selection.info.addr = job.target.addr
    /\ selection.info.dhcpKnown
          => (selection.info.addr = "dhcp") = (job.target.addr = "dhcp")

EndReload(error) ==
    /\ phase' = "idle"
    /\ message' = IF error THEN "reload_failed" ELSE message

Relist ==
    /\ phase = "reload"
    /\ \E found \in SUBSET Adapters, known \in BOOLEAN :
          adapters' = Listing(found, known)
    /\ selected' = Select(adapters', job.adapter)
    /\ UNCHANGED <<lastError, windows, asking, combo, form, job, before, commands, jobs>>

\* A wrong variant: list until the new state shows.
ReloadUntilShown ==
    /\ Relist
    /\ UNCHANGED attempt
    /\ IF ShowsTarget(selected') THEN EndReload(FALSE) ELSE UNCHANGED <<phase, message>>

\* A wrong variant: the first listing is taken for good.
ReloadOnce ==
    /\ Relist
    /\ attempt' = attempt + 1
    /\ EndReload(FALSE)

\* One listing of _reload_after_network_change.  The combo box and the form
\* are left alone.
Reload ==
    /\ Relist
    /\ attempt' = attempt + 1
    /\ IF ShowsTarget(selected') THEN EndReload(FALSE)
       ELSE IF attempt' = MaxAttempts THEN EndReload(lastError)
       ELSE UNCHANGED <<phase, message>>

\* A wrong variant: a listing that raises is repeated without end.
ReloadRaisesAgain ==
    /\ phase = "reload"
    /\ attempt' = attempt + 1
    /\ lastError' = TRUE
    /\ UNCHANGED <<phase, message, windows, asking, job, before, commands, jobs, view>>

ReloadRaises ==
    /\ phase = "reload"
    /\ attempt' = attempt + 1
    /\ lastError' = TRUE
    /\ IF attempt' = MaxAttempts THEN EndReload(TRUE)
       ELSE UNCHANGED <<phase, message>>
    /\ UNCHANGED <<windows, asking, job, before, commands, jobs, view>>

\* Windows catches up, whatever the tool is doing.
Settle ==
    /\ \E a \in Adapters : listed[a] # real[a] /\ listed' = [listed EXCEPT ![a] = real[a]]
    /\ UNCHANGED <<real, phase, asking, view, message, change>>

-----------------------------------------------------------------------------
Work == RunCommand \/ CommandFails \/ CommandsDone \/ Reload \/ ReloadRaises

Next ==
    \/ FirstVisit \/ LoadAdapters \/ LoadFails \/ AdapterChanged \/ FillIn
    \/ Ask \/ AnswerNo \/ Refuse \/ ApplyStaticIp \/ SetDhcp
    \/ RunCommand \/ CommandFails \/ CommandsDone \/ Reload \/ ReloadRaises
    \/ Settle

Spec == Init /\ [][Next]_vars

\* A handler runs to its end: a netsh command and a listing return.
FairSpec == Spec /\ WF_vars(Work)

-----------------------------------------------------------------------------
(* Properties *)

\* A change reported as done is there in full on the adapter asked for:
\* address, primary and secondary DNS server.
AppliedIsReal ==
    phase = "idle" /\ message \in {"applied", "reload_failed"}
        => real[job.adapter] = job.target

\* At any time, and for good when it stops half way, a change has left the work
\* of a prefix of its commands and nothing else: nothing, the address, the
\* address and the first server with no other, or all of it.  The servers never
\* change before the address, and the second one is never added to servers that
\* are not the new first one.
ChangeIsPrefix ==
    job # NoJob =>
        LET old == before[job.adapter]
            to == job.target
        IN \/ real[job.adapter] \in {old, to}
           \/ real[job.adapter] = [addr |-> to.addr, dns |-> old.dns]
           \/ Len(to.dns) = 2
                 /\ real[job.adapter] = [addr |-> to.addr, dns |-> <<to.dns[1]>>]

\* A change goes to the adapter that was shown when the question was asked,
\* unless the page's first load came in between, and to no other; the table
\* shows that adapter or is empty.  The form holds the settings of no other
\* adapter, unless it was kept when the user chose one that the last listing no
\* longer had.
OnlyAskedAdapterChanges ==
    /\ \A a \in Adapters : real[a] # before[a] => a = job.adapter
    /\ phase = "commands" =>
          /\ combo.current = job.adapter
          /\ question.adapter = job.adapter \/ question.refilled
          /\ selected # NoSelection => selected.name = job.adapter
          /\ form.from \in {job.adapter, NoAdapter} \/ form.kept

\* The reload after a change ends with success only when the table shows the
\* adapter of the change with the address asked for (or, after a switch to DHCP,
\* with no word on whether DHCP is on): a listing that still has the old one, or
\* does not have the adapter, is not taken for the last while attempts are
\* left.  Out of attempts, one that raised is reported.
ReloadTriesEnough ==
    [][phase = "reload" /\ phase' = "idle" =>
          \/ /\ message' = "applied"
             /\ selected'.name = job.adapter
             /\ \/ selected'.info.addr = job.target.addr
                \/ job.target.addr = "dhcp" /\ ~selected'.info.dhcpKnown
          \/ attempt' = MaxAttempts /\ (lastError' => message' = "reload_failed")]_vars

\* Every change comes to its end: the panel gives the busy flag back.
ChangeEnds == phase \in {"commands", "reload"} ~> phase = "idle"
=============================================================================
