------------------------ MODULE NetworkConfigProofs ------------------------
(***************************************************************************)
(* What TLC checks of NetworkConfig for two adapters and two changes,      *)
(* proved for any adapters, addresses and number of changes: the types,    *)
(* what is in force after a change that was reported as applied and after  *)
(* one that failed, which adapter it goes to, and when a reload gives up.  *)
(***************************************************************************)
EXTENDS NetworkConfig, SequenceTheorems, TLAPS

-----------------------------------------------------------------------------
(* Types, in four parts *)

WindowsOK == real \in [Adapters -> Configs] /\ listed \in [Adapters -> Configs]

\* With what the number of attempts rests on.
FlowOK ==
    /\ phase \in {"idle", "asking", "commands", "reload"}
    /\ entry \in {"none", "posted", "done"}
    /\ question \in Questions
    /\ attempt \in 0 .. 3
    /\ lastError \in BOOLEAN
    /\ message \in {"none", "loaded", "not_found", "load_failed", "input_error",
                    "failed", "applied", "reload_failed"}
    /\ jobs \in Nat
    /\ phase = "commands" => attempt = 0
    /\ phase = "reload" => attempt < 3

\* A change under way has a request.
JobOK ==
    /\ job \in Requests \cup {NoJob}
    /\ before \in [Adapters -> Configs]
    /\ commands \in Seq(Commands)
    /\ phase \in {"commands", "reload"} => job \in Requests
    /\ \A i \in DOMAIN commands : commands[i] = "second_dns" => Len(job.target.dns) = 2

ViewOK ==
    /\ DOMAIN adapters \subseteq Adapters
    /\ \A a \in DOMAIN adapters : adapters[a] \in Infos
    /\ selected \in {NoSelection} \cup [name : Adapters, info : Infos]
    /\ combo \in [names : SUBSET Adapters, current : Adapters \cup {NoAdapter}]
    /\ form \in Forms

Types == WindowsOK /\ FlowOK /\ JobOK /\ ViewOK

LEMMA TypesImply == Types => TypeOK
BY DEF Types, WindowsOK, FlowOK, JobOK, ViewOK, TypeOK, MaxAttempts

\* The lists of servers the form can hold, taken apart.
LEMMA ListFacts ==
    ASSUME NEW dns \in DnsLists
    PROVE  /\ dns \in Seq(Servers) /\ Len(dns) \in Nat
           /\ dns # <<>> => dns[1] \in Servers
           /\ Len(dns) = 2 => dns # <<>> /\ dns[2] \in Servers /\ Append(<<dns[1]>>, dns[2]) = dns
           /\ Len(dns) # 2 => dns = <<>> \/ dns = <<dns[1]>>
<1>1. CASE dns = <<>>
  BY <1>1
<1>2. ASSUME NEW s \in Servers, dns = <<s>>
      PROVE  /\ dns \in Seq(Servers) /\ Len(dns) = 1 /\ dns[1] \in Servers
             /\ dns # <<>> /\ dns = <<dns[1]>>
  BY <1>2
<1>3. ASSUME NEW s \in Servers, NEW t \in Servers, dns = <<s, t>>
      PROVE  /\ dns \in Seq(Servers) /\ Len(dns) = 2 /\ dns[1] \in Servers
             /\ dns # <<>> /\ dns[2] \in Servers /\ Append(<<dns[1]>>, dns[2]) = dns
  <2>1. /\ dns \in Seq(Servers) /\ Len(dns) = 2 /\ dns # <<>>
        /\ dns[1] = s /\ dns[2] = t
    BY <1>3
  <2>2. Append(<<s>>, t) = <<s, t>>
    <3> DEFINE one == Append(<<s>>, t)
               both == <<s, t>>
    <3>1. one \in Seq(Servers) /\ both \in Seq(Servers) /\ Len(one) = 2 /\ Len(both) = 2
      OBVIOUS
    <3>2. one[1] = s /\ one[2] = t /\ both[1] = s /\ both[2] = t
      OBVIOUS
    <3>3. \A i \in 1 .. Len(one) : one[i] = both[i]
      BY <3>1, <3>2
    <3> QED BY <3>1, <3>3, SeqEqual
  <2> QED BY <1>3, <2>1, <2>2
<1>4. \/ dns = <<>>
      \/ \E s \in Servers : dns = <<s>>
      \/ \E s, t \in Servers : dns = <<s, t>>
  BY NetworkAssumption
<1> QED BY <1>1, <1>2, <1>3, <1>4

LEMMA QuestionFacts ==
    /\ NoQuestion \in Questions
    /\ \A about \in {"static", "dhcp"}, a \in Adapters \cup {NoAdapter} :
          [about |-> about, adapter |-> a, refilled |-> FALSE] \in Questions
<1>1. FALSE \in BOOLEAN
  OBVIOUS
<1> QED BY <1>1 DEF NoQuestion, Questions

LEMMA FormFacts ==
    /\ EmptyForm \in Forms
    /\ \A a \in Adapters : [from |-> a, kept |-> FALSE] \in Forms
    /\ \A f \in Forms : [f EXCEPT !.kept = TRUE] \in Forms
<1>1. TRUE \in BOOLEAN /\ FALSE \in BOOLEAN
  OBVIOUS
<1> QED BY <1>1 DEF EmptyForm, Forms

LEMMA InitTypes == Init => Types
<1> SUFFICES ASSUME Init PROVE Types
  OBVIOUS
<1>1. DhcpConfig \in Configs
  BY DEF DhcpConfig, Configs
<1>2. WindowsOK
  BY <1>1 DEF Init, WindowsOK
<1>3. FlowOK
  <2>1. lastError \in BOOLEAN
    <3>1. FALSE \in BOOLEAN
      OBVIOUS
    <3> QED BY ONLY <3>1, Init DEF Init
  <2> QED BY <2>1, QuestionFacts DEF Init, FlowOK
<1>4. JobOK
  BY <1>1 DEF Init, JobOK
<1>5. ViewOK
  <2>1. EmptyForm \in Forms
    BY FormFacts
  <2> QED BY <2>1 DEF Init, ViewOK, NoAdapters, EmptyCombo
<1> QED BY <1>2, <1>3, <1>4, <1>5 DEF Types

\* A listing has its adapters, with information of the right type.
LEMMA ListingTypes ==
    ASSUME WindowsOK, NEW found \in SUBSET Adapters, NEW known \in BOOLEAN
    PROVE  /\ DOMAIN Listing(found, known) = found
           /\ \A a \in found : Listing(found, known)[a] \in Infos
<1>1. \A a \in found : Info(a, known) \in Infos
  BY DEF WindowsOK, Configs, Info, Infos
<1> QED BY <1>1 DEF Listing

\* What is selected is among what was found, and has the name asked for.
LEMMA SelectTypes ==
    ASSUME NEW infos, DOMAIN infos \subseteq Adapters,
           \A a \in DOMAIN infos : infos[a] \in Infos, NEW name
    PROVE  /\ Select(infos, name) \in {NoSelection} \cup [name : Adapters, info : Infos]
           /\ name \in DOMAIN infos => Select(infos, name).name = name
           /\ Select(infos, name) # NoSelection => Select(infos, name).name = name
BY DEF Select

LEMMA FilledTypes ==
    ASSUME form \in Forms, NEW s \in {NoSelection} \cup [name : Adapters, info : Infos]
    PROVE  /\ Filled(s) \in Forms
           /\ Filled(s).kept \/ (s # NoSelection /\ Filled(s).from = s.name)
<1>1. CASE s = NoSelection
  <2>1. Filled(s) = [form EXCEPT !.kept = TRUE]
    BY <1>1 DEF Filled
  <2>2. Filled(s).kept = TRUE
    BY <2>1 DEF Forms
  <2> QED BY <2>1, <2>2, FormFacts
<1>2. CASE s # NoSelection
  BY <1>2, FormFacts DEF Filled
<1> QED BY <1>1, <1>2

\* A load leaves a question its type and goes on with what was going on.
LEMMA LoadingIs ==
    ASSUME FlowOK, Loading
    PROVE  /\ phase \in {"idle", "asking"}
           /\ entry' \in {"none", "posted", "done"}
           /\ \/ question' = question /\ phase = "idle"
              \/ phase = "asking" /\ question' = [question EXCEPT !.refilled = TRUE]
           /\ question' \in Questions
BY DEF FlowOK, Loading, asking, Questions

\* What a load puts into the view.
LEMMA LoadAdaptersIs ==
    ASSUME Types, LoadAdapters
    PROVE  /\ ViewOK'
           /\ combo'.current # NoAdapter =>
                  /\ selected' # NoSelection => selected'.name = combo'.current
                  /\ form'.kept \/ form'.from = combo'.current
<1>1. PICK found \in SUBSET Adapters, known \in BOOLEAN :
          /\ adapters' = Listing(found, known)
          /\ IF found = {}
             THEN selected' = NoSelection /\ combo' = EmptyCombo
             ELSE \E first \in found :
                     /\ selected' = Select(adapters', first)
                     /\ combo' = [names |-> found, current |-> first]
  BY DEF LoadAdapters
<1>2. form' = Filled(selected')
  BY DEF LoadAdapters
<1>3. /\ DOMAIN adapters' = found
      /\ \A a \in found : adapters'[a] \in Infos
  BY <1>1, ListingTypes DEF Types
<1>4. CASE found = {}
  <2>1. selected' = NoSelection /\ combo' = EmptyCombo
    BY <1>1, <1>4
  <2>2. form' \in Forms
    BY <1>2, <2>1, FilledTypes DEF Types, ViewOK
  <2> QED BY <1>3, <2>1, <2>2 DEF ViewOK, EmptyCombo
<1>5. CASE found # {}
  <2>1. PICK first \in found : /\ selected' = Select(adapters', first)
                               /\ combo' = [names |-> found, current |-> first]
    BY <1>1, <1>5
  <2>2. /\ selected' \in {NoSelection} \cup [name : Adapters, info : Infos]
        /\ selected' # NoSelection => selected'.name = first
    BY <1>3, <2>1, SelectTypes
  <2>3. /\ form' \in Forms
        /\ form'.kept \/ form'.from = first
    BY <1>2, <2>2, FilledTypes DEF Types, ViewOK
  <2> QED BY <1>3, <2>1, <2>2, <2>3 DEF ViewOK
<1> QED BY <1>4, <1>5

\* What a listing after a change puts into the view.
LEMMA RelistIs ==
    ASSUME Types, Relist
    PROVE  /\ ViewOK' /\ combo' = combo /\ form' = form
           /\ selected' # NoSelection => selected'.name = job.adapter
<1>1. PICK found \in SUBSET Adapters, known \in BOOLEAN :
          adapters' = Listing(found, known)
  BY DEF Relist
<1>2. selected' = Select(adapters', job.adapter) /\ combo' = combo /\ form' = form
  BY DEF Relist
<1>3. DOMAIN adapters' = found /\ \A a \in found : adapters'[a] \in Infos
  BY <1>1, ListingTypes DEF Types
<1> QED BY <1>2, <1>3, SelectTypes DEF Types, ViewOK

-----------------------------------------------------------------------------
(* Every step keeps the types *)

Viewing == FirstVisit \/ LoadAdapters \/ LoadFails \/ AdapterChanged \/ FillIn
Answering == Ask \/ AnswerNo \/ Refuse \/ ApplyStaticIp \/ SetDhcp

LEMMA ViewingTypes == ASSUME Types, Viewing PROVE Types'
<1>1. WindowsOK'
  BY DEF Types, WindowsOK, Viewing, FirstVisit, LoadAdapters, LoadFails, AdapterChanged,
         FillIn, windows
<1>2. JobOK'
  BY DEF Types, JobOK, Viewing, FirstVisit, LoadAdapters, LoadFails, AdapterChanged,
         FillIn, change
<1>3. FlowOK'
  <2>1. CASE FirstVisit
    BY <2>1 DEF Types, FlowOK, FirstVisit, change
  <2>2. CASE LoadAdapters
    <3>1. /\ message' \in {"not_found", "loaded"}
          /\ Loading /\ UNCHANGED <<phase, attempt, lastError, jobs>>
      BY <2>2 DEF LoadAdapters, change
    <3> QED BY <3>1, LoadingIs DEF Types, FlowOK
  <2>3. CASE LoadFails
    <3>1. /\ message' = "load_failed"
          /\ Loading /\ UNCHANGED <<phase, attempt, lastError, jobs>>
      BY <2>3 DEF LoadFails, change
    <3> QED BY <3>1, LoadingIs DEF Types, FlowOK
  <2>4. CASE AdapterChanged
    BY <2>4 DEF Types, FlowOK, AdapterChanged, asking, change
  <2>5. CASE FillIn
    BY <2>5 DEF Types, FlowOK, FillIn, asking, change
  <2> QED BY <2>1, <2>2, <2>3, <2>4, <2>5 DEF Viewing
<1>4. ViewOK'
  <2>1. CASE FirstVisit
    BY <2>1 DEF Types, ViewOK, FirstVisit, view
  <2>2. CASE LoadAdapters
    BY <2>2, LoadAdaptersIs
  <2>3. CASE LoadFails
    <3>1. form' \in Forms
      BY <2>3, FilledTypes DEF Types, ViewOK, LoadFails
    <3> QED BY <2>3, <3>1 DEF Types, ViewOK, LoadFails, NoAdapters, EmptyCombo
  <2>4. CASE AdapterChanged
    <3>1. PICK name \in combo.names \ {combo.current} :
              /\ combo' = [combo EXCEPT !.current = name]
              /\ selected' = Select(adapters, name)
              /\ form' = Filled(selected')
              /\ adapters' = adapters
      BY <2>4 DEF AdapterChanged
    <3>2. selected' \in {NoSelection} \cup [name : Adapters, info : Infos]
      BY <3>1, SelectTypes DEF Types, ViewOK
    <3>3. form' \in Forms
      BY <3>1, <3>2, FilledTypes DEF Types, ViewOK
    <3> QED BY <3>1, <3>2, <3>3 DEF Types, ViewOK
  <2>5. CASE FillIn
    BY <2>5, FormFacts DEF Types, ViewOK, FillIn
  <2> QED BY <2>1, <2>2, <2>3, <2>4, <2>5 DEF Viewing
<1> QED BY <1>1, <1>2, <1>3, <1>4 DEF Types

LEMMA StartTypes ==
    ASSUME Types, NEW target \in Targets, Start(target)
    PROVE  Types' /\ job' \in Requests
<1>1. job' \in Requests /\ before' \in [Adapters -> Configs]
  BY DEF Start, Types, WindowsOK, ViewOK, Requests
<1>2. commands' \in Seq(Commands)
  <2>1. <<"address", "dns">> \in Seq(Commands)
    BY DEF Commands
  <2>2. <<"address", "dns", "second_dns">> \in Seq(Commands)
    BY DEF Commands
  <2>3. commands' \in {<<"address", "dns">>, <<"address", "dns", "second_dns">>}
    BY DEF Start, CommandsFor
  <2> QED BY <2>1, <2>2, <2>3
<1>7. \A i \in DOMAIN commands' : commands'[i] = "second_dns" => Len(job'.target.dns) = 2
  <2>1. commands' = CommandsFor(target) /\ job'.target = target
    BY DEF Start
  <2>2. CASE Len(target.dns) = 2
    BY <2>1, <2>2
  <2>3. CASE Len(target.dns) # 2
    <3>1. commands' = <<"address", "dns">>
      BY <2>1, <2>3 DEF CommandsFor
    <3> QED BY <3>1
  <2> QED BY <2>2, <2>3
<1>3. WindowsOK'
  BY DEF Types, WindowsOK, Start, windows
<1>4. FlowOK'
  <2>1. lastError' \in BOOLEAN
    <3>1. FALSE \in BOOLEAN
      OBVIOUS
    <3> QED BY ONLY <3>1, Start(target) DEF Start
  <2>2. attempt' = 0 /\ phase' = "commands" /\ jobs' = jobs + 1 /\ message' = message
        /\ entry' = entry /\ question' = question
    BY DEF Start, asking
  <2> QED BY <2>1, <2>2 DEF Types, FlowOK
<1>5. JobOK'
  BY <1>1, <1>2, <1>7 DEF JobOK
<1>6. ViewOK'
  BY DEF Types, ViewOK, Start, view
<1> QED BY <1>1, <1>3, <1>4, <1>5, <1>6 DEF Types

LEMMA AnsweringTypes == ASSUME Types, Answering PROVE Types'
<1>1. CASE Ask
  <2>1. question' \in Questions
    BY <1>1, QuestionFacts DEF Ask, Types, ViewOK
  <2> QED BY <1>1, <2>1 DEF Types, WindowsOK, FlowOK, JobOK, ViewOK, Ask, windows, view, change
<1>2. CASE AnswerNo
  BY <1>2, QuestionFacts DEF Types, WindowsOK, FlowOK, JobOK, ViewOK, AnswerNo, windows, view, change
<1>3. CASE Refuse
  <2>1. message' \in {"input_error", "failed"}
    BY <1>3 DEF Refuse
  <2> QED BY <1>3, <2>1, QuestionFacts
          DEF Types, WindowsOK, FlowOK, JobOK, ViewOK, Refuse, windows, view, change
<1>4. CASE ApplyStaticIp
  <2>1. PICK ip \in Addresses, dns \in DnsLists : Start([addr |-> ip, dns |-> dns])
    BY <1>4 DEF ApplyStaticIp
  <2>2. [addr |-> ip, dns |-> dns] \in Targets
    BY DEF Targets
  <2> QED BY <2>1, <2>2, StartTypes
<1>5. CASE SetDhcp
  BY <1>5, StartTypes, NetworkAssumption DEF SetDhcp, DhcpConfig, Targets
<1> QED BY <1>1, <1>2, <1>3, <1>4, <1>5 DEF Answering

LEMMA AfterCommandTypes ==
    ASSUME JobOK, NEW config \in Configs, NEW command \in Commands,
           command = "second_dns" => Len(job.target.dns) = 2
    PROVE  AfterCommand(config, command) \in Configs
<1>1. job.target \in Targets
  BY NetworkAssumption DEF JobOK, Requests, NoJob, DhcpConfig, Targets
<1>2. CASE command = "address"
  BY <1>1, <1>2 DEF AfterCommand, Configs, Targets
<1>3. CASE command = "dns"
  <2>1. job.target.dns # <<>> => <<job.target.dns[1]>> \in Seq(Servers)
    <3>1. job.target.dns # <<>> => job.target.dns[1] \in Servers
      BY <1>1, ListFacts DEF Targets
    <3> QED BY <3>1
  <2>2. <<>> \in Seq(Servers)
    OBVIOUS
  <2> QED BY <1>3, <2>1, <2>2 DEF AfterCommand, Configs
<1>4. CASE command = "second_dns"
  <2>1. job.target.dns[2] \in Servers
    BY <1>1, <1>4, ListFacts DEF Targets
  <2>2. Append(config.dns, job.target.dns[2]) \in Seq(Servers)
    BY <2>1 DEF Configs
  <2> QED BY <1>4, <2>2 DEF AfterCommand, Configs
<1> QED BY <1>2, <1>3, <1>4 DEF Commands

LEMMA WorkTypes == ASSUME Types, Work PROVE Types'
<1>1. CASE RunCommand
  <2>1. job.adapter \in Adapters /\ real \in [Adapters -> Configs] /\ commands \in Seq(Commands)
    BY <1>1 DEF RunCommand, Types, JobOK, Requests, WindowsOK
  <2>2. real' = [real EXCEPT ![job.adapter] = AfterCommand(real[job.adapter], Head(commands))]
    BY <1>1 DEF RunCommand
  <2>3. AfterCommand(real[job.adapter], Head(commands)) \in Configs
    <3>1. commands # <<>>
      BY <1>1 DEF RunCommand
    <3>2. Head(commands) \in Commands /\ 1 \in DOMAIN commands /\ Head(commands) = commands[1]
      BY <2>1, <3>1
    <3> QED BY <2>1, <3>2, AfterCommandTypes DEF Types, JobOK, WindowsOK
  <2>4. real' \in [Adapters -> Configs]
    BY ONLY <2>1, <2>2, <2>3
  <2>5. WindowsOK'
    BY <1>1, <2>4 DEF RunCommand, Types, WindowsOK
  <2>6. JobOK'
    <3>1. commands' = Tail(commands) /\ commands # <<>>
      BY <1>1 DEF RunCommand
    <3>2. /\ commands' \in Seq(Commands)
          /\ \A i \in DOMAIN commands' : i + 1 \in DOMAIN commands /\ commands'[i] = commands[i + 1]
      BY <2>1, <3>1
    <3> QED BY <1>1, <3>2 DEF RunCommand, Types, JobOK
  <2>7. FlowOK' /\ ViewOK'
    BY <1>1 DEF RunCommand, Types, FlowOK, ViewOK, asking, view
  <2> QED BY <2>5, <2>6, <2>7 DEF Types
<1>2. CASE CommandFails
  <2>1. JobOK'
    BY <1>2 DEF CommandFails, Types, JobOK
  <2> QED BY <1>2, <2>1, QuestionFacts
          DEF Types, WindowsOK, FlowOK, ViewOK, CommandFails, windows, view
<1>3. CASE CommandsDone
  BY <1>3, QuestionFacts
  DEF Types, WindowsOK, FlowOK, JobOK, ViewOK, CommandsDone, windows, view, change
<1>4. CASE Reload
  <2>1. WindowsOK' /\ JobOK'
    BY <1>4 DEF Types, WindowsOK, JobOK, Reload, Relist, windows
  <2>2. FlowOK'
    BY <1>4 DEF Types, FlowOK, Reload, Relist, EndReload, MaxAttempts, asking
  <2>3. ViewOK'
    BY <1>4, RelistIs DEF Reload
  <2> QED BY <2>1, <2>2, <2>3 DEF Types
<1>5. CASE ReloadRaises
  <2>1. WindowsOK' /\ JobOK' /\ ViewOK'
    BY <1>5 DEF Types, WindowsOK, JobOK, ViewOK, ReloadRaises, windows, view
  <2>2. FlowOK'
    BY <1>5 DEF Types, FlowOK, ReloadRaises, EndReload, MaxAttempts, asking
  <2> QED BY <2>1, <2>2 DEF Types
<1> QED BY <1>1, <1>2, <1>3, <1>4, <1>5 DEF Work

LEMMA OtherTypes == ASSUME Types, Settle \/ UNCHANGED vars PROVE Types'
<1>1. CASE Settle
  <2>1. WindowsOK'
    BY <1>1 DEF Types, WindowsOK, Settle
  <2> QED BY <1>1, <2>1 DEF Types, FlowOK, JobOK, ViewOK, Settle, asking, view, change
<1>2. CASE UNCHANGED vars
  BY <1>2 DEF Types, WindowsOK, FlowOK, JobOK, ViewOK, vars
<1> QED BY <1>1, <1>2

LEMMA NextIs == [Next]_vars <=> Viewing \/ Answering \/ Work \/ Settle \/ UNCHANGED vars
BY DEF Next, Viewing, Answering, Work

LEMMA TypesStep == Types /\ [Next]_vars => Types'
BY NextIs, ViewingTypes, AnsweringTypes, WorkTypes, OtherTypes

\* The state keeps its types, for any adapters and addresses; a change under way
\* has an adapter, and a reload ends within its three attempts.
THEOREM TypeCorrect == Spec => []TypeOK
BY InitTypes, TypesStep, TypesImply, PTL DEF Spec

-----------------------------------------------------------------------------
(* How far a change has come *)

\* With the commands cmds left, what was old has become new.
Left(cmds, old, new) ==
    LET to == job.target
    IN \/ cmds = CommandsFor(to) /\ new = old
       \/ /\ cmds = (IF Len(to.dns) = 2 THEN <<"dns", "second_dns">> ELSE <<"dns">>)
          /\ new = [addr |-> to.addr, dns |-> old.dns]
       \/ /\ cmds = <<"second_dns">> /\ Len(to.dns) = 2
          /\ new = [addr |-> to.addr, dns |-> <<to.dns[1]>>]
       \/ cmds = <<>> /\ new = to

Reported == phase \in {"idle", "asking"} /\ message \in {"applied", "reload_failed"}

\* The inductive invariant behind AppliedIsReal and ChangeIsPrefix.
Progress ==
    /\ \A a \in Adapters : a # job.adapter => real[a] = before[a]
    /\ job = NoJob => phase \in {"idle", "asking"} /\ ~Reported
    /\ job # NoJob => \E cmds : Left(cmds, before[job.adapter], real[job.adapter])
    /\ phase = "commands" => Left(commands, before[job.adapter], real[job.adapter])
    /\ phase = "reload" \/ Reported => real[job.adapter] = job.target

LEMMA JobIs ==
    ASSUME Types, job # NoJob
    PROVE  /\ job.adapter \in Adapters /\ job.target \in Targets
           /\ real[job.adapter] \in Configs /\ before[job.adapter] \in Configs
BY DEF Types, JobOK, WindowsOK, Requests

LEMMA LeftIsPrefix ==
    ASSUME Types, job # NoJob, NEW cmds, Left(cmds, before[job.adapter], real[job.adapter])
    PROVE  ChangeIsPrefix
BY DEF Left, ChangeIsPrefix

LEMMA ProgressImplies == Types /\ Progress => AppliedIsReal /\ ChangeIsPrefix
<1> SUFFICES ASSUME Types, Progress PROVE AppliedIsReal /\ ChangeIsPrefix
  OBVIOUS
<1>1. AppliedIsReal
  BY DEF Progress, Reported, AppliedIsReal
<1>2. CASE job = NoJob
  BY <1>1, <1>2 DEF ChangeIsPrefix
<1>3. CASE job # NoJob
  BY <1>1, <1>3, LeftIsPrefix DEF Progress
<1> QED BY <1>2, <1>3

\* The next command of those left does the next thing.
LEMMA LeftStep ==
    ASSUME NEW cmds, cmds # <<>>, NEW old \in Configs, NEW new \in Configs,
           job.target \in Targets, Left(cmds, old, new)
    PROVE  Left(Tail(cmds), old, AfterCommand(new, Head(cmds)))
<1> DEFINE to == job.target
           two == Len(to.dns) = 2
<1>0. to.dns \in DnsLists
  BY DEF Targets
<1>1. CASE cmds = CommandsFor(to) /\ new = old
  <2>1. Head(cmds) = "address"
    BY <1>1 DEF CommandsFor
  <2>2. Tail(cmds) = (IF two THEN <<"dns", "second_dns">> ELSE <<"dns">>)
    BY <1>1 DEF CommandsFor
  <2>3. AfterCommand(new, "address") = [addr |-> to.addr, dns |-> old.dns]
    BY <1>1 DEF AfterCommand, Configs
  <2> QED BY <2>1, <2>2, <2>3 DEF Left
<1>2. CASE /\ cmds = (IF two THEN <<"dns", "second_dns">> ELSE <<"dns">>)
           /\ new = [addr |-> to.addr, dns |-> old.dns]
  <2>1. Head(cmds) = "dns"
    BY <1>2
  <2>2. AfterCommand(new, "dns")
        = [addr |-> to.addr, dns |-> IF to.dns = <<>> THEN <<>> ELSE <<to.dns[1]>>]
    BY <1>2 DEF AfterCommand
  <2>3. CASE two
    <3>1. Tail(cmds) = <<"second_dns">>
      BY <1>2, <2>3
    <3>2. AfterCommand(new, "dns") = [addr |-> to.addr, dns |-> <<to.dns[1]>>]
      BY <1>0, <2>2, <2>3, ListFacts
    <3> QED BY <2>1, <2>3, <3>1, <3>2 DEF Left
  <2>4. CASE ~two
    <3>1. Tail(cmds) = <<>>
      BY <1>2, <2>4
    <3>2. to.dns = (IF to.dns = <<>> THEN <<>> ELSE <<to.dns[1]>>)
      BY <1>0, <2>4, ListFacts
    <3>3. AfterCommand(new, "dns") = to
      BY <2>2, <3>2 DEF Targets
    <3> QED BY <2>1, <3>1, <3>3 DEF Left
  <2> QED BY <2>3, <2>4
<1>3. CASE /\ cmds = <<"second_dns">> /\ two
           /\ new = [addr |-> to.addr, dns |-> <<to.dns[1]>>]
  <2>1. Head(cmds) = "second_dns" /\ Tail(cmds) = <<>>
    BY <1>3
  <2>2. AfterCommand(new, "second_dns")
        = [addr |-> to.addr, dns |-> Append(<<to.dns[1]>>, to.dns[2])]
    BY <1>3 DEF AfterCommand
  <2>3. AfterCommand(new, "second_dns") = to
    BY <1>0, <1>3, <2>2, ListFacts DEF Targets
  <2> QED BY <2>1, <2>3 DEF Left
<1> QED BY <1>1, <1>2, <1>3 DEF Left

\* Steps that touch neither the configurations nor the change.
LEMMA ProgressStays ==
    ASSUME Progress, UNCHANGED <<real, before, job, commands>>,
           \/ UNCHANGED <<phase, message>>
           \/ phase \in {"idle", "asking"} /\ phase' \in {"idle", "asking"}
                 /\ (message' = message \/ message' \notin {"applied", "reload_failed"})
           \/ phase = "reload" /\ phase' \in {"idle", "reload"}
           \/ phase = "commands" /\ phase' = "idle" /\ message' = "failed"
    PROVE  Progress'
BY DEF Progress, Reported, Left

LEMMA RunCommandKeeps == ASSUME Types, Progress, RunCommand PROVE Progress'
<1>1. /\ phase = "commands" /\ phase' = "commands" /\ job' = job /\ before' = before
      /\ commands # <<>> /\ commands' = Tail(commands)
      /\ real' = [real EXCEPT ![job.adapter] = AfterCommand(real[job.adapter], Head(commands))]
  BY DEF RunCommand
<1>2. job # NoJob
  BY <1>1 DEF Progress
<1>3. real \in [Adapters -> Configs] /\ job.adapter \in Adapters
  BY <1>2, JobIs DEF Types, WindowsOK
<1>4. real'[job.adapter] = AfterCommand(real[job.adapter], Head(commands))
  BY <1>1, <1>3
<1>5. \A a \in Adapters : a # job.adapter => real'[a] = real[a]
  BY <1>1, <1>3
<1>6. Left(commands', before[job.adapter], real'[job.adapter])
  BY <1>1, <1>2, <1>4, JobIs, LeftStep DEF Progress
<1>7. Left(commands, before[job.adapter], real[job.adapter])'
  BY <1>1, <1>6 DEF Left
<1>8. \A a \in Adapters : a # job'.adapter => real'[a] = before'[a]
  BY <1>1, <1>5 DEF Progress
<1>9. \E cmds : Left(cmds, before[job.adapter], real[job.adapter])'
  BY <1>7
<1> QED BY <1>1, <1>2, <1>7, <1>8, <1>9 DEF Progress, Reported

LEMMA StartKeeps ==
    ASSUME Types, NEW target \in Targets, Start(target)
    PROVE  Progress'
<1>1. /\ phase' = "commands" /\ real' = real /\ before' = real
      /\ job'.target = target /\ commands' = CommandsFor(target)
  BY DEF Start, windows
<1>2. job' # NoJob
  BY StartTypes, NetworkAssumption DEF Requests, NoJob
<1>3. Left(commands, before[job.adapter], real[job.adapter])'
  BY <1>1 DEF Left, CommandsFor
<1> QED BY <1>1, <1>2, <1>3 DEF Progress, Reported

LEMMA ProgressStep == Types /\ Progress /\ [Next]_vars => Progress'
<1> SUFFICES ASSUME Types, Progress, [Next]_vars PROVE Progress'
  OBVIOUS
<1>1. CASE Viewing
  <2>1. UNCHANGED <<real, before, job, commands, phase>>
    BY <1>1 DEF Viewing, FirstVisit, LoadAdapters, LoadFails, AdapterChanged, FillIn,
                windows, change
  <2>2. \/ message' = message
        \/ phase \in {"idle", "asking"} /\ message' \notin {"applied", "reload_failed"}
    <3>1. CASE LoadAdapters \/ LoadFails
      <4>1. Loading
        BY <3>1 DEF LoadAdapters, LoadFails
      <4>2. message' \in {"not_found", "loaded", "load_failed"}
        BY <3>1 DEF LoadAdapters, LoadFails
      <4> QED BY <4>1, <4>2, LoadingIs DEF Types
    <3>2. CASE FirstVisit \/ AdapterChanged \/ FillIn
      BY <3>2 DEF FirstVisit, AdapterChanged, FillIn
    <3> QED BY <1>1, <3>1, <3>2 DEF Viewing
  <2> QED BY <2>1, <2>2, ProgressStays
<1>2. CASE Ask \/ AnswerNo \/ Refuse
  <2>1. UNCHANGED <<real, before, job, commands>>
    BY <1>2 DEF Ask, AnswerNo, Refuse, windows, change
  <2>2. /\ phase \in {"idle", "asking"} /\ phase' \in {"idle", "asking"}
        /\ message' = message \/ message' \in {"input_error", "failed"}
    BY <1>2 DEF Ask, AnswerNo, Refuse
  <2> QED BY <2>1, <2>2, ProgressStays
<1>3. CASE ApplyStaticIp
  <2>1. PICK ip \in Addresses, dns \in DnsLists : Start([addr |-> ip, dns |-> dns])
    BY <1>3 DEF ApplyStaticIp
  <2>2. [addr |-> ip, dns |-> dns] \in Targets
    BY DEF Targets
  <2> QED BY <2>1, <2>2, StartKeeps
<1>4. CASE SetDhcp
  BY <1>4, StartKeeps, NetworkAssumption DEF SetDhcp, DhcpConfig, Targets
<1>5. CASE RunCommand
  BY <1>5, RunCommandKeeps
<1>6. CASE CommandFails
  <2>1. /\ phase = "commands" /\ phase' = "idle" /\ message' = "failed"
        /\ UNCHANGED <<real, before, job>>
    BY <1>6 DEF CommandFails, windows
  <2> QED BY <2>1 DEF Progress, Reported, Left
<1>7. CASE CommandsDone
  <2>1. /\ phase = "commands" /\ phase' = "reload" /\ commands = <<>>
        /\ UNCHANGED <<real, before, job, commands>>
    BY <1>7 DEF CommandsDone, windows, change
  <2>2. job # NoJob
    BY <2>1 DEF Progress
  <2>3. real[job.adapter] = job.target
    <3>1. CommandsFor(job.target) # <<>>
      BY DEF CommandsFor
    <3> QED BY <2>1, <3>1 DEF Progress, Left
  <2> QED BY <2>1, <2>2, <2>3 DEF Progress, Reported, Left
<1>8. CASE Reload
  BY <1>8, ProgressStays DEF Reload, Relist, EndReload, windows
<1>9. CASE ReloadRaises
  BY <1>9, ProgressStays DEF ReloadRaises, EndReload, windows
<1>10. CASE Settle \/ UNCHANGED vars
  BY <1>10, ProgressStays DEF Settle, vars, change
<1> QED BY <1>1, <1>2, <1>3, <1>4, <1>5, <1>6, <1>7, <1>8, <1>9, <1>10, NextIs
        DEF Answering, Work

LEMMA InitProgress == Init => Progress
BY DEF Init, Progress, Reported

\* A change reported as done is there in full on its adapter, for any adapters,
\* addresses and number of changes before.
THEOREM AppliedStaysReal == Spec => []AppliedIsReal
BY InitTypes, TypesStep, InitProgress, ProgressStep, ProgressImplies, PTL DEF Spec

\* At any time what the last change has left on its adapter is what a prefix of
\* its commands makes.
THEOREM ChangeStaysPrefix == Spec => []ChangeIsPrefix
BY InitTypes, TypesStep, InitProgress, ProgressStep, ProgressImplies, PTL DEF Spec

-----------------------------------------------------------------------------
(* Which adapter changes *)

\* The inductive invariant behind OnlyAskedAdapterChanges: the combo box, the
\* table and the form agree, and what is asked is about the combo box unless it
\* was filled anew.
Agreed ==
    /\ combo.current # NoAdapter =>
          /\ selected # NoSelection => selected.name = combo.current
          /\ form.from \in {combo.current, NoAdapter} \/ form.kept
    /\ phase \in {"asking", "commands"} =>
           question.adapter = combo.current \/ question.refilled
    /\ phase \in {"commands", "reload"} => combo.current = job.adapter

LEMMA AgreedImplies == Types /\ Progress /\ Agreed => OnlyAskedAdapterChanges
<1> SUFFICES ASSUME Types, Progress, Agreed PROVE OnlyAskedAdapterChanges
  OBVIOUS
<1>1. \A a \in Adapters : real[a] # before[a] => a = job.adapter
  BY DEF Progress
<1>2. ASSUME phase = "commands"
      PROVE  /\ combo.current = job.adapter
             /\ question.adapter = job.adapter \/ question.refilled
             /\ selected # NoSelection => selected.name = job.adapter
             /\ form.from \in {job.adapter, NoAdapter} \/ form.kept
  <2>1. combo.current = job.adapter /\ combo.current # NoAdapter
    BY <1>2, NetworkAssumption DEF Agreed, Types, JobOK, Requests
  <2> QED BY <1>2, <2>1 DEF Agreed
<1> QED BY <1>1, <1>2 DEF OnlyAskedAdapterChanges

\* Steps of a change under way leave the view and the question alone.
LEMMA AgreedStays ==
    ASSUME Agreed, UNCHANGED <<combo, selected, form, job>>,
           \/ UNCHANGED <<phase, question>>
           \/ phase' = "idle"
           \/ phase = "commands" /\ phase' = "reload"
           \/ phase = "reload" /\ phase' = "reload"
    PROVE  Agreed'
BY DEF Agreed

LEMMA ViewingAgrees == ASSUME Types, Agreed, Viewing PROVE Agreed'
<1>1. CASE FirstVisit
  BY <1>1, AgreedStays DEF FirstVisit, view, change
<1>2. ASSUME Loading, phase' = phase,
             combo'.current # NoAdapter =>
                 /\ selected' # NoSelection => selected'.name = combo'.current
                 /\ form'.kept \/ form'.from = combo'.current
      PROVE  Agreed'
  <2>1. phase' \notin {"commands", "reload"}
    BY <1>2, LoadingIs DEF Types
  <2>2. phase' = "asking" => question'.refilled
    <3>1. ASSUME phase' = "asking" PROVE question' = [question EXCEPT !.refilled = TRUE]
      BY <1>2, <3>1, LoadingIs DEF Types
    <3>2. question \in Questions
      BY DEF Types, FlowOK
    <3> QED BY <3>1, <3>2 DEF Questions
  <2> QED BY <1>2, <2>1, <2>2 DEF Agreed
<1>3. CASE LoadAdapters
  <2>1. Loading /\ phase' = phase
    BY <1>3 DEF LoadAdapters
  <2> QED BY <1>2, <1>3, <2>1, LoadAdaptersIs
<1>4. CASE LoadFails
  <2>1. Loading /\ phase' = phase /\ combo'.current = NoAdapter
    BY <1>4 DEF LoadFails, EmptyCombo
  <2> QED BY <1>2, <2>1
<1>5. CASE AdapterChanged
  <2>1. PICK name \in combo.names \ {combo.current} :
            /\ combo' = [combo EXCEPT !.current = name]
            /\ selected' = Select(adapters, name)
            /\ form' = Filled(selected')
    BY <1>5 DEF AdapterChanged
  <2>2. combo'.current = name
    BY <2>1 DEF Types, ViewOK
  <2>3. selected' # NoSelection => selected'.name = name
    BY <2>1, SelectTypes DEF Types, ViewOK
  <2>4. form'.kept \/ form'.from = name
    <3>1. selected' \in {NoSelection} \cup [name : Adapters, info : Infos]
      BY <2>1, SelectTypes DEF Types, ViewOK
    <3> QED BY <2>1, <2>3, <3>1, FilledTypes DEF Types, ViewOK
  <2>5. phase' = "idle"
    BY <1>5 DEF AdapterChanged
  <2> QED BY <2>2, <2>3, <2>4, <2>5 DEF Agreed
<1>6. CASE FillIn
  BY <1>6 DEF FillIn, Agreed, EmptyForm
<1> QED BY <1>1, <1>3, <1>4, <1>5, <1>6 DEF Viewing

LEMMA AnsweringAgrees == ASSUME Types, Agreed, Answering PROVE Agreed'
<1>1. CASE Ask
  BY <1>1 DEF Ask, Agreed, view
<1>2. CASE AnswerNo \/ Refuse
  BY <1>2, AgreedStays DEF AnswerNo, Refuse, view, change
<1>3. ASSUME NEW target, Start(target) PROVE Agreed'
  <2>1. /\ phase = "asking" /\ phase' = "commands"
        /\ UNCHANGED <<combo, selected, form, question>>
        /\ job'.adapter = combo.current
    BY <1>3 DEF Start, asking, view
  <2> QED BY <2>1 DEF Agreed
<1>4. CASE ApplyStaticIp
  BY <1>3, <1>4 DEF ApplyStaticIp
<1>5. CASE SetDhcp
  BY <1>3, <1>5 DEF SetDhcp
<1> QED BY <1>1, <1>2, <1>4, <1>5 DEF Answering

LEMMA WorkAgrees == ASSUME Types, Agreed, Work PROVE Agreed'
<1>1. CASE RunCommand
  BY <1>1, AgreedStays DEF RunCommand, view, asking
<1>2. CASE CommandFails
  BY <1>2, AgreedStays DEF CommandFails, view
<1>3. CASE CommandsDone
  BY <1>3, AgreedStays DEF CommandsDone, view, change
<1>4. CASE Reload
  <2>1. /\ combo' = combo /\ form' = form
        /\ selected' # NoSelection => selected'.name = job.adapter
    BY <1>4, RelistIs DEF Reload
  <2>2. phase = "reload" /\ phase' \in {"idle", "reload"} /\ job' = job
    BY <1>4 DEF Reload, Relist, EndReload
  <2> QED BY <2>1, <2>2 DEF Agreed
<1>5. CASE ReloadRaises
  BY <1>5, AgreedStays DEF ReloadRaises, EndReload, view
<1> QED BY <1>1, <1>2, <1>3, <1>4, <1>5 DEF Work

LEMMA AgreedStep == Types /\ Agreed /\ [Next]_vars => Agreed'
<1> SUFFICES ASSUME Types, Agreed, [Next]_vars PROVE Agreed'
  OBVIOUS
<1>1. CASE Settle \/ UNCHANGED vars
  BY <1>1, AgreedStays DEF Settle, vars, view, change, asking
<1> QED BY <1>1, NextIs, ViewingAgrees, AnsweringAgrees, WorkAgrees

LEMMA InitAgreed == Init => Agreed
BY DEF Init, Agreed, EmptyCombo, EmptyForm

\* A change goes to the adapter that was shown when the question was asked,
\* unless the first load came in between, and to no other; the table agrees, and
\* so does the form unless it was kept for want of an adapter.
THEOREM OnlyAskedAdapterEverChanges == Spec => []OnlyAskedAdapterChanges
BY InitTypes, TypesStep, InitProgress, ProgressStep, InitAgreed, AgreedStep, AgreedImplies,
   PTL DEF Spec

-----------------------------------------------------------------------------
(* When a reload gives up *)

Successful == phase = "reload" => message = "applied"

LEMMA SuccessfulStep == Types /\ Successful /\ [Next]_vars => Successful'
<1> SUFFICES ASSUME Types, Successful, [Next]_vars PROVE Successful'
  OBVIOUS
<1>1. CASE Viewing
  <2>1. phase' = phase /\ phase # "reload"
    <3>1. Loading => phase # "reload"
      BY LoadingIs DEF Types
    <3> QED BY <1>1, <3>1 DEF Viewing, FirstVisit, LoadAdapters, LoadFails, AdapterChanged,
                              FillIn
  <2> QED BY <2>1 DEF Successful
<1>2. CASE Answering
  BY <1>2 DEF Answering, Ask, AnswerNo, Refuse, ApplyStaticIp, SetDhcp, Start, Successful
<1>3. CASE Work
  BY <1>3 DEF Work, RunCommand, CommandFails, CommandsDone, Reload, Relist, ReloadRaises,
              EndReload, Successful
<1>4. CASE Settle \/ UNCHANGED vars
  BY <1>4 DEF Settle, vars, Successful
<1> QED BY <1>1, <1>2, <1>3, <1>4, NextIs

\* What the page shows, or what was tried, when a reload ends.
ShownOrTried ==
    \/ /\ message' = "applied"
       /\ selected'.name = job.adapter
       /\ \/ selected'.info.addr = job.target.addr
          \/ job.target.addr = "dhcp" /\ ~selected'.info.dhcpKnown
    \/ attempt' = MaxAttempts /\ (lastError' => message' = "reload_failed")

LEMMA TriesEnough ==
    ASSUME Types, Successful, [Next]_vars, phase = "reload", phase' = "idle"
    PROVE  ShownOrTried
<1>1. message = "applied"
  BY DEF Successful
<1>2. Reload \/ ReloadRaises
  <2>1. ~Viewing
    <3>1. Loading => phase # "reload"
      BY LoadingIs DEF Types
    <3> QED BY <3>1 DEF Viewing, FirstVisit, LoadAdapters, LoadFails, AdapterChanged, FillIn
  <2>2. ~Answering
    BY DEF Answering, Ask, AnswerNo, Refuse, ApplyStaticIp, SetDhcp, Start
  <2>3. ~Settle /\ ~UNCHANGED vars
    BY DEF Settle, vars
  <2> QED BY <2>1, <2>2, <2>3, NextIs DEF Work, RunCommand, CommandFails, CommandsDone
<1>3. CASE ReloadRaises
  <2>1. attempt' = MaxAttempts
    BY <1>3 DEF ReloadRaises
  <2> QED BY <1>3, <2>1 DEF ReloadRaises, EndReload, ShownOrTried
<1>4. CASE Reload
  <2>1. CASE ShowsTarget(selected')
    <3>1. selected' # NoSelection /\ message' = "applied"
      BY <1>1, <1>4, <2>1 DEF Reload, EndReload, ShowsTarget
    <3>2. selected'.name = job.adapter /\ ViewOK'
      BY <1>4, <3>1, RelistIs DEF Reload
    <3>3. selected'.info.dhcpKnown \in BOOLEAN
      BY <3>1, <3>2 DEF ViewOK, Infos
    <3>4. job.target.addr \in Addresses \cup {"dhcp"}
      BY DEF Types, JobOK, Requests, Targets
    <3>5. \/ selected'.info.addr = job.target.addr
          \/ job.target.addr = "dhcp" /\ ~selected'.info.dhcpKnown
      BY <2>1, <3>3, <3>4 DEF ShowsTarget
    <3> QED BY <3>1, <3>2, <3>5 DEF ShownOrTried
  <2>2. CASE ~ShowsTarget(selected')
    <3>1. attempt' = MaxAttempts /\ EndReload(lastError) /\ lastError' = lastError
      BY <1>4, <2>2 DEF Reload, Relist
    <3> QED BY <3>1 DEF EndReload, ShownOrTried
  <2> QED BY <2>1, <2>2
<1> QED BY <1>2, <1>3, <1>4

\* A reload ends with success only when it shows the address asked for (or a DHCP
\* switch whose state is not known); else it has made three attempts and does not
\* hide that one raised.
THEOREM ReloadAlwaysTriesEnough == Spec => ReloadTriesEnough
<1>1. Init => Successful
  BY DEF Init, Successful
<1>2. Types /\ Successful /\ [Next]_vars
      => [phase = "reload" /\ phase' = "idle" => ShownOrTried]_vars
  BY TriesEnough
<1> QED BY <1>1, <1>2, InitTypes, TypesStep, SuccessfulStep, PTL
        DEF Spec, ReloadTriesEnough, ShownOrTried
=============================================================================
