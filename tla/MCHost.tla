--------------------------------- MODULE MCHost ---------------------------------
(***************************************************************************)
(* The services of the host side by side.  They share no state: a          *)
(* behaviour is one of one service, named by part, and the others stay as  *)
(* they start.                                                             *)
(***************************************************************************)
EXTENDS Approvals, StartProperties, GeneratedRunner, HomeBackup, Delegations, TaskControl,
        Memory, Jobs, Calendar, Vault, ProfileHome, Authoring, Resolution, TLC

CONSTANTS
    PartNames,                          \* the services of this instance
    ra, rb, rc, past,                   \* runs
    create, delete, task, one, two,     \* actions and calls
    t1, t2,                             \* tool calls
    d1, d2, d3,                         \* delegations
    g1, g2, q1, q2, q3,                 \* agents and their questions
    tea, water, drink,                  \* facts and a topic
    j1, j2, s1, s2,                     \* job runs and sources
    e1, e2, e3, key,                    \* creates
    n1, n2, p1, p2,                     \* notes and proposals
    i1, i2,                             \* identities of Profiles
    light, heat, event, panel           \* capabilities

AskedBy == q1 :> g1 @@ q2 :> g1 @@ q3 :> g1
CarriedKey == e1 :> key @@ e2 :> key @@ e3 :> NoKey

(* Two revisions of one candidate and an imported bundle.  Each budget is  *)
(* a story of its own: a death in the life of a chain of repairs, failed   *)
(* writes in it (two, or one and an edit), a specification with executable *)
(* acceptance examples, and the import of a bundle.                        *)
Story(specs, changes, reviewed, imports, deaths, failures) ==
    [specs |-> specs, edits |-> changes, reviews |-> reviewed, imports |-> imports,
     crashes |-> deaths, faults |-> failures]

Bundle == Story(0, 0, 1, 2, 1, 1)
Stories ==
    {Story(1, 1, 2, 0, 1, 0), Story(1, 0, 1, 0, 0, 2), Story(1, 1, 1, 0, 0, 1), Story(2, 0, 1, 0, 0, 1),
     Bundle}

CapabilityDomain == light :> "home" @@ heat :> "home" @@ event :> "calendar" @@ panel :> "ui"

Offer(name, host, release, seams, provider, claims) ==
    [identity |-> Managed(name), version |-> 1, host |-> host,
     provenance |-> IF host THEN "dsh-core" ELSE "third-party",
     release |-> release, seams |-> seams, provider |-> provider, claims |-> claims,
     installs |-> FALSE, unbound |-> FALSE]

(* Nothing is offered; a plugin and a provider that are fit; some that are *)
(* not, for a reason each.                                                 *)
Fit == {Offer("lamp", TRUE, "unknown", {}, NoProvider, {light}),
        Offer("mirror", FALSE, "supported", {"calendar"}, "google", {event})}
UnfitOffers ==
    {Offer("old", FALSE, "other", {"home"}, NoProvider, {light}),
     Offer("loose", FALSE, "supported", {}, NoProvider, {light}),
     [Offer("script", FALSE, "supported", {"home"}, NoProvider, {light}) EXCEPT !.installs = TRUE],
     [Offer("wild", TRUE, "supported", {"home"}, NoProvider, {light}) EXCEPT !.unbound = TRUE]}

Answer(outcome, offers) == [status |-> outcome, offers |-> offers]
Claimed == {{light}, {heat, event}, {panel}}
SomeCatalogs == {Answer("ok", Fit), Answer("incomplete", UnfitOffers), Answer("unavailable", Fit)}

VARIABLE part

hostVars ==
    <<part, ticketVars, brokerVars, vars, runnerVars, backupVars, delegationVars, taskVars,
      memoryVars, jobVars, calendarVars, vaultVars, homeVars, authoringVars, resolutionVars>>

HostInit ==
    /\ part \in PartNames
    /\ TicketsInit /\ BrokerInit
    /\ Init /\ (part # "start" => lock = NoDir /\ partition = None)
    /\ RunnerInit /\ BackupInit /\ DelegationInit /\ TaskInit
    /\ MemoryInit /\ JobsInit /\ CalendarInit /\ VaultInit
    /\ AuthoringInit /\ (part # "authoring" => left = Bundle)
    /\ ResolutionInit /\ (part # "resolution" => catalog = Answer("unavailable", Fit))
    /\ ProfileInit /\ (part # "profile" => <<shipped, binding, owner, kept>> = <<i1, Nobody, Nobody, {}>>)

Only(name) ==
    /\ part = name /\ UNCHANGED part
    /\ name # "tickets" => UNCHANGED ticketVars
    /\ name # "broker" => UNCHANGED brokerVars
    /\ name # "start" => UNCHANGED vars
    /\ name # "runner" => UNCHANGED runnerVars
    /\ name # "backup" => UNCHANGED backupVars
    /\ name # "delegations" => UNCHANGED delegationVars
    /\ name # "tasks" => UNCHANGED taskVars
    /\ name # "memory" => UNCHANGED memoryVars
    /\ name # "jobs" => UNCHANGED jobVars
    /\ name # "calendar" => UNCHANGED calendarVars
    /\ name # "vault" => UNCHANGED vaultVars
    /\ name # "profile" => UNCHANGED homeVars
    /\ name # "authoring" => UNCHANGED authoringVars
    /\ name # "resolution" => UNCHANGED resolutionVars

HostNext ==
    \/ Only("tickets") /\ TicketsNext
    \/ Only("broker") /\ BrokerNext
    \/ Only("start") /\ Next
    \/ Only("runner") /\ RunnerNext
    \/ Only("backup") /\ BackupNext
    \/ Only("delegations") /\ DelegationNext
    \/ Only("tasks") /\ TaskNext
    \/ Only("memory") /\ MemoryNext
    \/ Only("jobs") /\ JobsNext
    \/ Only("calendar") /\ CalendarNext
    \/ Only("vault") /\ VaultNext
    \/ Only("profile") /\ ProfileNext
    \/ Only("authoring") /\ AuthoringNext
    \/ Only("resolution") /\ ResolutionNext

HostSpec == HostInit /\ [][HostNext]_hostVars
=============================================================================
