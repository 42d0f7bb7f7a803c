---------------------------- MODULE Provisioning ----------------------------
(***************************************************************************)
(* From the dealer to the link: the dealer writes one bundle per party     *)
(* (src/preprocessing.rs), each party loads the netlist and its bundle,    *)
(* checks one against the other (Party::new in src/protocol.rs) and        *)
(* connects (Channel::connect in src/net.rs).                              *)
(*                                                                         *)
(* Dealer and parties are processes started by hand that meet in files.    *)
(* Nothing orders them: the configuration may be edited and the dealer run *)
(* again while the parties start, and every process may be killed.         *)
(***************************************************************************)
EXTENDS Parties, Settings

CONSTANTS
  EnvFiles,      \* what `.env` may say
  Environments,  \* the variables a process may be started with
  CircuitFiles,  \* what the netlist files may hold: a function from paths
  InputFiles,    \* what a file of inputs may say
  NoCircuit,     \* what a file holds that is no netlist
  Triples,       \* how many triples each netlist needs
  InputOwners,   \* and which parties' inputs
  Retries,       \* CONNECT_RETRIES
  MaxDeals,      \* bound on the dealer's runs
  MaxEdits       \* bound on the changes of the files

Netlists == DOMAIN Triples

ASSUME ProvisioningAssumption ==
  /\ \A n \in Netlists : Triples[n] \in Nat /\ InputOwners[n] \subseteq Party
  /\ NoCircuit \notin Netlists
  /\ \A f \in CircuitFiles : \A path \in DOMAIN f : f[path] \in Netlists \cup {NoCircuit}
  /\ Retries \in Nat \ {0}
  /\ MaxDeals \in Nat
  /\ MaxEdits \in Nat

VARIABLES
  envFile,      \* what `.env` says now
  circuitFile,  \* what the netlist files hold now
  edits,        \* how often they have been changed
  dealer,       \* what the dealer does: nothing ("none"), reading its netlist,
                \* or the party whose file it is about to open or to fill
  deals,        \* how often it has been run
  dealing,      \* the setup the last run works from
  file,         \* preprocessing/party{0,1}.bin
  pc,           \* where each party is in main and Party::new
  chosen,       \* the setup it works from
  inputs,       \* the values of its input wires
  material,     \* the bundle it loaded
  tries,        \* the failed attempts of party 1 to connect
  listening,    \* whether party 0 has bound the address
  dialled       \* whether party 1 has connected to it

disk    == <<envFile, circuitFile, edits>>
offline == <<dealer, deals, dealing, file>>
loaded  == <<chosen, inputs, material>>
linking == <<tries, listening, dialled>>
vars    == <<disk, offline, pc, loaded, linking>>

(* What a process works from: its settings, which are read once, and the   *)
(* netlist, which is read after them.                                      *)
Unread      == [config |-> "unread"]
Setup(c, n) == [config |-> c, netlist |-> n]

(* What a bundle is checked against.                                       *)
Format(s) == <<s.config.n_bit, s.config.l_bit>>

(* A file that was truncated and not written yet does not deserialize.     *)
Absent == [state |-> "absent"]
Torn   == [state |-> "torn"]

Bundle(p, s, run) ==
  [state |-> "whole", party |-> p, format |-> Format(s), netlist |-> s.netlist,
   triples |-> Triples[s.netlist], run |-> run]

Idle == [doing |-> "none", party |-> 0]

IsSetup(s) ==
  /\ \A width \in {s.config.n_bit, s.config.i_bit, s.config.l_bit} : width \in 0 .. SizeRange - 1
  /\ s.netlist \in Netlists \cup {NoCircuit}

TypeOK ==
  /\ envFile \in EnvFiles /\ circuitFile \in CircuitFiles /\ edits \in 0 .. MaxEdits
  /\ dealer \in {Idle} \cup [doing : {"read", "open", "fill"}, party : Party]
  /\ deals \in 0 .. MaxDeals /\ (dealing = Unread \/ IsSetup(dealing))
  /\ \A b \in {file[p] : p \in Party} \cup {material[p] : p \in Party} :
       b \in {Absent, Torn} \/ (b.party \in Party /\ b.run \in 1 .. deals)
  /\ pc \in [Party -> {"new", "circuit", "load", "inputs", "connect", "accept",
                       "linked", "failed"}]
  /\ \A p \in Party : chosen[p] = Unread \/ IsSetup(chosen[p])
  /\ \A p \in Party :
       inputs[p] \in {<<>>} \cup {InputValues(f) : f \in {g \in InputFiles : InputFault(g) = "none"}}
  /\ tries \in 0 .. Retries
  /\ listening \in BOOLEAN /\ dialled \in BOOLEAN

Init ==
  /\ envFile \in EnvFiles /\ circuitFile \in CircuitFiles /\ edits = 0
  /\ dealer = Idle /\ deals = 0 /\ dealing = Unread
  /\ file = [p \in Party |-> Absent]
  /\ pc = [p \in Party |-> "new"]
  /\ chosen = [p \in Party |-> Unread]
  /\ inputs = [p \in Party |-> <<>>]
  /\ material = [p \in Party |-> Absent]
  /\ tries = 0 /\ listening = FALSE /\ dialled = FALSE

Goto(p, step) == pc' = [pc EXCEPT ![p] = step]

(* What the netlist at a path holds; there may be no such file.            *)
CircuitAt(path) == IF path \in DOMAIN circuitFile THEN circuitFile[path] ELSE NoCircuit

-----------------------------------------------------------------------------
(* The operator edits the settings or a netlist.                           *)
Edit ==
  /\ edits < MaxEdits
  /\ \/ envFile' \in EnvFiles \ {envFile} /\ UNCHANGED circuitFile
     \/ circuitFile' \in CircuitFiles \ {circuitFile} /\ UNCHANGED envFile
  /\ edits' = edits + 1
  /\ UNCHANGED <<offline, pc, loaded, linking>>

(* The dealer is run.  With faulty settings it ends at once.               *)
Deal ==
  /\ dealer = Idle
  /\ deals < MaxDeals
  /\ \E env \in Environments :
       /\ ConfigFault(env, envFile) = "none"
       /\ dealing' = Setup(Configuration(env, envFile), NoCircuit)
  /\ dealer' = [doing |-> "read", party |-> 0]
  /\ deals' = deals + 1
  /\ UNCHANGED <<disk, file, pc, loaded, linking>>

(* It loads the netlist, then deals from it and saves both bundles.        *)
DealerReads ==
  /\ dealer.doing = "read"
  /\ LET found == CircuitAt(dealing.config.circuit)
     IN  /\ dealing' = [dealing EXCEPT !.netlist = found]
         /\ dealer' = IF found = NoCircuit THEN Idle ELSE [dealer EXCEPT !.doing = "open"]
  /\ UNCHANGED <<disk, deals, file, pc, loaded, linking>>

(* fs::write truncates the file before it writes.                          *)
OpenFile ==
  /\ dealer.doing = "open"
  /\ file' = [file EXCEPT ![dealer.party] = Torn]
  /\ dealer' = [dealer EXCEPT !.doing = "fill"]
  /\ UNCHANGED <<disk, deals, dealing, pc, loaded, linking>>

(* Slip: the netlist is read again for each bundle.                        *)
FillFileAsConfigured ==
  /\ dealer.doing = "fill"
  /\ LET now == CircuitAt(dealing.config.circuit)
     IN  /\ now # NoCircuit
         /\ file' = [file EXCEPT ![dealer.party] =
                       Bundle(dealer.party, Setup(dealing.config, now), deals)]
  /\ dealer' = IF dealer.party = 0 THEN [doing |-> "open", party |-> 1] ELSE Idle
  /\ UNCHANGED <<disk, deals, dealing, pc, loaded, linking>>

FillFile ==
  /\ dealer.doing = "fill"
  /\ file' = [file EXCEPT ![dealer.party] = Bundle(dealer.party, dealing, deals)]
  /\ dealer' = IF dealer.party = 0 THEN [doing |-> "open", party |-> 1] ELSE Idle
  /\ UNCHANGED <<disk, deals, dealing, pc, loaded, linking>>

KillDealer ==
  /\ dealer # Idle
  /\ dealer' = Idle
  /\ UNCHANGED <<disk, deals, dealing, file, pc, loaded, linking>>

-----------------------------------------------------------------------------
(* main: the process reads its settings, and ends if they are faulty.      *)
Start(p) ==
  /\ pc[p] = "new"
  /\ \E env \in Environments :
       IF ConfigFault(env, envFile) = "none"
       THEN /\ chosen' = [chosen EXCEPT ![p] = Setup(Configuration(env, envFile), NoCircuit)]
            /\ Goto(p, "circuit")
       ELSE Goto(p, "failed") /\ UNCHANGED chosen
  /\ UNCHANGED <<disk, offline, inputs, material, linking>>

(* Party::new: the netlist, the bundle, the inputs, the link.              *)
LoadCircuit(p) ==
  /\ pc[p] = "circuit"
  /\ LET found == CircuitAt(chosen[p].config.circuit)
     IN  /\ chosen' = [chosen EXCEPT ![p].netlist = found]
         /\ Goto(p, IF found = NoCircuit THEN "failed" ELSE "load")
  /\ UNCHANGED <<disk, offline, inputs, material, linking>>

(* Slip: a bundle of any netlist will do if it is long enough.             *)
AcceptsAnyNetlist(p, bundle) ==
  /\ bundle.party = p
  /\ bundle.format = Format(chosen[p])
  /\ bundle.triples >= Triples[chosen[p].netlist]

(* Preprocessing::check.                                                   *)
Accepts(p, bundle) ==
  /\ bundle.party = p
  /\ bundle.format = Format(chosen[p])
  /\ bundle.netlist = chosen[p].netlist
  /\ bundle.triples >= Triples[chosen[p].netlist]

LoadMaterial(p) ==
  /\ pc[p] = "load"
  /\ file[p].state = "whole"
  /\ Accepts(p, file[p])
  /\ material' = [material EXCEPT ![p] = file[p]]
  /\ Goto(p, "inputs")
  /\ UNCHANGED <<disk, offline, chosen, inputs, linking>>

RefuseMaterial(p) ==
  /\ pc[p] = "load"
  /\ file[p].state = "whole" => ~Accepts(p, file[p])
  /\ Goto(p, "failed")
  /\ UNCHANGED <<disk, offline, loaded, linking>>

(* A party without inputs of its own reads no file of them.  The file may  *)
(* be missing or malformed.                                                *)
LoadInputs(p) ==
  /\ pc[p] = "inputs"
  /\ \/ /\ p \notin InputOwners[chosen[p].netlist]
        /\ Goto(p, "connect") /\ UNCHANGED inputs
     \/ /\ p \in InputOwners[chosen[p].netlist]
        /\ \E lines \in InputFiles :
             /\ InputFault(lines) = "none"
             /\ inputs' = [inputs EXCEPT ![p] = InputValues(lines)]
        /\ Goto(p, "connect")
     \/ /\ p \in InputOwners[chosen[p].netlist]
        /\ Goto(p, "failed") /\ UNCHANGED inputs
  /\ UNCHANGED <<disk, offline, chosen, material, linking>>

-----------------------------------------------------------------------------
(* Channel::connect.  Party 0 binds, or finds the address taken, and waits *)
(* for one connection.                                                     *)
Bind ==
  /\ pc[0] = "connect"
  /\ \/ Goto(0, "accept") /\ listening' = TRUE
     \/ Goto(0, "failed") /\ UNCHANGED listening
  /\ UNCHANGED <<disk, offline, loaded, tries, dialled>>

Accept ==
  /\ pc[0] = "accept"
  /\ dialled
  /\ listening' = FALSE
  /\ Goto(0, "linked")
  /\ UNCHANGED <<disk, offline, loaded, tries, dialled>>

(* Party 1 connects as soon as the address is bound.                       *)
Dial ==
  /\ pc[1] = "connect"
  /\ listening
  /\ dialled' = TRUE
  /\ Goto(1, "linked")
  /\ UNCHANGED <<disk, offline, loaded, tries, listening>>

(* Slips: the attempts are counted and not limited; they are not counted.  *)
RetryUnlimited ==
  /\ pc[1] = "connect"
  /\ ~listening
  /\ tries' = tries + 1
  /\ UNCHANGED <<disk, offline, pc, loaded, listening, dialled>>

RetryUncounted ==
  /\ pc[1] = "connect"
  /\ ~listening
  /\ UNCHANGED vars

(* Otherwise it backs off; after the last attempt it gives up.             *)
Retry ==
  /\ pc[1] = "connect"
  /\ ~listening
  /\ tries' = tries + 1
  /\ IF tries' < Retries THEN UNCHANGED pc ELSE Goto(1, "failed")
  /\ UNCHANGED <<disk, offline, loaded, listening, dialled>>

(* A party is killed while it starts.                                      *)
Kill(p) ==
  /\ pc[p] \in {"circuit", "load", "inputs", "connect", "accept"}
  /\ Goto(p, "failed")
  /\ listening' = (listening /\ p # 0)
  /\ UNCHANGED <<disk, offline, loaded, tries, dialled>>

(* Party 0 waits for a peer that will not come, or both are through.       *)
Rest ==
  /\ pc[1] \in {"linked", "failed"}
  /\ pc[0] = "accept" => ~dialled
  /\ pc[0] \in {"accept", "linked", "failed"}
  /\ UNCHANGED vars

Proceed(p) ==
  \/ LoadCircuit(p) \/ LoadMaterial(p) \/ RefuseMaterial(p) \/ LoadInputs(p)
  \/ p = 0 /\ (Bind \/ Accept)
  \/ p = 1 /\ (Dial \/ Retry)

Next ==
  \/ Edit
  \/ Deal \/ DealerReads \/ OpenFile \/ FillFile \/ KillDealer
  \/ \E p \in Party : Start(p) \/ Proceed(p) \/ Kill(p)
  \/ Rest

Spec == Init /\ [][Next]_vars

(* Nobody has to start a party; one that has been started is scheduled.   *)
FairSpec == Spec /\ \A p \in Party : WF_vars(Proceed(p))

-----------------------------------------------------------------------------
BothLinked == \A p \in Party : pc[p] = "linked"

(* What two parties must have in common: how a word reads, and the gates.  *)
Common(p) == <<Format(chosen[p]), chosen[p].netlist>>

(* "a party refuses material generated for a different circuit rather than *)
(* producing a silently wrong answer" (README.md:48-50): one run of the    *)
(* dealer, whenever it was killed, whatever was edited since and whatever  *)
(* is in the environment of each process, never makes two parties compute  *)
(* with halves that do not belong together, on different netlists or with  *)
(* words that mean different things.                                       *)
OneDealIsSafe ==
  BothLinked /\ deals < 2 =>
    /\ Common(0) = Common(1)
    /\ material[0].run = material[1].run

(* With more runs, what the parties hold may be of two of them.  But each  *)
(* half was made for the netlist and the format of the party that holds it,*)
(* and if they are of one run these are the same.                          *)
HalvesFit ==
  BothLinked =>
    /\ \A p \in Party : material[p] = Bundle(p, chosen[p], material[p].run)
    /\ material[0].run = material[1].run => Common(0) = Common(1)

(* Whatever a process works with has a width of at most a word, and splits *)
(* it so that the shifts by its fraction are of less than a word           *)
(* (config.rs:98).  In a build that does not check for overflow there is   *)
(* one exception: a fraction that is wider than the word, of a sum that    *)
(* has wrapped around.                                                     *)
WidthsAreUsable ==
  \A s \in {dealing, chosen[0], chosen[1]} :
    s # Unread =>
      /\ s.config.n_bit \in 2 .. 64
      /\ \/ s.config.l_bit <= s.config.n_bit - 2
         \/ ~Checked /\ s.config.l_bit > s.config.n_bit

(* "I_BIT + L_BIT must equal N_BIT" (config.rs:109) of whatever a process  *)
(* works with.                                                             *)
WidthsAddUp ==
  \A s \in {dealing, chosen[0], chosen[1]} :
    s # Unread => s.config.i_bit + s.config.l_bit = s.config.n_bit

(* A party that is connecting gets an answer.  Party 1 gets the link, or   *)
(* an error after the last of its attempts (net.rs:37-55).  Party 0 waits  *)
(* without a limit (net.rs:33), but only for a party 1 that has not been   *)
(* started or has failed.                                                  *)
LinkEnds ==
  /\ pc[1] = "connect" ~> pc[1] \in {"linked", "failed"}
  /\ pc[0] = "accept" ~> pc[0] # "accept" \/ pc[1] \in {"new", "failed"}
=============================================================================
