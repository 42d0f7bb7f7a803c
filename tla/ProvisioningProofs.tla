------------------------- MODULE ProvisioningProofs -------------------------
(***************************************************************************)
(* What two linked parties hold belongs together, however often the dealer *)
(* is run, whatever is edited and whoever is killed.                       *)
(***************************************************************************)
EXTENDS Provisioning, TLAPS

LEMMA TwoParties == Party = {0, 1}
BY DEF Party

(* The bundles that exist, on disk or loaded, and what is true of each.    *)
OfRun(b, p) ==
  /\ b = [state |-> "whole", party |-> p, format |-> b.format, netlist |-> b.netlist,
          triples |-> Triples[b.netlist], run |-> b.run]
  /\ b.run \in 1 .. deals

Held == {b \in {file[0], file[1], material[0], material[1]} : b.state = "whole"}

Alike(b, c) == b.format = c.format /\ b.netlist = c.netlist

HeldFits ==
  /\ \A p \in Party : file[p].state = "whole" => OfRun(file[p], p)
  /\ \A p \in Party : material[p].state = "whole" => OfRun(material[p], p)

(* Bundles of one run are for one netlist and one format, and those of the *)
(* run in progress are for what that run works from.                       *)
RunsAgree == \A b, c \in Held : b.run = c.run => Alike(b, c)

RunInProgress ==
  /\ dealer.doing = "read" => \A b \in Held : b.run < deals
  /\ dealer.doing \in {"open", "fill"} =>
       \A b \in Held : b.run = deals =>
         b.format = Format(dealing) /\ b.netlist = dealing.netlist

(* A party that is past its check holds a bundle it was checked against.   *)
Matched(p) ==
  pc[p] \in {"inputs", "connect", "accept", "linked"} =>
    /\ material[p].state = "whole"
    /\ material[p].format = Format(chosen[p])
    /\ material[p].netlist = chosen[p].netlist

Shaped ==
  /\ deals \in Nat
  /\ dealer.doing # "none" => deals > 0
  /\ dealer \in {Idle} \cup [doing : {"read", "open", "fill"}, party : Party]
  /\ DOMAIN file = Party /\ DOMAIN material = Party /\ DOMAIN pc = Party /\ DOMAIN chosen = Party

ProvisioningInv ==
  /\ Shaped
  /\ HeldFits
  /\ RunsAgree
  /\ RunInProgress
  /\ \A p \in Party : Matched(p)

LEMMA InitProvisioningInv == Init => ProvisioningInv
BY TwoParties DEF Init, ProvisioningInv, Shaped, HeldFits, RunsAgree, RunInProgress, Matched,
   Held, Idle, Absent

(* Steps that make no bundle.                                              *)
LEMMA Quiet ==
  ASSUME ProvisioningInv, Shaped', deals' = deals,
         \A p \in Party : file'[p] = file[p] \/ file'[p].state # "whole",
         \A p \in Party : material'[p] = material[p] \/ material'[p] \in Held,
         \A p \in Party : material'[p].state = "whole" => OfRun(material'[p], p),
         \A p \in Party : Matched(p)',
         \/ dealer'.doing = "none"
         \/ dealer'.doing = "read" /\ dealer.doing = "read"
         \/ dealer'.doing \in {"open", "fill"} /\ dealer.doing = "read"
         \/ dealer'.doing \in {"open", "fill"} /\ dealer.doing \in {"open", "fill"}
              /\ dealing' = dealing
  PROVE  ProvisioningInv'
<1>1. Held' \subseteq Held
  BY TwoParties DEF Held
<1>2. HeldFits'
  BY TwoParties DEF ProvisioningInv, HeldFits, OfRun
<1>3. RunsAgree'
  BY <1>1 DEF ProvisioningInv, RunsAgree, Alike
<1>4. \A b \in Held : b.run \in 1 .. deals
  BY TwoParties DEF ProvisioningInv, HeldFits, Held, OfRun
<1>5. RunInProgress'
  BY <1>1, <1>4 DEF ProvisioningInv, RunInProgress, Format, Shaped
<1> QED BY <1>2, <1>3, <1>5 DEF ProvisioningInv

(* Edits, and steps of the parties that load nothing: the bundles stay.    *)
LEMMA NothingLoaded ==
  ASSUME ProvisioningInv, UNCHANGED <<offline, material>>, DOMAIN pc' = Party,
         DOMAIN chosen' = Party, \A p \in Party : Matched(p)'
  PROVE  ProvisioningInv'
<1>1. Held' = Held
  BY DEF Held, offline
<1>2. /\ deals' = deals /\ dealing' = dealing /\ dealer' = dealer
      /\ file' = file /\ material' = material
  BY DEF offline
<1> QED
  BY <1>1, <1>2 DEF ProvisioningInv, Shaped, HeldFits, OfRun, RunsAgree, RunInProgress, Format

(* A party moves on: it passes no check, or it has passed it before.       *)
LEMMA Moves ==
  ASSUME ProvisioningInv, NEW p \in Party, NEW step,
         UNCHANGED <<offline, material>>, Goto(p, step),
         \/ chosen' = chosen /\ (pc[p] \in {"inputs", "connect", "accept", "linked"}
                                  \/ step \notin {"inputs", "connect", "accept", "linked"})
         \/ /\ \E s : chosen' = [chosen EXCEPT ![p] = s]
            /\ step \notin {"inputs", "connect", "accept", "linked"}
  PROVE  ProvisioningInv'
<1>1. /\ DOMAIN pc' = Party /\ DOMAIN chosen' = Party
      /\ pc'[p] = step
      /\ \A q \in Party \ {p} : pc'[q] = pc[q] /\ chosen'[q] = chosen[q]
  BY DEF ProvisioningInv, Shaped, Goto
<1>2. \A q \in Party : Matched(q)'
  BY <1>1 DEF ProvisioningInv, Matched, Format
<1> QED BY <1>1, <1>2, NothingLoaded

LEMMA DealerStep ==
  ASSUME ProvisioningInv, Deal \/ DealerReads \/ OpenFile \/ KillDealer
  PROVE  ProvisioningInv'
<1> USE TwoParties
<1>0. Shaped /\ HeldFits /\ RunInProgress
  BY DEF ProvisioningInv
<1>1. CASE Deal
  <2>1. deals' = deals + 1 /\ dealer' = [doing |-> "read", party |-> 0] /\ Held' = Held
    BY <1>1 DEF Deal, Held, loaded
  <2>2. Shaped'
    BY <1>0, <1>1, <2>1 DEF Deal, Shaped, loaded
  <2>3. HeldFits' /\ (\A b \in Held : b.run \in 1 .. deals)
    BY <1>0, <1>1, <2>1 DEF Deal, Shaped, HeldFits, Held, OfRun, loaded
  <2>4. RunsAgree' /\ RunInProgress'
    BY <1>0, <2>1, <2>3 DEF ProvisioningInv, RunsAgree, RunInProgress, Alike, Shaped
  <2>5. \A p \in Party : Matched(p)'
    BY <1>1 DEF Deal, ProvisioningInv, Matched, Format, loaded
  <2> QED BY <2>2, <2>3, <2>4, <2>5 DEF ProvisioningInv
<1>2. CASE DealerReads \/ OpenFile \/ KillDealer
  <2>1. UNCHANGED <<deals, pc, chosen, material>>
    BY <1>2 DEF DealerReads, OpenFile, KillDealer, loaded
  <2>2. \A p \in Party : Matched(p)'
    BY <2>1 DEF ProvisioningInv, Matched, Format
  <2>3. \A p \in Party : file'[p] = file[p] \/ file'[p].state # "whole"
    BY <1>0, <1>2 DEF Shaped, DealerReads, OpenFile, KillDealer, Torn
  <2>4. /\ Shaped'
        /\ \/ dealer'.doing = "none"
           \/ dealer'.doing = "read" /\ dealer.doing = "read"
           \/ dealer'.doing \in {"open", "fill"} /\ dealer.doing = "read"
           \/ dealer'.doing \in {"open", "fill"} /\ dealer.doing \in {"open", "fill"}
                /\ dealing' = dealing
    BY <1>0, <1>2, <2>1 DEF Shaped, DealerReads, OpenFile, KillDealer, Idle
  <2>5. \A p \in Party : material'[p].state = "whole" => OfRun(material'[p], p)
    BY <1>0, <2>1 DEF HeldFits
  <2> QED BY <2>1, <2>2, <2>3, <2>4, <2>5, Quiet
<1> QED BY <1>1, <1>2

LEMMA FillStep ==
  ASSUME ProvisioningInv, FillFile
  PROVE  ProvisioningInv'
<1> USE TwoParties
<1> DEFINE q == dealer.party
           new == Bundle(q, dealing, deals)
<1>1. /\ Shaped /\ HeldFits /\ RunsAgree /\ RunInProgress
      /\ dealer.doing = "fill" /\ q \in Party
      /\ file' = [file EXCEPT ![q] = new]
      /\ UNCHANGED <<deals, dealing, pc, chosen, material>>
  BY DEF ProvisioningInv, FillFile, Shaped, Idle, loaded
<1>2. /\ file'[q] = new
      /\ \A p \in Party \ {q} : file'[p] = file[p]
  BY <1>1 DEF Shaped
<1>3. Held' \subseteq Held \cup {new}
  BY <1>1, <1>2 DEF Held
<1>4. \A b \in Held : b.run \in 1 .. deals
  BY <1>1 DEF HeldFits, Held, OfRun
<1>5. /\ new.state = "whole" /\ new.party = q /\ new.run = deals
      /\ new.format = Format(dealing) /\ new.netlist = dealing.netlist
      /\ new = [state |-> "whole", party |-> q, format |-> new.format, netlist |-> new.netlist,
                triples |-> Triples[new.netlist], run |-> new.run]
  BY DEF Bundle
<1>6. deals \in 1 .. deals
  BY <1>1 DEF Shaped
<1>7. HeldFits'
  BY <1>1, <1>2, <1>5, <1>6 DEF HeldFits, OfRun
<1>8. RunsAgree'
  BY <1>1, <1>3, <1>5 DEF RunsAgree, RunInProgress, Alike
<1>9. Shaped'
  BY <1>1 DEF FillFile, Shaped, Idle
<1>10. RunInProgress'
  BY <1>1, <1>3, <1>5 DEF RunInProgress, FillFile, Format, Idle
<1>11. \A p \in Party : Matched(p)'
  BY <1>1 DEF ProvisioningInv, Matched, Format
<1> QED BY <1>7, <1>8, <1>9, <1>10, <1>11 DEF ProvisioningInv

LEMMA LoadStep ==
  ASSUME ProvisioningInv, NEW p \in Party, LoadMaterial(p)
  PROVE  ProvisioningInv'
<1> USE TwoParties
<1>1. /\ Shaped /\ HeldFits
      /\ pc' = [pc EXCEPT ![p] = "inputs"]
      /\ material' = [material EXCEPT ![p] = file[p]]
      /\ file[p].state = "whole" /\ Accepts(p, file[p])
      /\ UNCHANGED <<deals, dealer, dealing, file, chosen>>
  BY DEF ProvisioningInv, LoadMaterial, Goto, offline
<1>2. /\ material'[p] = file[p] /\ pc'[p] = "inputs"
      /\ \A q \in Party \ {p} : material'[q] = material[q] /\ pc'[q] = pc[q]
  BY <1>1 DEF Shaped
<1>3. \A q \in Party : Matched(q)'
  BY <1>1, <1>2 DEF ProvisioningInv, Matched, Accepts, Format
<1>4. \A q \in Party : material'[q].state = "whole" => OfRun(material'[q], q)
  BY <1>1, <1>2 DEF HeldFits
<1>5. \A q \in Party : material'[q] = material[q] \/ material'[q] \in Held
  BY <1>1, <1>2 DEF Held
<1>6. Shaped'
  BY <1>1 DEF Shaped
<1>7. \A q \in Party : file'[q] = file[q] \/ file'[q].state # "whole"
  BY <1>1
<1>8. dealer.doing \in {"none", "read", "open", "fill"}
  BY <1>1 DEF Shaped, Idle
<1> QED BY <1>1, <1>3, <1>4, <1>5, <1>6, <1>7, <1>8, Quiet

LEMMA PartyStep ==
  ASSUME ProvisioningInv, NEW p \in Party, Start(p) \/ Proceed(p) \/ Kill(p)
  PROVE  ProvisioningInv'
<1>1. CASE LoadMaterial(p)
  BY <1>1, LoadStep
<1>2. CASE \/ Start(p) \/ LoadCircuit(p) \/ RefuseMaterial(p) \/ LoadInputs(p) \/ Kill(p)
  <2>1. UNCHANGED <<offline, material>>
    BY <1>2 DEF Start, LoadCircuit, RefuseMaterial, LoadInputs, Kill, loaded
  <2>2. CASE Start(p)
    BY <2>1, <2>2, Moves DEF Start
  <2>3. CASE LoadCircuit(p)
    BY <2>1, <2>3, Moves DEF LoadCircuit
  <2>4. CASE RefuseMaterial(p)
    BY <2>1, <2>4, Moves DEF RefuseMaterial, loaded
  <2>5. CASE LoadInputs(p)
    BY <2>1, <2>5, Moves DEF LoadInputs
  <2>6. CASE Kill(p)
    BY <2>1, <2>6, Moves DEF Kill, loaded
  <2> QED BY <1>2, <2>2, <2>3, <2>4, <2>5, <2>6
<1>3. CASE p = 0 /\ (Bind \/ Accept)
  <2>1. UNCHANGED <<offline, material, chosen>> /\ pc[0] \in {"connect", "accept"}
    BY <1>3 DEF Bind, Accept, loaded
  <2> QED BY <1>3, <2>1, Moves DEF Bind, Accept
<1>4. CASE p = 1 /\ (Dial \/ Retry)
  <2>1. UNCHANGED <<offline, material, chosen>> /\ pc[1] = "connect"
    BY <1>4 DEF Dial, Retry, loaded
  <2>2. CASE UNCHANGED pc
    BY <2>1, <2>2, NothingLoaded DEF ProvisioningInv, Shaped, Matched, Format
  <2> QED BY <1>4, <2>1, <2>2, Moves DEF Dial, Retry
<1> QED BY <1>1, <1>2, <1>3, <1>4 DEF Proceed

LEMMA NextProvisioningInv ==
  ASSUME ProvisioningInv, [Next]_vars
  PROVE  ProvisioningInv'
<1>1. CASE Edit \/ Rest \/ UNCHANGED vars
  <2>1. UNCHANGED <<offline, pc, chosen, material>>
    BY <1>1 DEF Edit, Rest, vars, loaded
  <2> QED BY <2>1, NothingLoaded DEF ProvisioningInv, Shaped, Matched, Format
<1> QED BY <1>1, DealerStep, FillStep, PartyStep DEF Next

LEMMA ProvisioningInvHolds == Spec => []ProvisioningInv
BY InitProvisioningInv, NextProvisioningInv, PTL DEF Spec

LEMMA LinkedFit ==
  ASSUME ProvisioningInv, BothLinked
  PROVE  \A p \in Party :
           /\ material[p] = Bundle(p, chosen[p], material[p].run)
           /\ material[p].run \in 1 .. deals
BY DEF ProvisioningInv, BothLinked, Matched, HeldFits, OfRun, Bundle

LEMMA LinkedAlike ==
  ASSUME ProvisioningInv, BothLinked, material[0].run = material[1].run
  PROVE  Common(0) = Common(1)
<1>1. {material[0], material[1]} \subseteq Held
  BY TwoParties DEF ProvisioningInv, BothLinked, Matched, Held
<1>2. Alike(material[0], material[1])
  BY <1>1 DEF ProvisioningInv, RunsAgree
<1> QED BY <1>2, TwoParties DEF ProvisioningInv, BothLinked, Matched, Common, Alike

(* What validate lets through.  A sum that has wrapped around is larger    *)
(* than the width by the range of a usize, of which the other summand is   *)
(* less.                                                                   *)
Proper(c) ==
  /\ c.n_bit \in 2 .. 64
  /\ c.l_bit <= c.n_bit - 2 \/ (~Checked /\ c.l_bit > c.n_bit)
  /\ Checked => c.i_bit + c.l_bit = c.n_bit
  /\ {c.n_bit, c.i_bit, c.l_bit} \subseteq 0 .. SizeRange - 1

LEMMA ValidWidths ==
  ASSUME NEW env, NEW lines, ConfigFault(env, lines) = "none"
  PROVE  Proper(Configuration(env, lines))
<1> DEFINE faulty == {k \in DOMAIN Keys : SettingFault(env, lines, Keys[k]) # "none"}
           width(key) == NumberOf[Setting(env, lines, key)]
<1>1. DOMAIN Keys = 1 .. 7 /\ Keys[1] = "N_BIT" /\ Keys[2] = "I_BIT" /\ Keys[3] = "L_BIT"
  BY DEF Keys
<1>2. faulty = {}
  <2>1. ~(\E i \in DOMAIN lines : lines[i] = Broken)
    BY DEF ConfigFault
  <2>2. SUFFICES ASSUME faulty # {} PROVE FALSE
    OBVIOUS
  <2>3. \E k \in faulty : \A j \in faulty : k <= j
    BY <1>1, <2>2
  <2>4. ConfigFault(env, lines)
          = SettingFault(env, lines, Keys[CHOOSE k \in faulty : \A j \in faulty : k <= j])
    BY <2>1, <2>2 DEF ConfigFault
  <2> QED BY <2>3, <2>4
<1>3. IsValid(width("N_BIT"), width("I_BIT"), width("L_BIT"))
  BY <1>2 DEF ConfigFault
<1>4. \A key \in Widths : width(key) \in 0 .. SizeRange - 1
  <2>1. \A k \in 1 .. 7 : SettingFault(env, lines, Keys[k]) = "none"
    BY <1>1, <1>2
  <2>2. \A key \in Widths : SettingFault(env, lines, key) = "none"
    BY <1>1, <2>1 DEF Widths
  <2>3. \A key \in Widths : Setting(env, lines, key) \in DOMAIN NumberOf
    BY <2>2 DEF SettingFault
  <2> QED BY <2>3, SettingsAssumption
<1> HIDE DEF width
<1> QED
  <2>1. /\ Configuration(env, lines).n_bit = width("N_BIT")
        /\ Configuration(env, lines).i_bit = width("I_BIT")
        /\ Configuration(env, lines).l_bit = width("L_BIT")
    BY DEF Configuration, width
  <2>2. {"N_BIT", "I_BIT", "L_BIT"} = Widths
    BY DEF Widths
  <2> DEFINE n == width("N_BIT")
             i == width("I_BIT")
             l == width("L_BIT")
  <2>3. /\ n \in 0 .. SizeRange - 1 /\ i \in 0 .. SizeRange - 1 /\ l \in 0 .. SizeRange - 1
        /\ 2 <= n /\ n <= 64 /\ AddsUp(n, i, l) /\ 2 <= i
    BY <1>3, <1>4, <2>2, SettingsAssumption DEF IsValid
  <2> HIDE DEF n, i, l
  <2>4. i + l = n \/ (~Checked /\ i + l = n + SizeRange)
    <3>1. CASE i + l < SizeRange
      <4>1. (i + l) % SizeRange = i + l
        BY <2>3, <3>1, SettingsAssumption
      <4> QED BY <2>3, <4>1 DEF AddsUp
    <3>2. CASE i + l >= SizeRange
      <4>1. i + l - SizeRange \in 0 .. SizeRange - 1
        BY <2>3, <3>2, SettingsAssumption
      <4>2. (i + l) % SizeRange = i + l - SizeRange
        BY <2>3, <4>1, SettingsAssumption
      <4>3. ~Checked /\ (i + l) % SizeRange = n
        BY <2>3, <3>2, SettingsAssumption DEF AddsUp
      <4> QED BY <2>3, <4>2, <4>3, SettingsAssumption
    <3> QED BY <2>3, <3>1, <3>2, SettingsAssumption
  <2>5. l <= n - 2 \/ (~Checked /\ l > n)
    BY <2>3, <2>4, SettingsAssumption
  <2>6. {n, i, l} \subseteq 0 .. SizeRange - 1
    BY <2>3
  <2>7. Checked => i + l = n
    BY <2>4
  <2> QED BY <2>1, <2>3, <2>5, <2>6, <2>7 DEF Proper, n, i, l

(* Every setup that is read is proper, and is read before it is used.      *)
IsProper(s) ==
  /\ s = Setup(s.config, s.netlist)
  /\ Proper(s.config)
  /\ s.netlist \in Netlists \cup {NoCircuit}

SetupsInv ==
  /\ dealer \in {Idle} \cup [doing : {"read", "open", "fill"}, party : Party]
  /\ DOMAIN pc = Party /\ DOMAIN chosen = Party
  /\ circuitFile \in CircuitFiles
  /\ dealing = Unread \/ IsProper(dealing)
  /\ dealer.doing = "read" => IsProper(dealing)
  /\ \A p \in Party :
       /\ chosen[p] = Unread \/ IsProper(chosen[p])
       /\ pc[p] = "circuit" => IsProper(chosen[p])

LEMMA ReadsCircuit ==
  ASSUME NEW path, circuitFile \in CircuitFiles
  PROVE  CircuitAt(path) \in Netlists \cup {NoCircuit}
BY ProvisioningAssumption DEF CircuitAt

LEMMA ReadsSettings ==
  ASSUME NEW env, ConfigFault(env, envFile) = "none"
  PROVE  IsProper(Setup(Configuration(env, envFile), NoCircuit))
BY ValidWidths DEF IsProper, Setup

LEMMA ReadsNetlist ==
  ASSUME NEW s, IsProper(s), NEW n \in Netlists \cup {NoCircuit}
  PROVE  IsProper([s EXCEPT !.netlist = n])
<1>1. s = [config |-> s.config, netlist |-> s.netlist]
  BY DEF IsProper, Setup
<1>2. [s EXCEPT !.netlist = n] = [config |-> s.config, netlist |-> n]
  BY <1>1
<1> QED BY <1>2 DEF IsProper, Setup

LEMMA InitSetupsInv == Init => SetupsInv
BY TwoParties DEF Init, SetupsInv, Idle

LEMMA NextSetupsInv ==
  ASSUME SetupsInv, [Next]_vars
  PROVE  SetupsInv'
<1> USE TwoParties
<1>1. CASE Deal
  <2>1. IsProper(dealing')
    BY <1>1, ReadsSettings DEF Deal
  <2> QED BY <1>1, <2>1 DEF SetupsInv, Deal, disk, loaded
<1>2. CASE DealerReads
  <2>1. dealing' = [dealing EXCEPT !.netlist = CircuitAt(dealing.config.circuit)]
    BY <1>2 DEF DealerReads
  <2>2. IsProper(dealing')
    BY <1>2, <2>1, ReadsCircuit, ReadsNetlist DEF DealerReads, SetupsInv
  <2> QED BY <1>2, <2>2 DEF SetupsInv, DealerReads, disk, loaded, Idle
<1>3. CASE OpenFile \/ FillFile \/ KillDealer
  BY <1>3 DEF SetupsInv, OpenFile, FillFile, KillDealer, disk, loaded, Idle
<1>4. ASSUME NEW p \in Party, Start(p)
      PROVE  SetupsInv'
  <2>1. \/ chosen' = chosen /\ Goto(p, "failed")
        \/ \E s : IsProper(s) /\ chosen' = [chosen EXCEPT ![p] = s] /\ Goto(p, "circuit")
    BY <1>4, ReadsSettings DEF Start
  <2> QED BY <1>4, <2>1 DEF SetupsInv, Start, Goto, disk, offline
<1>5. ASSUME NEW p \in Party, LoadCircuit(p)
      PROVE  SetupsInv'
  <2> DEFINE s == [chosen[p] EXCEPT !.netlist = CircuitAt(chosen[p].config.circuit)]
  <2>1. chosen' = [chosen EXCEPT ![p] = s]
    BY <1>5 DEF LoadCircuit, SetupsInv
  <2>2. IsProper(s)
    BY <1>5, ReadsCircuit, ReadsNetlist DEF LoadCircuit, SetupsInv
  <2> HIDE DEF s
  <2>3. \E step \in {"failed", "load"} : Goto(p, step)
    BY <1>5 DEF LoadCircuit
  <2> QED BY <1>5, <2>1, <2>2, <2>3 DEF SetupsInv, LoadCircuit, Goto, disk, offline
<1>6. ASSUME NEW p \in Party,
             LoadMaterial(p) \/ RefuseMaterial(p) \/ LoadInputs(p) \/ Kill(p)
               \/ (p = 0 /\ (Bind \/ Accept)) \/ (p = 1 /\ (Dial \/ Retry))
      PROVE  SetupsInv'
  <2>1. /\ UNCHANGED <<disk, offline, chosen>>
        /\ UNCHANGED pc \/ \E q \in Party : \E s : s # "circuit" /\ Goto(q, s)
    BY <1>6 DEF LoadMaterial, RefuseMaterial, LoadInputs, Kill, Bind, Accept, Dial, Retry, loaded
  <2> QED BY <2>1 DEF SetupsInv, Goto, disk, offline
<1>7. CASE Edit \/ Rest \/ UNCHANGED vars
  <2>1. UNCHANGED <<offline, pc, chosen>> /\ circuitFile' \in CircuitFiles
    BY <1>7 DEF Edit, Rest, vars, loaded, SetupsInv, disk
  <2> QED BY <2>1 DEF SetupsInv, offline
<1> QED BY <1>1, <1>2, <1>3, <1>4, <1>5, <1>6, <1>7 DEF Next, Proceed

(* Whatever the files and the environment say, every process works with a  *)
(* word of at most 64 bits and shifts by less than that (Config::validate) *)
(* in a build that checks for overflow; in one that does not, the only     *)
(* other fractions are wider than the word itself.                         *)
THEOREM WidthsAreAlwaysUsable == Spec => []WidthsAreUsable
<1>1. SetupsInv => WidthsAreUsable
  BY TwoParties DEF SetupsInv, WidthsAreUsable, IsProper, Proper
<1> QED BY <1>1, InitSetupsInv, NextSetupsInv, PTL DEF Spec

(* In a build that checks for overflow, the integer and fractional bits    *)
(* of whatever a process works with make up the width (config.rs:107-112). *)
THEOREM WidthsAlwaysAddUp ==
  ASSUME Checked
  PROVE  Spec => []WidthsAddUp
<1>1. SetupsInv => WidthsAddUp
  BY TwoParties DEF SetupsInv, WidthsAddUp, IsProper, Proper
<1> QED BY <1>1, InitSetupsInv, NextSetupsInv, PTL DEF Spec

(* What type correctness needs besides: the bounds, and the party that has *)
(* attempts left while it connects.                                        *)
Steps == {"new", "circuit", "load", "inputs", "connect", "accept", "linked", "failed"}

InputsRead == {<<>>} \cup {InputValues(f) : f \in {g \in InputFiles : InputFault(g) = "none"}}

BoundsInv ==
  /\ envFile \in EnvFiles /\ circuitFile \in CircuitFiles /\ edits \in 0 .. MaxEdits
  /\ deals \in 0 .. MaxDeals
  /\ DOMAIN file = Party /\ DOMAIN material = Party
  /\ \A p \in Party :
       /\ file[p] \in {Absent, Torn} \/ file[p].state = "whole"
       /\ material[p] \in {Absent, Torn} \/ material[p].state = "whole"
  /\ pc \in [Party -> Steps]
  /\ inputs \in [Party -> InputsRead]
  /\ tries \in 0 .. Retries
  /\ pc[1] \notin {"linked", "failed"} => tries < Retries
  /\ listening \in BOOLEAN /\ dialled \in BOOLEAN

LEMMA InitBoundsInv == Init => BoundsInv
<1> USE TwoParties, ProvisioningAssumption
<1> SUFFICES ASSUME Init PROVE BoundsInv
  OBVIOUS
<1>1. <<>> \in InputsRead
  BY DEF InputsRead
<1>2. inputs \in [Party -> InputsRead] /\ pc \in [Party -> Steps]
  BY <1>1 DEF Init, Steps
<1>3. /\ DOMAIN file = Party /\ DOMAIN material = Party
      /\ \A p \in Party : file[p] = Absent /\ material[p] = Absent
  BY DEF Init
<1>4. pc[1] = "new" /\ tries = 0 /\ edits = 0 /\ deals = 0
  BY DEF Init
<1>5. 0 < Retries /\ 0 \in 0 .. Retries /\ 0 \in 0 .. MaxEdits /\ 0 \in 0 .. MaxDeals
  OBVIOUS
<1>6. /\ envFile \in EnvFiles /\ circuitFile \in CircuitFiles
      /\ listening \in BOOLEAN /\ dialled \in BOOLEAN
  BY DEF Init
<1> QED BY <1>2, <1>3, <1>4, <1>5, <1>6 DEF BoundsInv

LEMMA NextBoundsInv ==
  ASSUME BoundsInv, dealer \in {Idle} \cup [doing : {"read", "open", "fill"}, party : Party],
         [Next]_vars
  PROVE  BoundsInv'
<1> USE TwoParties, ProvisioningAssumption
<1>1. CASE Edit
  BY <1>1 DEF BoundsInv, Edit, offline, loaded, linking
<1>2. CASE Deal \/ DealerReads \/ KillDealer
  BY <1>2 DEF BoundsInv, Deal, DealerReads, KillDealer, disk, loaded, linking
<1>3. CASE OpenFile \/ FillFile
  <2>1. \E b : /\ b \in {Absent, Torn} \/ b.state = "whole"
              /\ file' = [file EXCEPT ![dealer.party] = b]
    BY <1>3 DEF OpenFile, FillFile, Bundle
  <2> QED BY <1>3, <2>1 DEF BoundsInv, OpenFile, FillFile, disk, loaded, linking
<1>4. ASSUME NEW p \in Party, Start(p) \/ LoadCircuit(p) \/ RefuseMaterial(p) \/ Kill(p)
      PROVE  BoundsInv'
  <2>1. /\ UNCHANGED <<disk, offline, inputs, material, tries, dialled>>
        /\ listening' \in BOOLEAN
        /\ \E step \in Steps : pc' = [pc EXCEPT ![p] = step]
        /\ pc[p] \notin {"linked", "failed"}
    BY <1>4 DEF BoundsInv, Start, LoadCircuit, RefuseMaterial, Kill, Goto, Steps, loaded, linking
  <2> QED BY <2>1 DEF BoundsInv, disk, offline
<1>5. ASSUME NEW p \in Party, LoadMaterial(p)
      PROVE  BoundsInv'
  <2>1. /\ UNCHANGED <<disk, offline, inputs, linking>>
        /\ pc' = [pc EXCEPT ![p] = "inputs"] /\ pc[p] = "load"
        /\ material' = [material EXCEPT ![p] = file[p]] /\ file[p].state = "whole"
    BY <1>5 DEF LoadMaterial, Goto
  <2> QED BY <2>1 DEF BoundsInv, disk, offline, linking, Steps
<1>6. ASSUME NEW p \in Party, LoadInputs(p)
      PROVE  BoundsInv'
  <2>1. /\ UNCHANGED <<disk, offline, material, linking>>
        /\ \E step \in {"connect", "failed"} : pc' = [pc EXCEPT ![p] = step]
        /\ pc[p] = "inputs"
        /\ inputs' = inputs \/ \E v \in InputsRead : inputs' = [inputs EXCEPT ![p] = v]
    BY <1>6 DEF LoadInputs, Goto, InputsRead
  <2> QED BY <2>1 DEF BoundsInv, disk, offline, linking, Steps
<1>7. CASE Bind \/ Accept
  <2>1. /\ UNCHANGED <<disk, offline, loaded, tries, dialled>>
        /\ listening' \in BOOLEAN
        /\ \E step \in Steps : pc' = [pc EXCEPT ![0] = step]
    BY <1>7 DEF BoundsInv, Bind, Accept, Goto, Steps
  <2> QED BY <2>1 DEF BoundsInv, disk, offline, loaded
<1>8. CASE Dial \/ Retry
  <2>1. /\ UNCHANGED <<disk, offline, loaded, listening>>
        /\ dialled' \in BOOLEAN
        /\ pc[1] = "connect"
    BY <1>8 DEF BoundsInv, Dial, Retry
  <2>2. \/ tries' = tries /\ pc' = [pc EXCEPT ![1] = "linked"]
        \/ tries' = tries + 1 /\ tries' < Retries /\ pc' = pc
        \/ tries' = tries + 1 /\ pc' = [pc EXCEPT ![1] = "failed"]
    BY <1>8 DEF Dial, Retry, Goto
  <2>3. tries \in Nat /\ tries < Retries /\ Retries \in Nat
    BY <2>1 DEF BoundsInv
  <2>4. pc' \in [Party -> Steps] /\ tries' \in 0 .. Retries
        /\ (pc'[1] \notin {"linked", "failed"} => tries' < Retries)
    BY <2>2, <2>3 DEF BoundsInv, Steps
  <2> QED BY <2>1, <2>4 DEF BoundsInv, disk, offline, loaded
<1>9. CASE Rest \/ UNCHANGED vars
  BY <1>9 DEF BoundsInv, Rest, vars, disk, offline, loaded, linking
<1> QED BY <1>1, <1>2, <1>3, <1>4, <1>5, <1>6, <1>7, <1>8, <1>9 DEF Next, Proceed

(* Every setup, bundle and counter is what it is taken for, for all files, *)
(* environments and bounds.                                                *)
THEOREM ProvisioningTypeOK == Spec => []TypeOK
<1> DEFINE Inv == ProvisioningInv /\ SetupsInv /\ BoundsInv
<1>1. Init => Inv
  BY InitProvisioningInv, InitSetupsInv, InitBoundsInv
<1>2. Inv /\ [Next]_vars => Inv'
  BY NextProvisioningInv, NextSetupsInv, NextBoundsInv DEF SetupsInv
<1>3. ASSUME Inv PROVE TypeOK
  <2> USE TwoParties
  <2>1. \A s : IsProper(s) => IsSetup(s)
    BY DEF IsProper, Proper, IsSetup
  <2>2. \A p \in Party : (file[p].state = "whole" => file[p].party \in Party /\ file[p].run \in 1 .. deals)
      /\ (material[p].state = "whole" => material[p].party \in Party /\ material[p].run \in 1 .. deals)
    BY <1>3 DEF ProvisioningInv, HeldFits, OfRun
  <2>3. \A b \in {file[p] : p \in Party} \cup {material[p] : p \in Party} :
          b \in {Absent, Torn} \/ (b.party \in Party /\ b.run \in 1 .. deals)
    BY <1>3, <2>2 DEF BoundsInv
  <2> QED BY <1>3, <2>1, <2>3 DEF SetupsInv, BoundsInv, TypeOK, Steps, InputsRead
<1> HIDE DEF Inv
<1> QED BY <1>1, <1>2, <1>3, PTL DEF Spec

(* The half a linked party holds was made for its netlist and its format,  *)
(* and two halves of one run make them the same for both parties           *)
(* (Preprocessing::check), for every number of dealer runs and edits.      *)
THEOREM HalvesAlwaysFit == Spec => []HalvesFit
<1>1. ProvisioningInv => HalvesFit
  BY LinkedFit, LinkedAlike DEF HalvesFit
<1> QED BY <1>1, ProvisioningInvHolds, PTL

(* As long as the dealer was run once, two linked parties hold the two     *)
(* halves of that run and agree on netlist and format (README.md:48-50).   *)
THEOREM OneDealIsAlwaysSafe == Spec => []OneDealIsSafe
<1>1. ASSUME ProvisioningInv, BothLinked, deals < 2
      PROVE  material[0].run = material[1].run
  BY <1>1, LinkedFit, TwoParties DEF ProvisioningInv, Shaped
<1>2. ProvisioningInv => OneDealIsSafe
  BY <1>1, LinkedAlike DEF OneDealIsSafe
<1> QED BY <1>2, ProvisioningInvHolds, PTL
=============================================================================
