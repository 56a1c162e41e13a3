---------------------------- MODULE DecisionProofs ----------------------------
\* Theorems about what the service decides from recorded evidence, a section
\* for each module: for captures, histories and plans of any size.
EXTENDS Integers, Sequences, FiniteSets, FiniteSetTheorems, SequenceTheorems, WellFoundedInduction, TLAPS

\* The least and the greatest of some numbers; whole seconds.
LEMMA LeastOf ==
    ASSUME NEW S, S \subseteq Nat, S # {}
    PROVE  \E n \in S : \A m \in S : m >= n
<1>1. PICK n \in S : \A m \in S : ~(<<m, n>> \in OpToRel(<, Nat))
  BY NatLessThanWellFounded, WFMin
<1>2. ASSUME NEW m \in S
      PROVE  m >= n
 <2>1. <<m, n>> \in Nat \X Nat
   OBVIOUS
 <2>2. ~(m < n)
   BY <1>1, <2>1 DEF OpToRel
 <2>. QED BY <2>2
<1>. QED BY <1>2

LEMMA GreatestOf ==
    ASSUME NEW n \in Nat, NEW S, S \subseteq 0 .. n, S # {}
    PROVE  \E m \in S : \A k \in S : m >= k
<1>. DEFINE D == {n - k : k \in S}
<1>1. D \subseteq Nat /\ D # {}
 <2>1. \A k \in S : n - k \in Nat
   OBVIOUS
 <2>. QED BY <2>1
<1>2. PICK d \in D : \A e \in D : e >= d
 <2>. HIDE DEF D
 <2>. QED BY <1>1, LeastOf
<1>3. PICK m \in S : d = n - m
  BY <1>2
<1>4. ASSUME NEW k \in S
      PROVE  m >= k
 <2>1. n - k >= d
   BY <1>2
 <2>. QED BY <1>3, <2>1
<1>. QED BY <1>4

LEMMA WholeSeconds ==
    ASSUME NEW p \in Nat \ {0}, NEW a \in Nat
    PROVE  /\ a \div p \in Nat
           /\ (a \div p) * p <= a /\ a < (a \div p) * p + p
           /\ \A b \in Nat : a <= b => a \div p <= b \div p
  OBVIOUS

\* The condition of a device after a change (DeviceFollowups).
CONSTANTS Captures, Baseline, MaxFollowups
VARIABLES followups, initial, current, recovered

Followed == INSTANCE DeviceFollowups

\* The findings that stand for each thing a capture may show harmed.
StandsFor ==
    [link |-> {"port_down", "poe_power_lost"}, power |-> {"poe_power_lost"},
     peer |-> {"peer_down"}, device |-> {"device_disconnected"}]

\* What a capture showed harmed has a finding that stands for that very thing,
\* or was shown well since: one on the same port in its place is not enough.
HarmStands ==
    \A i \in DOMAIN followups : \A x \in Followed!Harmed(followups[i]) \intersect Followed!Well(Baseline) :
        \/ \E k \in current : k \in StandsFor[x]
        \/ \E j \in i + 1 .. Len(followups) : x \in Followed!Well(followups[j])

\* A finding against the baseline is of a source that the baseline has.
AgainstTheBaseline ==
    \A k \in current \ Followed!Incremental :
        /\ Followed!finding_source(k) \in Followed!available(Baseline)
        /\ k \in {"port_down", "poe_power_lost", "ssid_removed", "peer_down", "radio_missing",
                  "radio_wlans_reduced", "device_disconnected", "cpu_util"}

FollowedInv == followups \in Seq(Captures) /\ HarmStands /\ AgainstTheBaseline

\* What a capture shows harmed and the baseline shows well is found.
LEMMA HarmIsFound ==
    ASSUME NEW c, NEW x \in Followed!Harmed(c) \intersect Followed!Well(Baseline)
    PROVE  \E k \in Followed!compare_device_states(Baseline, c) \ Followed!Incremental : k \in StandsFor[x]
<1>. USE DEF Followed!Harmed, Followed!Well, Followed!Shown, Followed!Shows, Followed!Row, Followed!Absent
<1>. DEFINE found == Followed!compare_device_states(Baseline, c)
            common == Followed!available(Baseline) \intersect Followed!available(c)
<1>1. x \in {"link", "power", "peer", "device"}
  OBVIOUS
<1>2. CASE x = "link"
 <2>1. "ports" \in common
   BY <1>2 DEF Followed!available, Followed!Sources
 <2>2. CASE Followed!_powered(Baseline) /\ Followed!Shows(c, "ports", "poe", FALSE)
  <3>1. "poe_power_lost" \in Followed!_ports(Baseline, c)
    BY <2>2 DEF Followed!_ports
  <3>2. "poe_power_lost" \in found
    BY <2>1, <3>1 DEF Followed!compare_device_states, Followed!finding_source
  <3>. QED BY <1>2, <3>2 DEF StandsFor, Followed!Incremental
 <2>3. CASE ~(Followed!_powered(Baseline) /\ Followed!Shows(c, "ports", "poe", FALSE))
  <3>1. "port_down" \in Followed!_ports(Baseline, c)
    BY <1>2, <2>3 DEF Followed!_ports
  <3>2. "port_down" \in found
    BY <2>1, <3>1 DEF Followed!compare_device_states, Followed!finding_source
  <3>. QED BY <1>2, <3>2 DEF StandsFor, Followed!Incremental
 <2>. QED BY <2>2, <2>3
<1>3. CASE x = "power"
 <2>1. "ports" \in common
   BY <1>3 DEF Followed!available, Followed!Sources
 <2>2. "poe_power_lost" \in Followed!_ports(Baseline, c)
   BY <1>3 DEF Followed!_ports, Followed!_powered
 <2>3. "poe_power_lost" \in found
   BY <2>1, <2>2 DEF Followed!compare_device_states, Followed!finding_source
 <2>. QED BY <1>3, <2>3 DEF StandsFor, Followed!Incremental
<1>4. CASE x = "peer"
 <2>1. "peers" \in common
   BY <1>4 DEF Followed!available, Followed!Sources
 <2>2. "peer_down" \in Followed!_peers(Baseline, c)
   BY <1>4 DEF Followed!_peers
 <2>3. "peer_down" \in found
   BY <2>1, <2>2 DEF Followed!compare_device_states, Followed!finding_source
 <2>. QED BY <1>4, <2>3 DEF StandsFor, Followed!Incremental
<1>5. CASE x = "device"
 <2>1. "device" \in common
   BY <1>5 DEF Followed!available, Followed!Sources
 <2>2. "device_disconnected" \in Followed!_device_findings(Baseline, c)
   BY <1>5 DEF Followed!_device_findings
 <2>3. "device_disconnected" \in found
   BY <2>1, <2>2 DEF Followed!compare_device_states, Followed!finding_source
 <2>. QED BY <1>5, <2>3 DEF StandsFor, Followed!Incremental
<1>. QED BY <1>1, <1>2, <1>3, <1>4, <1>5

\* A finding that stands for something leaves only when that is shown well.
LEMMA OnlyWellClears ==
    ASSUME NEW c, NEW previous, NEW before, NEW x \in DOMAIN StandsFor, NEW k \in previous,
           k \in StandsFor[x], k \notin Followed!refresh_device_findings(c, previous, before)
    PROVE  x \in Followed!Well(c)
<1>1. Followed!_recovery_observed(k, c, before)
  BY DEF Followed!refresh_device_findings
<1>0. x \in {"link", "power", "peer", "device"}
  BY DEF StandsFor
<1>2. k \in {"port_down", "poe_power_lost", "peer_down", "device_disconnected"}
  BY <1>0 DEF StandsFor
<1>3. CASE k = "poe_power_lost"
 <2>1. Followed!Shows(c, "ports", "up", TRUE) /\ Followed!Shows(c, "ports", "poe", TRUE)
   BY <1>1, <1>3 DEF Followed!_recovery_observed, Followed!Incremental
 <2>2. x \in {"link", "power"}
   BY <1>0, <1>3 DEF StandsFor
 <2>3. CASE x = "link"
   BY <2>1, <2>3 DEF Followed!Well, Followed!Shown
 <2>4. CASE x = "power"
   BY <2>1, <2>4 DEF Followed!Well, Followed!Shown
 <2>. QED BY <2>2, <2>3, <2>4
<1>4. CASE k = "port_down"
 <2>1. Followed!Shows(c, "ports", "up", TRUE)
   BY <1>1, <1>4 DEF Followed!_recovery_observed, Followed!Incremental, Followed!finding_source
 <2>2. x = "link"
   BY <1>0, <1>4 DEF StandsFor
 <2>. QED BY <2>1, <2>2 DEF Followed!Well, Followed!Shown
<1>5. CASE k = "peer_down"
 <2>1. Followed!Shows(c, "peers", "up", TRUE)
   BY <1>1, <1>5 DEF Followed!_recovery_observed, Followed!Incremental, Followed!finding_source
 <2>2. x = "peer"
   BY <1>0, <1>5 DEF StandsFor
 <2>. QED BY <2>1, <2>2 DEF Followed!Well, Followed!Shown
<1>6. CASE k = "device_disconnected"
 <2>1. Followed!Shows(c, "device", "connected", TRUE)
   BY <1>1, <1>6 DEF Followed!_recovery_observed, Followed!Incremental
 <2>2. x = "device"
   BY <1>0, <1>6 DEF StandsFor
 <2>. QED BY <2>1, <2>2 DEF Followed!Well, Followed!Shown
<1>. QED BY <1>2, <1>3, <1>4, <1>5, <1>6

\* What is found against the baseline is of a source that the baseline has.
LEMMA FoundAgainstTheBaseline ==
    ASSUME NEW c, NEW k \in Followed!compare_device_states(Baseline, c)
    PROVE  /\ Followed!finding_source(k) \in Followed!available(Baseline)
           /\ k \in {"port_down", "poe_power_lost", "ssid_removed", "peer_down", "radio_missing",
                     "radio_wlans_reduced", "device_disconnected", "cpu_util"} \union Followed!Incremental
  BY DEF Followed!compare_device_states, Followed!_ports, Followed!_device_findings, Followed!_wlans,
         Followed!_peers, Followed!_radios, Followed!Incremental

\* A finding that is not of an interval was found now, or has not recovered.
LEMMA FoundOrKept ==
    ASSUME NEW c, NEW previous, NEW before, NEW k \in Followed!refresh_device_findings(c, previous, before),
           k \notin Followed!Incremental
    PROVE  \/ k \in Followed!compare_device_states(Baseline, c)
           \/ k \in previous /\ (\/ Followed!finding_source(k) \notin Followed!available(Baseline)
                                \/ Followed!finding_source(k) \notin Followed!available(c)
                                \/ ~Followed!_recovery_observed(k, c, before))
  BY DEF Followed!refresh_device_findings

LEMMA FollowedInit == Followed!Init => FollowedInv
  BY DEF Followed!Init, FollowedInv, HarmStands, AgainstTheBaseline

LEMMA FollowedStep == FollowedInv /\ [Followed!Next]_(Followed!vars) => FollowedInv'
<1>. SUFFICES ASSUME FollowedInv, [Followed!Next]_(Followed!vars) PROVE FollowedInv'
  OBVIOUS
<1>1. CASE UNCHANGED Followed!vars
  BY <1>1 DEF FollowedInv, HarmStands, AgainstTheBaseline, Followed!vars
<1>2. ASSUME NEW c \in Captures, Followed!_compare_due_states(c) PROVE FollowedInv'
 <2>. DEFINE n == Len(followups)
             before == IF followups = <<>> THEN {} ELSE {followups[n]}
 <2>1. /\ followups \in Seq(Captures) /\ n \in Nat /\ DOMAIN followups = 1 .. n
       /\ followups' = Append(followups, c)
       /\ current' = Followed!refresh_device_findings(c, current, before)
   BY <1>2 DEF FollowedInv, Followed!_compare_due_states
 <2>2. /\ followups' \in Seq(Captures) /\ Len(followups') = n + 1 /\ DOMAIN followups' = 1 .. n + 1
       /\ followups'[n + 1] = c /\ \A i \in 1 .. n : followups'[i] = followups[i]
   BY <2>1
 <2>3. \A k \in Followed!compare_device_states(Baseline, c) \ Followed!Incremental : k \in current'
   BY <2>1 DEF Followed!refresh_device_findings
 <2>4. HarmStands'
  <3>. SUFFICES ASSUME NEW i \in 1 .. n + 1,
                       NEW x \in Followed!Harmed(followups'[i]) \intersect Followed!Well(Baseline)
                PROVE  \/ \E k \in current' : k \in StandsFor[x]
                       \/ \E j \in i + 1 .. n + 1 : x \in Followed!Well(followups'[j])
    BY <2>2 DEF HarmStands
  <3>1. CASE i = n + 1
    BY <2>2, <2>3, <3>1, HarmIsFound
  <3>2. CASE i # n + 1
   <4>1. i \in 1 .. n /\ followups'[i] = followups[i]
     BY <2>1, <2>2, <3>2
   <4>2. \/ \E k \in current : k \in StandsFor[x]
         \/ \E j \in i + 1 .. n : x \in Followed!Well(followups[j])
     BY <2>1, <4>1 DEF FollowedInv, HarmStands
   <4>3. ASSUME NEW j \in i + 1 .. n, x \in Followed!Well(followups[j])
         PROVE  \E l \in i + 1 .. n + 1 : x \in Followed!Well(followups'[l])
    <5>1. j \in i + 1 .. n + 1 /\ j \in 1 .. n
      BY <2>1, <4>1
    <5>. QED BY <2>2, <4>3, <5>1
   <4>4. ASSUME NEW k \in current, k \in StandsFor[x], k \notin current'
         PROVE  \E l \in i + 1 .. n + 1 : x \in Followed!Well(followups'[l])
    <5>1. x \in DOMAIN StandsFor
      BY DEF Followed!Well, Followed!Shown, StandsFor
    <5>2. x \in Followed!Well(c)
      BY <2>1, <4>4, <5>1, OnlyWellClears
    <5>3. n + 1 \in i + 1 .. n + 1
      BY <2>1, <4>1
    <5>. QED BY <2>2, <5>2, <5>3
   <4>. QED BY <4>2, <4>3, <4>4
  <3>. QED BY <3>1, <3>2
 <2>5. AgainstTheBaseline'
  <3>. SUFFICES ASSUME NEW k \in current', k \notin Followed!Incremental
                PROVE  /\ Followed!finding_source(k) \in Followed!available(Baseline)
                       /\ k \in {"port_down", "poe_power_lost", "ssid_removed", "peer_down", "radio_missing",
                                 "radio_wlans_reduced", "device_disconnected", "cpu_util"}
    BY DEF AgainstTheBaseline
  <3>1. k \in Followed!compare_device_states(Baseline, c) \/ k \in current
    BY <2>1, FoundOrKept
  <3>2. CASE k \in Followed!compare_device_states(Baseline, c)
    BY <3>2, FoundAgainstTheBaseline
  <3>3. CASE k \in current
    BY <3>3 DEF FollowedInv, AgainstTheBaseline
  <3>. QED BY <3>1, <3>2, <3>3
 <2>. QED BY <2>2, <2>4, <2>5 DEF FollowedInv
<1>. QED BY <1>1, <1>2 DEF Followed!Next

\* Harm a capture showed stays reported until a later capture shows that very thing
\* well: an unavailable source, a missing row or field and another harm in its place
\* clear nothing, whatever the captures (device_impact.py refresh_device_findings).
THEOREM HarmStaysReported == Followed!Spec => []Followed!HarmOutlivesSilence
<1>1. FollowedInv => Followed!HarmOutlivesSilence
 <2>. SUFFICES ASSUME FollowedInv, NEW i \in DOMAIN followups,
                      NEW x \in Followed!Harmed(followups[i]) \intersect Followed!Well(Baseline),
                      NEW k \in current, k \in StandsFor[x]
               PROVE  Followed!Reported(x)
   BY DEF FollowedInv, HarmStands, Followed!HarmOutlivesSilence
 <2>1. x \in {"link", "power", "peer", "device"}
   BY DEF Followed!Well, Followed!Shown
 <2>2. k \notin Followed!Incremental /\ k # "cpu_util"
   BY <2>1 DEF StandsFor, Followed!Incremental
 <2>3. Followed!finding_source(k) = Followed!Shown[x][1]
   BY <2>1 DEF StandsFor, Followed!finding_source, Followed!Shown
 <2>. QED BY <2>2, <2>3 DEF Followed!Reported
<1>. QED BY <1>1, FollowedInit, FollowedStep, PTL DEF Followed!Spec

\* A capture has one row at most of the port, the peer and the device.
\* A source the last capture shows well.
Cleared(c) ==
    \A x \in {"peer", "device"} \union {y \in {"link"} : "power" \in Followed!Well(c)} :
        x \in Followed!Well(c) => ~Followed!Reported(x)

\* A row shows a field one way only.
LEMMA ShownOnce ==
    ASSUME Followed!CapturesAssumption, NEW c \in Captures, NEW s \in Followed!Sources, NEW f,
           Followed!Shows(c, s, f, TRUE)
    PROVE  ~Followed!Shows(c, s, f, FALSE) /\ ~Followed!Absent(c, s) /\ s \in Followed!available(c)
<1>1. PICK q \in Followed!Row(c, s) : q[f] = {TRUE}
  BY DEF Followed!Shows
<1>2. \A r \in Followed!Row(c, s) : r[f] # {FALSE}
 <2>1. \A r \in Followed!Row(c, s) : r = q
   BY <1>1 DEF Followed!CapturesAssumption
 <2>. QED BY <1>1, <2>1
<1>3. ~Followed!Absent(c, s) /\ s \in Followed!available(c)
  BY <1>1 DEF Followed!Row, Followed!Absent, Followed!available
<1>. QED BY <1>2, <1>3 DEF Followed!Shows

LEMMA ClearedStep ==
    ASSUME Followed!CapturesAssumption, FollowedInv, NEW c \in Captures, Followed!_compare_due_states(c)
    PROVE  Cleared(c)'
<1>. DEFINE before == IF followups = <<>> THEN {} ELSE {followups[Len(followups)]}
            found == Followed!compare_device_states(Baseline, c)
<1>1. current' = Followed!refresh_device_findings(c, current, before)
  BY DEF Followed!_compare_due_states
<1>. SUFFICES ASSUME NEW x \in {"link", "peer", "device"}, x = "link" => "power" \in Followed!Well(c),
                     x \in Followed!Well(c),
                     NEW k \in current' \ Followed!Incremental,
                     Followed!finding_source(k) = Followed!Shown[x][1], k # "cpu_util"
              PROVE  FALSE
  BY DEF Cleared, Followed!Reported, Followed!Well
<1>2. \/ k \in found
      \/ k \in current /\ (\/ Followed!finding_source(k) \notin Followed!available(Baseline)
                           \/ Followed!finding_source(k) \notin Followed!available(c)
                           \/ ~Followed!_recovery_observed(k, c, before))
  BY <1>1, FoundOrKept
<1>3. /\ Followed!finding_source(k) \in Followed!available(Baseline)
      /\ k \in {"port_down", "poe_power_lost", "ssid_removed", "peer_down", "radio_missing",
                "radio_wlans_reduced", "device_disconnected", "cpu_util"}
  BY <1>2, FoundAgainstTheBaseline DEF FollowedInv, AgainstTheBaseline
<1>4. CASE x = "link"
 <2>1. Followed!Shows(c, "ports", "up", TRUE) /\ Followed!Shows(c, "ports", "poe", TRUE)
   BY <1>4 DEF Followed!Well, Followed!Shown
 <2>2. /\ ~Followed!Shows(c, "ports", "up", FALSE) /\ ~Followed!Shows(c, "ports", "poe", FALSE)
       /\ ~Followed!Absent(c, "ports") /\ "ports" \in Followed!available(c)
   BY <2>1, ShownOnce DEF Followed!Sources
 <2>3. k \in {"port_down", "poe_power_lost"}
   BY <1>3, <1>4 DEF Followed!finding_source, Followed!Shown
 <2>4. k \notin found
   BY <2>2, <2>3 DEF Followed!compare_device_states, Followed!_ports, Followed!_device_findings,
                     Followed!_wlans, Followed!_peers, Followed!_radios
 <2>5. Followed!_recovery_observed(k, c, before)
   BY <2>1, <2>3 DEF Followed!_recovery_observed, Followed!Incremental, Followed!finding_source
 <2>6. Followed!finding_source(k) = "ports"
   BY <1>4 DEF Followed!Shown
 <2>. QED BY <1>2, <1>3, <2>2, <2>4, <2>5, <2>6
<1>5. CASE x = "peer"
 <2>1. Followed!Shows(c, "peers", "up", TRUE)
   BY <1>5 DEF Followed!Well, Followed!Shown
 <2>2. ~Followed!Shows(c, "peers", "up", FALSE) /\ ~Followed!Absent(c, "peers") /\ "peers" \in Followed!available(c)
   BY <2>1, ShownOnce DEF Followed!Sources
 <2>3. k = "peer_down"
   BY <1>3, <1>5 DEF Followed!finding_source, Followed!Shown
 <2>4. k \notin found
   BY <2>2, <2>3 DEF Followed!compare_device_states, Followed!_ports, Followed!_device_findings,
                     Followed!_wlans, Followed!_peers, Followed!_radios
 <2>5. Followed!_recovery_observed(k, c, before)
   BY <2>1, <2>3 DEF Followed!_recovery_observed, Followed!Incremental, Followed!finding_source
 <2>6. Followed!finding_source(k) = "peers"
   BY <1>5 DEF Followed!Shown
 <2>. QED BY <1>2, <1>3, <2>2, <2>4, <2>5, <2>6
<1>6. CASE x = "device"
 <2>1. Followed!Shows(c, "device", "connected", TRUE)
   BY <1>6 DEF Followed!Well, Followed!Shown
 <2>2. ~Followed!Shows(c, "device", "connected", FALSE) /\ "device" \in Followed!available(c)
   BY <2>1, ShownOnce DEF Followed!Sources
 <2>3. k = "device_disconnected"
   BY <1>3, <1>6 DEF Followed!finding_source, Followed!Shown
 <2>4. k \notin found
   BY <2>2, <2>3 DEF Followed!compare_device_states, Followed!_ports, Followed!_device_findings,
                     Followed!_wlans, Followed!_peers, Followed!_radios
 <2>5. Followed!_recovery_observed(k, c, before)
   BY <2>1, <2>3 DEF Followed!_recovery_observed, Followed!Incremental
 <2>6. Followed!finding_source(k) = "device"
   BY <1>6 DEF Followed!Shown
 <2>. QED BY <1>2, <1>3, <2>2, <2>4, <2>5, <2>6
<1>. QED BY <1>4, <1>5, <1>6

\* Nothing is reported of a thing the last capture shows well throughout, however long
\* the findings before it (device_impact.py _recovery_observed).
THEOREM RecoveryClears ==
    ASSUME Followed!CapturesAssumption
    PROVE  Followed!Spec => []Followed!WellIsCleared
<1>. DEFINE Inv == FollowedInv /\ Followed!WellIsCleared
<1>1. Followed!Init => Inv
  BY FollowedInit DEF Followed!Init, Followed!WellIsCleared
<1>2. Inv /\ [Followed!Next]_(Followed!vars) => Inv'
 <2>. SUFFICES ASSUME Inv, [Followed!Next]_(Followed!vars) PROVE Followed!WellIsCleared'
   BY FollowedStep
 <2>1. CASE UNCHANGED Followed!vars
   BY <2>1 DEF Followed!vars, Followed!WellIsCleared, Followed!Reported
 <2>2. ASSUME NEW c \in Captures, Followed!_compare_due_states(c) PROVE Followed!WellIsCleared'
  <3>1. followups \in Seq(Captures) /\ followups' = Append(followups, c)
    BY <2>2 DEF FollowedInv, Followed!_compare_due_states
  <3>2. followups'[Len(followups')] = c
    BY <3>1
  <3>3. Cleared(c)'
    BY <2>2, ClearedStep
  <3>. QED BY <3>2, <3>3 DEF Cleared, Followed!WellIsCleared
 <2>. QED BY <2>1, <2>2 DEF Followed!Next
<1>. QED BY <1>1, <1>2, PTL DEF Followed!Spec

\* Whether a device applied a change (DeploymentPairing).
CONSTANTS Audit, Changes, Kinds, PAIRING_BOUND, PerSecond, MaxTick, MaxUntimed, MaxLag
VARIABLES now, history, stated, received

Pairing == INSTANCE DeploymentPairing

\* The audit judged is an audit, no outcome is called like a trigger or like a
\* state that names none, and the bounds are numbers.
Receipt == [kind : Kinds \union {Pairing!Trigger}, of : Changes \union {Pairing!Unlinked}, whose : Changes,
            timed : BOOLEAN, at : Nat, second : Nat]
LastSecond == Pairing!provider_second(MaxTick) + MaxLag

\* Things happen one after another, and a receipt is placed where it happened or
\* later.
InTime ==
    /\ \A i \in DOMAIN history :
           /\ history[i].at <= Pairing!provider_second(now)
           /\ history[i].at <= history[i].second /\ history[i].second <= LastSecond
           /\ history[i].timed => history[i].second = history[i].at
    /\ \A i, j \in DOMAIN history : i <= j => history[i].at <= history[j].at

\* The trigger l is the last before o, which answers it within the bound.
Answers(o, l) ==
    /\ l < o /\ history[l].kind = Pairing!Trigger /\ history[l].whose = history[o].whose
    /\ history[o].at - history[l].at <= PAIRING_BOUND
    /\ \A u \in DOMAIN history : l < u /\ u < o => history[u].kind # Pairing!Trigger

\* An outcome is of the audit it is linked to, or of the change applied last.
Traced ==
    \A o \in DOMAIN history :
        IF history[o].kind # Pairing!Trigger /\ history[o].of = Pairing!Unlinked
        THEN \E l \in DOMAIN history : Answers(o, l)
        ELSE history[o].whose = history[o].of

PairingInv ==
    /\ now \in 0 .. MaxTick /\ stated \in BOOLEAN /\ received \in Nat
    /\ history \in Seq(Receipt) /\ InTime /\ Traced

LEMMA SecondsPass ==
    ASSUME Pairing!KindsAssumption, NEW a \in Nat, NEW b \in Nat, a <= b
    PROVE  /\ Pairing!provider_second(a) \in Nat /\ Pairing!provider_second(b) \in Nat
           /\ Pairing!provider_second(a) <= Pairing!provider_second(b)
  BY WholeSeconds DEF Pairing!KindsAssumption, Pairing!provider_second

LEMMA PairingInit == ASSUME Pairing!KindsAssumption PROVE Pairing!Init => PairingInv
<1>1. Pairing!provider_second(MaxTick) \in Nat
  BY WholeSeconds DEF Pairing!KindsAssumption, Pairing!provider_second
<1>2. 0 .. Pairing!provider_second(MaxTick) \subseteq Nat
  BY <1>1
<1>. QED BY <1>2 DEF Pairing!Init, PairingInv, Pairing!KindsAssumption, InTime, Traced

\* Something happens: what was is left as it was, and this is the last of it.
LEMMA PairingHappens ==
    ASSUME Pairing!KindsAssumption, PairingInv,
           NEW kind \in Kinds \union {Pairing!Trigger}, NEW of \in Changes \union {Pairing!Unlinked},
           NEW whose \in Changes, Pairing!Happens(kind, of, whose),
           IF kind # Pairing!Trigger /\ of = Pairing!Unlinked
           THEN \E l \in Pairing!Latest : /\ whose = history[l].whose
                                         /\ Pairing!provider_second(now) - history[l].at <= PAIRING_BOUND
           ELSE whose = of
    PROVE  PairingInv'
<1>0. PICK n \in Nat : /\ DOMAIN history = 1 .. n /\ n = Len(history)
                       /\ \A i \in 1 .. n : history[i] \in Receipt
  BY DEF PairingInv
<1>. DEFINE here == Pairing!provider_second(now)
<1>1. /\ now \in Nat /\ now' = now + 1 /\ now' \in 0 .. MaxTick
      /\ now <= MaxTick /\ MaxTick \in Nat /\ now <= now' /\ now' \in Nat
      /\ stated' = stated /\ received' = received
  BY DEF Pairing!Happens, PairingInv, Pairing!KindsAssumption
<1>2. PICK s \in Pairing!Shown : history' = Append(history, Pairing!Event(kind, of, whose, s[1], s[2]))
  BY DEF Pairing!Happens
<1>. DEFINE e == Pairing!Event(kind, of, whose, s[1], s[2])
<1>3. /\ here \in Nat /\ here <= Pairing!provider_second(MaxTick) /\ Pairing!provider_second(MaxTick) \in Nat
      /\ here <= Pairing!provider_second(now')
      /\ Pairing!provider_second(now') \in Nat
  BY <1>1, SecondsPass
<1>4. s[1] \in BOOLEAN /\ s[2] \in 0 .. MaxLag
 <2>1. 0 \in 0 .. MaxLag
   BY DEF Pairing!KindsAssumption
 <2>2. CASE s = <<TRUE, 0>>
   BY <2>1, <2>2
 <2>3. CASE s \in {FALSE} \X (0 .. MaxLag)
   BY <2>3
 <2>. QED BY <2>2, <2>3 DEF Pairing!Shown
<1>5. /\ e.kind = kind /\ e.of = of /\ e.whose = whose /\ e.timed = s[1] /\ e.at = here
      /\ e.second = here + (IF s[1] THEN 0 ELSE s[2])
      /\ e.second \in Nat /\ here <= e.second /\ e.second <= LastSecond
      /\ e.timed => e.second = here
  BY <1>3, <1>4 DEF Pairing!Event, LastSecond, Pairing!KindsAssumption
<1>6. e \in Receipt
  BY <1>3, <1>4, <1>5 DEF Pairing!Event, Receipt
<1>. HIDE DEF e
<1>7. /\ history' \in Seq(Receipt) /\ DOMAIN history' = 1 .. n + 1
      /\ history'[n + 1] = e /\ \A i \in 1 .. n : history'[i] = history[i]
  BY <1>0, <1>2, <1>6 DEF PairingInv, e
<1>8. InTime'
 <2>1. ASSUME NEW i \in 1 .. n + 1
       PROVE  /\ history'[i].at \in Nat
              /\ history'[i].at <= here /\ history'[i].at <= Pairing!provider_second(now')
              /\ history'[i].at <= history'[i].second /\ history'[i].second <= LastSecond
              /\ history'[i].timed => history'[i].second = history'[i].at
  <3>1. CASE i = n + 1
    BY <1>3, <1>5, <1>7, <3>1
  <3>2. CASE i # n + 1
   <4>1. i \in 1 .. n
     BY <1>0, <3>2
   <4>2. /\ history[i].at <= here /\ history[i].at <= history[i].second
         /\ history[i].second <= LastSecond /\ history[i].at \in Nat
         /\ history[i].timed => history[i].second = history[i].at
     BY <1>0, <4>1 DEF PairingInv, InTime, Receipt
   <4>3. history'[i] = history[i]
     BY <1>7, <4>1
   <4>4. history'[i].at <= Pairing!provider_second(now')
     BY <1>3, <4>2, <4>3
   <4>. QED BY <4>2, <4>3, <4>4
  <3>. QED BY <3>1, <3>2
 <2>2. ASSUME NEW i \in 1 .. n + 1, NEW j \in 1 .. n + 1, i <= j
       PROVE  history'[i].at <= history'[j].at
  <3>1. CASE j = n + 1
    BY <1>5, <1>7, <2>1, <3>1
  <3>2. CASE j # n + 1
   <4>1. i \in 1 .. n /\ j \in 1 .. n
     BY <1>0, <2>2, <3>2
   <4>. QED BY <1>0, <1>7, <2>2, <4>1 DEF PairingInv, InTime
  <3>. QED BY <3>1, <3>2
 <2>. QED BY <1>7, <2>1, <2>2 DEF InTime, LastSecond
<1>9. Traced'
 <2>1. ASSUME NEW o \in 1 .. n
       PROVE  IF history'[o].kind # Pairing!Trigger /\ history'[o].of = Pairing!Unlinked
              THEN \E l \in 1 .. n + 1 : Answers(o, l)'
              ELSE history'[o].whose = history'[o].of
  <3>1. history'[o] = history[o]
    BY <1>7
  <3>2. CASE history[o].kind # Pairing!Trigger /\ history[o].of = Pairing!Unlinked
   <4>1. PICK l \in 1 .. n : Answers(o, l)
     BY <1>0, <3>2 DEF PairingInv, Traced
   <4>2. \A u \in 1 .. n + 1 : l < u /\ u < o => u \in 1 .. n
     BY <1>0
   <4>3. Answers(o, l)'
     BY <1>0, <1>7, <4>1, <4>2 DEF Answers
   <4>4. l \in 1 .. n + 1
     BY <1>0, <4>1
   <4>. QED BY <3>1, <3>2, <4>3, <4>4
  <3>3. CASE ~(history[o].kind # Pairing!Trigger /\ history[o].of = Pairing!Unlinked)
    BY <1>0, <3>1, <3>3 DEF PairingInv, Traced
  <3>. QED BY <3>2, <3>3
 <2>2. IF e.kind # Pairing!Trigger /\ e.of = Pairing!Unlinked
       THEN \E l \in 1 .. n + 1 : Answers(n + 1, l)'
       ELSE e.whose = e.of
  <3>1. CASE ~(kind # Pairing!Trigger /\ of = Pairing!Unlinked)
    BY <1>5, <3>1
  <3>2. CASE kind # Pairing!Trigger /\ of = Pairing!Unlinked
   <4>. DEFINE triggers == {i \in DOMAIN history : history[i].kind = Pairing!Trigger}
   <4>1. PICK l \in Pairing!Latest : /\ whose = history[l].whose
                                    /\ here - history[l].at <= PAIRING_BOUND
     BY <3>2
   <4>2. triggers # {} /\ l = Pairing!Max(triggers)
     BY <4>1 DEF Pairing!Latest
   <4>3. triggers \subseteq 0 .. n
     BY <1>0
   <4>4. l \in triggers /\ \A u \in triggers : l >= u
    <5>. HIDE DEF triggers
    <5>1. \E m \in triggers : \A u \in triggers : m >= u
      BY <1>0, <4>2, <4>3, GreatestOf
    <5>. QED BY <4>2, <5>1 DEF Pairing!Max
   <4>5. l \in 1 .. n /\ history[l].kind = Pairing!Trigger
     BY <1>0, <4>4
   <4>6. \A u \in 1 .. n + 1 : l < u /\ u < n + 1 => history'[u].kind # Pairing!Trigger
    <5>. SUFFICES ASSUME NEW u \in 1 .. n + 1, l < u, u < n + 1, history'[u].kind = Pairing!Trigger
                  PROVE  FALSE
      OBVIOUS
    <5>1. u \in 1 .. n
      BY <1>0
    <5>2. u \in triggers
      BY <1>0, <1>7, <5>1
    <5>. QED BY <1>0, <4>4, <4>5, <5>1, <5>2
   <4>7. Answers(n + 1, l)'
    <5>1. /\ history'[n + 1].whose = whose /\ history'[n + 1].at = here /\ l < n + 1
          /\ history'[l] = history[l]
      BY <1>0, <1>5, <1>7, <4>5
    <5>. QED BY <1>7, <4>1, <4>5, <4>6, <5>1 DEF Answers
   <4>8. l \in 1 .. n + 1
     BY <1>0, <4>5
   <4>. QED BY <1>5, <3>2, <4>7, <4>8
  <3>. QED BY <3>1, <3>2
 <2>3. ASSUME NEW o \in 1 .. n + 1, o # n + 1 PROVE o \in 1 .. n
   BY <1>0, <2>3
 <2>. QED BY <1>7, <2>1, <2>2, <2>3 DEF Traced
<1>. QED BY <1>1, <1>7, <1>8, <1>9 DEF PairingInv

LEMMA PairingStep ==
    ASSUME Pairing!KindsAssumption PROVE PairingInv /\ [Pairing!Next]_(Pairing!vars) => PairingInv'
<1>. SUFFICES ASSUME PairingInv, [Pairing!Next]_(Pairing!vars) PROVE PairingInv'
  OBVIOUS
<1>0. DOMAIN history = 1 .. Len(history) /\ \A i \in DOMAIN history : history[i] \in Receipt
  BY DEF PairingInv
<1>1. CASE UNCHANGED Pairing!vars
  BY <1>1 DEF PairingInv, InTime, Traced, Answers, Pairing!vars
<1>2. CASE Pairing!Passes
 <2>1. /\ now' \in 0 .. MaxTick
       /\ Pairing!provider_second(now) \in Nat /\ Pairing!provider_second(now') \in Nat
       /\ Pairing!provider_second(now) <= Pairing!provider_second(now')
  <3>1. now \in Nat /\ now' \in Nat /\ now <= now' /\ now' \in 0 .. MaxTick
    BY <1>2 DEF Pairing!Passes, PairingInv, Pairing!KindsAssumption
  <3>. QED BY <3>1, SecondsPass
 <2>2. UNCHANGED <<history, stated, received>>
   BY <1>2 DEF Pairing!Passes
 <2>3. Traced'
   BY <2>2 DEF PairingInv, Traced, Answers
 <2>4. InTime'
  <3>1. \A i \in DOMAIN history : history[i].at <= Pairing!provider_second(now')
   <4>1. ASSUME NEW i \in DOMAIN history PROVE history[i].at <= Pairing!provider_second(now')
    <5>1. history[i].at \in Nat /\ history[i].at <= Pairing!provider_second(now)
      BY <1>0 DEF PairingInv, InTime, Receipt
    <5>. QED BY <2>1, <5>1
   <4>. QED BY <4>1
  <3>. QED BY <2>2, <3>1 DEF PairingInv, InTime
 <2>. QED BY <2>1, <2>2, <2>3, <2>4 DEF PairingInv
<1>3. ASSUME NEW c \in Changes, Pairing!Happens(Pairing!Trigger, c, c) PROVE PairingInv'
  BY <1>3, PairingHappens
<1>4. ASSUME NEW k \in Kinds, NEW a \in Pairing!Audits, Pairing!Happens(k, a, a) PROVE PairingInv'
 <2>1. a \in Changes /\ a # Pairing!Unlinked
   BY DEF Pairing!Audits
 <2>. QED BY <1>4, <2>1, PairingHappens
<1>5. ASSUME NEW k \in Kinds, NEW i \in Pairing!Latest,
             Pairing!provider_second(now) - history[i].at <= PAIRING_BOUND,
             Pairing!Happens(k, Pairing!Unlinked, history[i].whose)
      PROVE  PairingInv'
 <2>1. i \in DOMAIN history
  <3>. DEFINE triggers == {t \in DOMAIN history : history[t].kind = Pairing!Trigger}
  <3>1. triggers # {} /\ i = Pairing!Max(triggers)
    BY DEF Pairing!Latest
  <3>2. triggers \subseteq 0 .. Len(history) /\ Len(history) \in Nat
    BY <1>0 DEF PairingInv
  <3>3. i \in triggers
   <4>. HIDE DEF triggers
   <4>1. \E m \in triggers : \A u \in triggers : m >= u
     BY <3>1, <3>2, GreatestOf
   <4>. QED BY <3>1, <4>1 DEF Pairing!Max
  <3>. QED BY <3>3
 <2>2. history[i].whose \in Changes
   BY <1>0, <2>1 DEF Receipt
 <2>3. k # Pairing!Trigger
   BY DEF Pairing!KindsAssumption
 <2>. QED BY <1>5, <2>2, <2>3, PairingHappens
<1>. QED BY <1>1, <1>2, <1>3, <1>4, <1>5 DEF Pairing!Next, Pairing!Triggered, Pairing!Answered

\* What assignment says of an outcome.
Say(o) == IF history[o].of = Pairing!Unlinked THEN Pairing!_time_fallback(o) ELSE Pairing!_exact_link(o)

\* A trigger of the audit whose time the provider gave.
TimedOwn(t) == t \in Pairing!Triggers /\ history[t].of = Audit /\ history[t].timed

LEMMA ReceiptType ==
    ASSUME Pairing!KindsAssumption, PairingInv, NEW i \in DOMAIN history
    PROVE  /\ i \in Nat /\ i \in 1 .. Len(history)
           /\ history[i].at \in Nat /\ history[i].second \in Nat /\ history[i].at <= history[i].second
           /\ history[i].timed \in BOOLEAN
           /\ history[i].timed => history[i].second = history[i].at
<1>1. history[i] \in Receipt /\ i \in Nat /\ i \in 1 .. Len(history)
  BY DEF PairingInv
<1>. QED BY <1>1 DEF PairingInv, InTime, Receipt

\* The window opens no later than a trigger of the audit with a known time.
LEMMA AnchorIsEarly ==
    ASSUME Pairing!KindsAssumption, PairingInv, NEW t \in DOMAIN history, history[t].kind = Pairing!Trigger,
           history[t].of = Audit, history[t].timed
    PROVE  Pairing!resolve_anchor \in Nat /\ Pairing!resolve_anchor <= history[t].second
<1>. DEFINE triggered == {history[i].second : i \in {j \in DOMAIN history :
                             history[j].kind = Pairing!Trigger /\ history[j].of = Audit /\ history[j].timed}}
<1>1. triggered \subseteq Nat /\ history[t].second \in triggered /\ history[t].second \in Nat
  BY ReceiptType
<1>2. Pairing!resolve_anchor = IF stated THEN 0 ELSE Pairing!Min(triggered)
  BY <1>1 DEF Pairing!resolve_anchor
<1>. HIDE DEF triggered
<1>3. \E m \in triggered : \A u \in triggered : u >= m
  BY <1>1, LeastOf
<1>4. Pairing!Min(triggered) \in triggered /\ \A u \in triggered : Pairing!Min(triggered) <= u
 <2>1. PICK m \in triggered : \A u \in triggered : u >= m
   BY <1>3
 <2>2. \A u \in triggered : m <= u
   BY <1>1, <2>1
 <2>. QED BY <2>2 DEF Pairing!Min
<1>5. CASE stated
  BY <1>1, <1>2, <1>5
<1>6. CASE ~stated
  BY <1>1, <1>2, <1>4, <1>6
<1>. QED BY <1>5, <1>6

\* What the change applied last before an outcome is in sight when a timed trigger
\* of the audit is.
LEMMA LatestInSight ==
    ASSUME Pairing!KindsAssumption, PairingInv, NEW o \in DOMAIN history, NEW l \in DOMAIN history, Answers(o, l),
           NEW t, TimedOwn(t), history[t].second <= history[o].at
    PROVE  l \in Pairing!Triggers
<1>1. t \in DOMAIN history /\ history[t].kind = Pairing!Trigger /\ history[t].of = Audit /\ history[t].timed
  BY DEF TimedOwn, Pairing!Triggers, Pairing!Events
<1>2. Pairing!resolve_anchor \in Nat /\ Pairing!resolve_anchor <= history[t].second
  BY <1>1, AnchorIsEarly
<1>3. history[l].second >= Pairing!pairing_start
 <2>1. history[o].at - history[l].at <= PAIRING_BOUND /\ PAIRING_BOUND \in Nat
   BY DEF Answers, Pairing!KindsAssumption
 <2>2. history[t].second \in Nat /\ history[o].at \in Nat /\ history[l].at \in Nat
       /\ history[l].second \in Nat /\ history[l].at <= history[l].second
   BY <1>1, ReceiptType
 <2>. QED BY <1>2, <2>1, <2>2 DEF Pairing!pairing_start
<1>. QED BY <1>3 DEF Pairing!Triggers, Pairing!Events, Answers

\* It is among those the outcome may answer.
LEMMA LatestIsFound ==
    ASSUME Pairing!KindsAssumption, PairingInv, NEW o \in DOMAIN history, NEW l \in Pairing!Triggers, Answers(o, l)
    PROVE  l \in Pairing!_fallback_triggers(o)
<1>0. /\ l \in DOMAIN history /\ l < o /\ PAIRING_BOUND \in Nat
      /\ history[o].at - history[l].at <= PAIRING_BOUND
  BY DEF Pairing!Triggers, Pairing!Events, Answers, Pairing!KindsAssumption
<1>1. /\ history[o].at \in Nat /\ history[o].second \in Nat /\ history[o].at <= history[o].second
      /\ history[l].at \in Nat /\ history[l].second \in Nat /\ history[l].at <= history[l].second
      /\ history[l].timed => history[l].second = history[l].at
      /\ history[o].timed => history[o].second = history[o].at
      /\ history[o].timed \in BOOLEAN /\ history[l].timed \in BOOLEAN
  BY <1>0, ReceiptType
<1>2. history[l].at <= history[o].at
 <2>1. l \in Nat /\ o \in Nat
   BY <1>0, ReceiptType
 <2>. QED BY <1>0, <2>1 DEF PairingInv, InTime
<1>3. Pairing!may_precede(l, o)
  BY <1>1, <1>2 DEF Pairing!may_precede
<1>4. ASSUME history[o].timed
      PROVE  history[o].second - Pairing!Min({history[l].second, history[o].second}) <= PAIRING_BOUND
 <2>1. Pairing!Min({history[l].second, history[o].second}) \in {history[l].second, history[o].second}
  <3>1. \E m \in {history[l].second, history[o].second} :
            \A u \in {history[l].second, history[o].second} : m <= u
    BY <1>1
  <3>. QED BY <3>1 DEF Pairing!Min
 <2>. HIDE DEF Pairing!Min
 <2>2. history[o].second = history[o].at
   BY <1>1, <1>4
 <2>. QED BY <1>0, <1>1, <2>1, <2>2
<1>5. ASSUME NEW u \in Pairing!Triggers, Pairing!surely_between(u, l, o) PROVE FALSE
 <2>1. /\ u \in DOMAIN history /\ history[u].kind = Pairing!Trigger /\ history[u].timed /\ history[o].timed
       /\ history[l].second < history[u].second /\ history[u].second < history[o].second
   BY <1>5 DEF Pairing!Triggers, Pairing!Events, Pairing!surely_between
 <2>2. history[l].at < history[u].at /\ history[u].at < history[o].at /\ history[u].at \in Nat
  <3>1. history[u].second = history[u].at /\ history[u].at \in Nat /\ history[o].second = history[o].at
    BY <1>1, <2>1, ReceiptType
  <3>. QED BY <1>1, <2>1, <3>1
 <2>3. u \in Nat /\ l \in Nat /\ o \in Nat
   BY <1>0, <2>1, ReceiptType
 <2>4. ~(u <= l) /\ ~(o <= u)
   BY <1>0, <1>1, <2>1, <2>2 DEF PairingInv, InTime
 <2>5. l < u /\ u < o
   BY <2>3, <2>4
 <2>. QED BY <2>1, <2>5 DEF Answers
<1>. QED BY <1>3, <1>4, <1>5 DEF Pairing!_fallback_triggers

\* An outcome assigned to the audit is its own, placed where it happened, after a
\* trigger of the audit with a known time.
LEMMA AssignedIsOwn ==
    ASSUME Pairing!KindsAssumption, PairingInv, NEW o \in Pairing!Outcomes, NEW x \in Say(o), x.said = "assigned"
    PROVE  /\ o \in Pairing!InSight /\ x.kind = history[o].kind
           /\ x.at = history[o].second /\ x.at = history[o].at
           /\ \E t : TimedOwn(t) /\ history[t].second <= history[o].at
<1>. DEFINE found == Pairing!_fallback_triggers(o)
            linked == {t \in Pairing!Triggers : history[t].of = history[o].of /\ Pairing!may_precede(t, o)}
<1>1. /\ o \in DOMAIN history /\ history[o].kind # Pairing!Trigger
      /\ history[o].second >= Pairing!pairing_start
  BY DEF Pairing!Outcomes, Pairing!Triggers, Pairing!Events
<1>2. /\ history[o].at \in Nat
      /\ history[o].timed => history[o].second = history[o].at
  BY <1>1, ReceiptType
<1>3. Audit # Pairing!Unlinked
  BY DEF Pairing!KindsAssumption, Pairing!Audits
<1>4. x = Pairing!Assigned(o) \/ x = Pairing!Uncertain(o)
  BY Zenon DEF Say, Pairing!_time_fallback, Pairing!_exact_link
<1>5. x = Pairing!Assigned(o)
  BY <1>4 DEF Pairing!Uncertain
<1>6. x.kind = history[o].kind /\ x.at = history[o].second
  BY <1>5 DEF Pairing!Assigned
<1>7. CASE history[o].of = Pairing!Unlinked
 <2>1. /\ \A t \in found \union {o} : history[t].timed
       /\ {Pairing!identity(t) : t \in found} = {Audit}
  <3>1. Pairing!Uncertain(o) # x
    BY <1>5 DEF Pairing!Uncertain, Pairing!Assigned
  <3>. QED BY <1>7, <3>1 DEF Say, Pairing!_time_fallback
 <2>2. history[o].timed /\ \A t \in found : history[t].timed /\ history[t].of = Audit
   BY <2>1, Zenon DEF Pairing!identity
 <2>3. PICK t \in found : TRUE
   BY <2>1
 <2>4. TimedOwn(t) /\ history[t].second <= history[o].at
  <3>1. t \in Pairing!Triggers /\ Pairing!may_precede(t, o)
    BY <2>3 DEF Pairing!_fallback_triggers
  <3>. QED BY <1>2, <2>2, <2>3, <3>1 DEF TimedOwn, Pairing!may_precede
 <2>5. PICK l \in DOMAIN history : Answers(o, l)
   BY <1>1, <1>7 DEF PairingInv, Traced
 <2>6. l \in Pairing!Triggers
   BY <1>1, <2>4, <2>5, LatestInSight
 <2>7. l \in found
   BY <1>1, <2>5, <2>6, LatestIsFound
 <2>8. history[o].whose = Audit
  <3>1. history[l].of = Audit
    BY <2>2, <2>7
  <3>2. history[l].kind = Pairing!Trigger /\ history[l].whose = history[o].whose
    BY <2>5 DEF Answers
  <3>3. history[l].whose = history[l].of
    BY <2>5, <3>2 DEF PairingInv, Traced
  <3>. QED BY <3>1, <3>2, <3>3
 <2>9. o \in Pairing!InSight
   BY <1>1, <2>8 DEF Pairing!InSight, Pairing!Own
 <2>. QED BY <1>2, <1>6, <2>2, <2>4, <2>9
<1>8. CASE history[o].of # Pairing!Unlinked
 <2>1. history[o].of = Audit /\ history[o].timed /\ \E t \in linked : history[t].timed
  <3>1. Pairing!Uncertain(o) # x
    BY <1>5 DEF Pairing!Uncertain, Pairing!Assigned
  <3>. QED BY <1>8, <3>1 DEF Say, Pairing!_exact_link
 <2>2. PICK t \in linked : history[t].timed
   BY <2>1
 <2>3. TimedOwn(t) /\ history[t].second <= history[o].at
   BY <1>2, <2>1, <2>2 DEF TimedOwn, Pairing!may_precede
 <2>4. history[o].whose = Audit
   BY <1>1, <1>8, <2>1 DEF PairingInv, Traced
 <2>5. o \in Pairing!InSight
   BY <1>1, <2>4 DEF Pairing!InSight, Pairing!Own
 <2>. QED BY <1>2, <1>6, <2>1, <2>3, <2>5
<1>. QED BY <1>7, <1>8

\* Of an outcome of the audit's own in sight something is said, if a trigger of the
\* audit with a known time came first.
LEMMA OwnIsSaid ==
    ASSUME Pairing!KindsAssumption, PairingInv, NEW o \in Pairing!InSight, NEW t, TimedOwn(t),
           history[t].second <= history[o].at
    PROVE  o \in Pairing!Outcomes /\ \E x \in Say(o) : x = Pairing!Assigned(o) \/ x = Pairing!Uncertain(o)
<1>1. /\ o \in DOMAIN history /\ history[o].kind # Pairing!Trigger /\ history[o].whose = Audit
      /\ o \in Pairing!Outcomes
  BY DEF Pairing!InSight, Pairing!Own, Pairing!Outcomes, Pairing!Triggers, Pairing!Events
<1>2. /\ history[o].at \in Nat /\ history[o].second \in Nat /\ history[o].at <= history[o].second
      /\ t \in DOMAIN history /\ history[t].second \in Nat
  BY <1>1, ReceiptType DEF TimedOwn, Pairing!Triggers, Pairing!Events
<1>3. CASE history[o].of = Pairing!Unlinked
 <2>1. PICK l \in DOMAIN history : Answers(o, l)
   BY <1>1, <1>3 DEF PairingInv, Traced
 <2>2. l \in Pairing!Triggers
   BY <1>1, <2>1, LatestInSight
 <2>3. l \in Pairing!_fallback_triggers(o)
   BY <1>1, <2>1, <2>2, LatestIsFound
 <2>4. history[l].of = Audit
  <3>1. history[l].kind = Pairing!Trigger /\ history[l].whose = history[o].whose
    BY <2>1 DEF Answers
  <3>. QED BY <1>1, <3>1 DEF PairingInv, Traced
 <2>5. Audit \in {Pairing!identity(u) : u \in Pairing!_fallback_triggers(o)}
   BY <2>3, <2>4 DEF Pairing!identity
 <2>6. Pairing!Uncertain(o) \in Pairing!_time_fallback(o) \/ Pairing!Assigned(o) \in Pairing!_time_fallback(o)
   BY <2>5, Zenon DEF Pairing!_time_fallback
 <2>. QED BY <1>1, <1>3, <2>6 DEF Say
<1>4. CASE history[o].of # Pairing!Unlinked
 <2>. DEFINE linked == {u \in Pairing!Triggers : history[u].of = history[o].of /\ Pairing!may_precede(u, o)}
 <2>1. history[o].of = Audit
   BY <1>1, <1>4 DEF PairingInv, Traced
 <2>2. t \in linked
   BY <1>2, <2>1 DEF TimedOwn, Pairing!may_precede
 <2>3. Pairing!Uncertain(o) \in Pairing!_exact_link(o) \/ Pairing!Assigned(o) \in Pairing!_exact_link(o)
   BY <2>1, <2>2 DEF Pairing!_exact_link
 <2>. QED BY <1>1, <1>4, <2>3 DEF Say
<1>. QED BY <1>3, <1>4

\* What _pair_device decides from.
AssignedOnes == {x \in Pairing!_assign : x.said = "assigned"}
LastAt == {x.at : x \in {y \in AssignedOnes : \A z \in AssignedOnes : z.at <= y.at}}
Unsettling == {x \in Pairing!_assign : x.said = "uncertain" /\ \A l \in LastAt : x.at >= l}
FinalKinds == {x.kind : x \in {y \in AssignedOnes : y.at \in LastAt}}

LEMMA SaidOfAnOutcome ==
    ASSUME NEW x
    PROVE  x \in Pairing!_assign <=> \E o \in Pairing!Outcomes : x \in Say(o)
  BY DEF Pairing!_assign, Say

\* The last outcome of the audit's own in sight is the final one, when no uncertain
\* one comes after those assigned.
LEMMA LastIsFinal ==
    ASSUME Pairing!KindsAssumption, PairingInv, AssignedOnes # {}, Unsettling = {}
    PROVE  /\ Pairing!InSight # {}
           /\ history[Pairing!Max(Pairing!InSight)].kind \in FinalKinds
<1>1. PICK x \in AssignedOnes : TRUE
  OBVIOUS
<1>2. PICK o \in Pairing!Outcomes : x \in Say(o)
  BY <1>1, SaidOfAnOutcome DEF AssignedOnes
<1>3. o \in Pairing!InSight /\ \E t : TimedOwn(t) /\ history[t].second <= history[o].at
  BY <1>1, <1>2, AssignedIsOwn DEF AssignedOnes
<1>4. PICK t : TimedOwn(t) /\ history[t].second <= history[o].at
  BY <1>3
<1>. DEFINE m == Pairing!Max(Pairing!InSight)
<1>5. m \in Pairing!InSight /\ \A i \in Pairing!InSight : m >= i
 <2>1. Pairing!InSight \subseteq 0 .. Len(history) /\ Len(history) \in Nat
   BY DEF Pairing!InSight, Pairing!Own, PairingInv
 <2>2. \E k \in Pairing!InSight : \A i \in Pairing!InSight : k >= i
   BY <1>3, <2>1, GreatestOf
 <2>. QED BY <2>2 DEF Pairing!Max
<1>. HIDE DEF m
<1>6. /\ m \in DOMAIN history /\ history[m].at \in Nat /\ history[m].second \in Nat
      /\ history[m].at <= history[m].second
  BY <1>5, ReceiptType DEF Pairing!InSight, Pairing!Own
<1>7. ASSUME NEW i \in Pairing!InSight
      PROVE  history[i].at \in Nat /\ history[i].at <= history[m].at
 <2>1. i \in DOMAIN history /\ i \in Nat /\ m \in Nat /\ history[i].at \in Nat
   BY <1>6, ReceiptType DEF Pairing!InSight, Pairing!Own
 <2>2. i <= m
   BY <1>5, <2>1
 <2>. QED BY <1>6, <2>1, <2>2 DEF PairingInv, InTime
<1>8. TimedOwn(t) /\ history[t].second <= history[m].at
 <2>1. history[t].second \in Nat
   BY <1>4, ReceiptType DEF TimedOwn, Pairing!Triggers, Pairing!Events
 <2>2. history[o].at \in Nat /\ history[o].at <= history[m].at
   BY <1>3, <1>7
 <2>. QED BY <1>4, <1>6, <2>1, <2>2
<1>9. PICK y \in Say(m) : m \in Pairing!Outcomes /\ (y = Pairing!Assigned(m) \/ y = Pairing!Uncertain(m))
  BY <1>5, <1>8, OwnIsSaid
<1>10. y \in Pairing!_assign /\ y.at = history[m].second /\ y.kind = history[m].kind
  BY <1>9, SaidOfAnOutcome DEF Pairing!Assigned, Pairing!Uncertain
<1>11. ASSUME NEW z \in AssignedOnes
       PROVE  z.at \in Nat /\ z.at <= y.at
 <2>1. PICK q \in Pairing!Outcomes : z \in Say(q)
   BY SaidOfAnOutcome DEF AssignedOnes
 <2>2. q \in Pairing!InSight /\ z.at = history[q].at
   BY <2>1, AssignedIsOwn DEF AssignedOnes
 <2>3. history[q].at \in Nat /\ history[q].at <= history[m].at
   BY <1>7, <2>2
 <2>. QED BY <1>6, <1>10, <2>2, <2>3
<1>12. y.said # "uncertain"
 <2>. SUFFICES ASSUME y.said = "uncertain" PROVE y \in Unsettling
   OBVIOUS
 <2>1. \A l \in LastAt : y.at >= l
  <3>. SUFFICES ASSUME NEW z \in AssignedOnes PROVE y.at >= z.at
    BY DEF LastAt
  <3>1. y.at \in Nat
    BY <1>6, <1>10
  <3>. QED BY <1>11, <3>1
 <2>. QED BY <1>10, <2>1 DEF Unsettling
<1>13. y \in AssignedOnes
  BY <1>9, <1>10, <1>12 DEF AssignedOnes, Pairing!Assigned, Pairing!Uncertain
<1>14. y.at \in LastAt
  BY <1>11, <1>13 DEF LastAt
<1>15. history[m].kind \in FinalKinds
  BY <1>10, <1>13, <1>14 DEF FinalKinds
<1>. QED BY <1>3, <1>15 DEF m

\* The kinds of the outcomes are finitely many: of two that differ there are two.
LEMMA FinalKindsCount ==
    ASSUME Pairing!KindsAssumption, PairingInv, ~(Pairing!Cardinality(FinalKinds) > 1),
           NEW j \in FinalKinds, NEW k \in FinalKinds
    PROVE  j = k
<1>. SUFFICES ASSUME j # k PROVE FALSE
  OBVIOUS
<1>1. \A S : Pairing!Cardinality(S) = Cardinality(S)
  BY Zenon DEF Pairing!Cardinality, Cardinality
<1>. DEFINE kinds == {history[i].kind : i \in 1 .. Len(history)}
            f == [i \in 1 .. Len(history) |-> history[i].kind]
<1>2. IsFiniteSet(kinds)
 <2>1. f \in Surjection(1 .. Len(history), kinds)
   BY DEF Surjection
 <2>2. IsFiniteSet(1 .. Len(history))
   BY FS_Interval DEF PairingInv
 <2>. HIDE DEF f, kinds
 <2>. QED BY <2>1, <2>2, FS_Surjection
<1>3. FinalKinds \subseteq kinds
 <2>. SUFFICES ASSUME NEW x \in AssignedOnes PROVE x.kind \in kinds
   BY DEF FinalKinds
 <2>1. PICK o \in Pairing!Outcomes : x \in Say(o)
   BY SaidOfAnOutcome DEF AssignedOnes
 <2>2. x.kind = history[o].kind
   BY <2>1, AssignedIsOwn DEF AssignedOnes
 <2>3. o \in 1 .. Len(history)
   BY DEF PairingInv, Pairing!Outcomes, Pairing!Events
 <2>. QED BY <2>2, <2>3
<1>. HIDE DEF kinds
<1>4. IsFiniteSet(FinalKinds) /\ Cardinality(FinalKinds) \in Nat
  BY <1>2, <1>3, FS_Subset, FS_CardinalityType
<1>5. Cardinality({j, k}) = 2
 <2>1. IsFiniteSet({j}) /\ Cardinality({j}) = 1
   BY FS_Singleton
 <2>2. Cardinality({j} \union {k}) = Cardinality({j}) + 1
   BY <2>1, FS_AddElement
 <2>3. {j, k} = {j} \union {k}
   OBVIOUS
 <2>. QED BY <2>1, <2>2, <2>3
<1>6. Cardinality({j, k}) <= Cardinality(FinalKinds)
  BY <1>4, FS_Subset
<1>. QED BY <1>1, <1>4, <1>5, <1>6

\* What _pair_device says, by what it decides from.
LEMMA PairedSays ==
    LET peak == IF \E x \in AssignedOnes : x.kind \in Pairing!_TROUBLE THEN 2 ELSE 0
        present == IF FinalKinds \subseteq Pairing!_TROUBLE THEN 2 ELSE 0
        said == Pairing!_pair_device
    IN  \/ said.state = "unknown" /\ said.peak = 0 /\ said.current = 0
        \/ said.state = "ambiguous" /\ said.peak = peak /\ said.current = 0
        \/ /\ AssignedOnes # {} /\ Unsettling = {} /\ said.peak = peak /\ said.current = present
           /\ \/ said.state = "ambiguous"
              \/ said.state = (CHOOSE k \in FinalKinds : TRUE) /\ ~(Pairing!Cardinality(FinalKinds) > 1)
  BY DEF Pairing!_pair_device, AssignedOnes, Unsettling, FinalKinds, LastAt, Pairing!State, Pairing!Warns

\* Once pairing settles on a state, that was the last outcome of the audit's change in
\* sight: no two events of one second, receipt without a provider time or trigger of
\* another change makes it name another (guardian/deployment.py _pair_device).
THEOREM SettledStatesAreTrue ==
    ASSUME Pairing!KindsAssumption
    PROVE  Pairing!Spec => []Pairing!SettledIsTrue
<1>1. PairingInv => Pairing!SettledIsTrue
 <2>. SUFFICES ASSUME PairingInv, Pairing!_pair_device.state \in Kinds
               PROVE  Pairing!InSight # {}
                      /\ history[Pairing!Max(Pairing!InSight)].kind = Pairing!_pair_device.state
   BY DEF Pairing!SettledIsTrue
 <2>1. "unknown" \notin Kinds /\ "ambiguous" \notin Kinds
   BY DEF Pairing!KindsAssumption
 <2>2. /\ AssignedOnes # {} /\ Unsettling = {}
       /\ Pairing!_pair_device.state = (CHOOSE k \in FinalKinds : TRUE) /\ ~(Pairing!Cardinality(FinalKinds) > 1)
   BY <2>1, PairedSays
 <2>3. Pairing!InSight # {} /\ history[Pairing!Max(Pairing!InSight)].kind \in FinalKinds
   BY <2>2, LastIsFinal
 <2>4. (CHOOSE k \in FinalKinds : TRUE) \in FinalKinds
   BY <2>3
 <2>. QED BY <2>2, <2>3, <2>4, FinalKindsCount
<1>2. Pairing!Init => PairingInv
  BY PairingInit
<1>3. PairingInv /\ [Pairing!Next]_(Pairing!vars) => PairingInv'
  BY PairingStep
<1>. QED BY <1>1, <1>2, <1>3, PTL DEF Pairing!Spec

\* A warning rests on a failure or reversal of the audit's own, and none is current
\* that was not at its peak (guardian/deployment.py _pair_device).
THEOREM WarningsAreOwn ==
    ASSUME Pairing!KindsAssumption
    PROVE  Pairing!Spec => []Pairing!WarnedForItsOwn
<1>1. PairingInv => Pairing!WarnedForItsOwn
 <2>. SUFFICES ASSUME PairingInv PROVE Pairing!WarnedForItsOwn
   OBVIOUS
 <2>1. ASSUME \E x \in AssignedOnes : x.kind \in Pairing!_TROUBLE
       PROVE  \E i \in Pairing!Own : history[i].kind \in Pairing!_TROUBLE
  <3>1. PICK x \in AssignedOnes : x.kind \in Pairing!_TROUBLE
    BY <2>1
  <3>2. PICK o \in Pairing!Outcomes : x \in Say(o)
    BY <3>1, SaidOfAnOutcome DEF AssignedOnes
  <3>3. o \in Pairing!InSight /\ x.kind = history[o].kind
    BY <3>1, <3>2, AssignedIsOwn DEF AssignedOnes
  <3>. QED BY <3>1, <3>3 DEF Pairing!InSight
 <2>2. ASSUME AssignedOnes # {}, Unsettling = {}, FinalKinds \subseteq Pairing!_TROUBLE
       PROVE  \E x \in AssignedOnes : x.kind \in Pairing!_TROUBLE
  <3>1. PICK k \in FinalKinds : TRUE
    BY <2>2, LastIsFinal
  <3>2. PICK x \in AssignedOnes : x.kind = k
    BY <3>1 DEF FinalKinds
  <3>. QED BY <2>2, <3>1, <3>2
 <2>. DEFINE peak == IF \E x \in AssignedOnes : x.kind \in Pairing!_TROUBLE THEN 2 ELSE 0
             present == IF FinalKinds \subseteq Pairing!_TROUBLE THEN 2 ELSE 0
 <2>3. Pairing!_pair_device.peak = Pairing!Warns => peak = 2
   BY PairedSays DEF Pairing!Warns
 <2>4. Pairing!_pair_device.current <= Pairing!_pair_device.peak
  <3>1. AssignedOnes # {} /\ Unsettling = {} => present <= peak
    BY <2>2
  <3>. QED BY <3>1, PairedSays
 <2>. QED BY <2>1, <2>3, <2>4 DEF Pairing!WarnedForItsOwn
<1>2. Pairing!Init => PairingInv
  BY PairingInit
<1>3. PairingInv /\ [Pairing!Next]_(Pairing!vars) => PairingInv'
  BY PairingStep
<1>. QED BY <1>1, <1>2, <1>3, PTL DEF Pairing!Spec

\* A switch port that a change disabled (SwitchPort).
CONSTANTS WINDOW_CAP, POWER_BASELINE, EVENT_LIMIT, AP_LIMIT, MaxAccessPoints
VARIABLES port, powered, report, change

Ported == INSTANCE SwitchPort

\* The windows and the page of access points are numbers, a second has instants.
PortRow == [kind : {"SW_PORT_UP", "SW_PORT_DOWN", "SW_POE_PORT_ENABLED", "SW_POE_PORT_DISABLED"}, at : Nat]

\* Events are logged one after another, and what the switch reported it delivered.
PortInv ==
    /\ now \in Nat /\ change \in Int /\ change <= now /\ (change # -1 => change \in Nat)
    /\ history \in Seq(PortRow)
    /\ \A i \in DOMAIN history : history[i].at < now
    /\ \A i, j \in DOMAIN history : i <= j => history[i].at <= history[j].at
    /\ powered \subseteq Nat
    /\ report.at \in Int
    /\ report.power_draw > 0 => \E t \in powered : Ported!Moment(t) = report.at

\* Instants, seconds and the instants at which seconds begin.
LEMMA PortClock ==
    ASSUME Ported!PortAssumption, NEW a \in Int, NEW b \in Int
    PROVE  /\ Ported!Second(a) \in Int /\ Ported!Moment(a) \in Int
           /\ Ported!Moment(a) <= a
           /\ a <= b => Ported!Second(a) <= Ported!Second(b)
           /\ Ported!Moment(a) <= b <=> Ported!Second(a) <= Ported!Second(b)
           /\ Ported!Moment(a) <= Ported!Moment(b) <=> Ported!Second(a) <= Ported!Second(b)
           /\ a <= Ported!Moment(b) + PerSecond - 1 <=> Ported!Second(a) <= Ported!Second(b)
           /\ a <= Ported!Moment(b) - 1 <=> Ported!Second(a) < Ported!Second(b)
<1>1. PerSecond \in Nat \ {0}
  BY DEF Ported!PortAssumption
<1>2. /\ a \div PerSecond \in Int /\ (a \div PerSecond) * PerSecond \in Int
      /\ (a \div PerSecond) * PerSecond <= a
      /\ a <= b => a \div PerSecond <= b \div PerSecond
  BY <1>1
<1>3. (a \div PerSecond) * PerSecond <= b <=> a \div PerSecond <= b \div PerSecond
  BY <1>1
<1>4. (a \div PerSecond) * PerSecond <= (b \div PerSecond) * PerSecond <=> a \div PerSecond <= b \div PerSecond
  BY <1>1
<1>5. a <= (b \div PerSecond) * PerSecond + PerSecond - 1 <=> a \div PerSecond <= b \div PerSecond
  BY <1>1
<1>6. a <= (b \div PerSecond) * PerSecond - 1 <=> a \div PerSecond < b \div PerSecond
  BY <1>1
<1>. QED BY <1>2, <1>3, <1>4, <1>5, <1>6, Zenon DEF Ported!Second, Ported!Moment

LEMMA PortInit == Ported!Init => PortInv
  BY DEF Ported!Init, PortInv, Ported!Never

\* One thing happens in an instant, and is logged.
LEMMA PortLogged ==
    ASSUME PortInv, NEW kind \in {"SW_PORT_UP", "SW_PORT_DOWN", "SW_POE_PORT_ENABLED", "SW_POE_PORT_DISABLED"},
           Ported!Tick, Ported!Logged(kind), UNCHANGED <<report, change>>
    PROVE  PortInv'
<1>0. PICK n \in Nat : DOMAIN history = 1 .. n /\ n = Len(history) /\ \A i \in 1 .. n : history[i] \in PortRow
  BY DEF PortInv
<1>1. now \in Nat /\ now' = now + 1 /\ powered' \subseteq Nat /\ powered \subseteq powered'
  BY DEF PortInv, Ported!Tick
<1>2. /\ history' \in Seq(PortRow) /\ DOMAIN history' = 1 .. n + 1
      /\ history'[n + 1].at = now /\ \A i \in 1 .. n : history'[i] = history[i]
 <2>1. [kind |-> kind, at |-> now] \in PortRow
   BY <1>1 DEF PortRow
 <2>. QED BY <1>0, <2>1 DEF PortInv, Ported!Logged
<1>3. ASSUME NEW i \in 1 .. n
      PROVE  history'[i].at \in Nat /\ history'[i].at < now
  BY <1>0, <1>2 DEF PortInv, PortRow
<1>4. ASSUME NEW i \in 1 .. n + 1, i # n + 1 PROVE i \in 1 .. n
  BY <1>0, <1>4
<1>5. \A i \in DOMAIN history' : history'[i].at < now'
  BY <1>1, <1>2, <1>3, <1>4
<1>6. ASSUME NEW i \in 1 .. n + 1, NEW j \in 1 .. n + 1, i <= j
      PROVE  history'[i].at <= history'[j].at
 <2>1. CASE j = n + 1
   BY <1>1, <1>2, <1>3, <1>4, <2>1
 <2>2. CASE j # n + 1
  <3>1. i \in 1 .. n /\ j \in 1 .. n
    BY <1>0, <1>6, <2>2
  <3>. QED BY <1>0, <1>2, <1>6, <3>1 DEF PortInv
 <2>. QED BY <2>1, <2>2
<1>7. report'.power_draw > 0 => \E t \in powered' : Ported!Moment(t) = report'.at
  BY <1>1 DEF PortInv
<1>8. change' \in Int /\ change' <= now' /\ (change' # -1 => change' \in Nat) /\ report'.at \in Int
  BY <1>1 DEF PortInv
<1>. QED BY <1>1, <1>2, <1>5, <1>6, <1>7, <1>8 DEF PortInv

LEMMA PortRowOf ==
    ASSUME Ported!PortAssumption, PortInv, NEW i \in DOMAIN history
    PROVE  /\ i \in Nat /\ history[i].at \in Nat
           /\ Ported!Row(i).kind = history[i].kind /\ Ported!Row(i).at = Ported!Moment(history[i].at)
           /\ Ported!Row(i).at \in Int
<1>1. i \in Nat /\ history[i] \in PortRow
  BY DEF PortInv
<1>2. history[i].at \in Nat
  BY <1>1 DEF PortRow
<1>. QED BY <1>1, <1>2, PortClock, SMTT(30) DEF Ported!Row

LEMMA PortStep ==
    ASSUME Ported!PortAssumption PROVE PortInv /\ [Ported!Next]_(Ported!vars) => PortInv'
<1>. SUFFICES ASSUME PortInv, [Ported!Next]_(Ported!vars) PROVE PortInv'
  OBVIOUS
<1>1. CASE UNCHANGED Ported!vars
  BY <1>1 DEF PortInv, Ported!vars
<1>2. CASE Ported!LinkFlips
  BY <1>2, PortLogged DEF Ported!LinkFlips
<1>3. CASE Ported!PowerSwitches
  BY <1>3, PortLogged DEF Ported!PowerSwitches
<1>4. CASE Ported!SwitchReports
 <2>1. now \in Nat /\ now' = now + 1 /\ powered' \subseteq Nat
   BY <1>4 DEF PortInv, Ported!SwitchReports, Ported!Tick
 <2>2. report'.at = Ported!Moment(now) /\ report'.at \in Int
   BY <1>4, <2>1, PortClock DEF Ported!SwitchReports
 <2>3. report'.power_draw > 0 => \E t \in powered' : Ported!Moment(t) = report'.at
  <3>. SUFFICES ASSUME report'.power_draw > 0 PROVE now \in powered'
    BY <2>2
  <3>1. Ported!Delivers(port)
    BY <1>4 DEF Ported!SwitchReports
  <3>. QED BY <1>4, <3>1 DEF Ported!SwitchReports, Ported!Tick
 <2>4. UNCHANGED <<history, change>>
   BY <1>4 DEF Ported!SwitchReports
 <2>5. \A i \in DOMAIN history : history[i].at < now'
  <3>1. \A i \in DOMAIN history : history[i].at \in Nat /\ history[i].at < now
    BY PortRowOf DEF PortInv
  <3>. QED BY <2>1, <3>1
 <2>. QED BY <2>1, <2>2, <2>3, <2>4, <2>5 DEF PortInv
<1>5. CASE Ported!Passes
 <2>1. now \in Nat /\ now' = now + 1 /\ powered' \subseteq Nat /\ powered \subseteq powered'
   BY <1>5 DEF PortInv, Ported!Passes, Ported!Tick
 <2>2. UNCHANGED <<history, report, change>>
   BY <1>5 DEF Ported!Passes
 <2>3. \A i \in DOMAIN history : history[i].at < now'
  <3>1. \A i \in DOMAIN history : history[i].at \in Nat /\ history[i].at < now
    BY PortRowOf DEF PortInv
  <3>. QED BY <2>1, <3>1
 <2>. QED BY <2>1, <2>2, <2>3 DEF PortInv
<1>6. CASE Ported!Applies
  BY <1>6 DEF Ported!Applies, PortInv
<1>. QED BY <1>1, <1>2, <1>3, <1>4, <1>5, <1>6 DEF Ported!Next

LEMMA PortWindow ==
    ASSUME Ported!PortAssumption, PortInv, Ported!Applied
    PROVE  /\ change \in Nat /\ Ported!duration \in Nat
           /\ Ported!start \in Int /\ Ported!start <= change
           /\ Ported!end \in Int /\ change <= Ported!end
<1>1. change \in Nat /\ now - change \in Nat /\ WINDOW_CAP \in Nat
  BY DEF PortInv, Ported!PortAssumption, Ported!Applied, Ported!Never
<1>2. \E m \in {WINDOW_CAP, now - change} : \A u \in {WINDOW_CAP, now - change} : m <= u
  BY <1>1
<1>3. Ported!duration \in {WINDOW_CAP, now - change}
  BY <1>2 DEF Ported!duration, Ported!Min
<1>4. Ported!duration \in Nat
  BY <1>1, <1>3
<1>. QED BY <1>1, <1>4 DEF Ported!start, Ported!end

\* A usable history has a row of each event of the window, and none that another
\* of its second contradicts.
LEMMA UsableHistory ==
    ASSUME Ported!_history.usable
    PROVE  /\ Ported!_history.events = {Ported!Row(i) : i \in Ported!Matching}
           /\ \A e, f \in Ported!_history.events : e.at = f.at => e.kind = f.kind
  BY DEF Ported!_history, Ported!_usable, Ported!read_rows, Ported!Contradicts

\* The link is up at an instant when the last row of the window until then says so.
LEMMA UpByTheRows ==
    ASSUME Ported!PortAssumption, PortInv, Ported!Applied, Ported!_history.usable,
           NEW T \in Int, NEW i \in Ported!Matching, history[i].kind = "SW_PORT_UP", history[i].at <= T,
           \A j \in DOMAIN history : i <= j /\ history[j].at <= T =>
               /\ Ported!Second(history[j].at) <= Ported!Second(Ported!end)
               /\ j \in Ported!Matching => Ported!Moment(history[j].at) <= Ported!Moment(history[i].at)
    PROVE  Ported!UpAt(T)
<1>. DEFINE S == Ported!LinkEvents(T)
            m == Ported!Max(S)
<1>1. i \in DOMAIN history /\ i \in S
  BY DEF Ported!Matching, Ported!LinkEvents
<1>2. m \in S /\ \A u \in S : m >= u
 <2>1. S \subseteq 0 .. Len(history) /\ Len(history) \in Nat
   BY DEF Ported!LinkEvents, PortInv
 <2>2. \E k \in S : \A u \in S : k >= u
  <3>. HIDE DEF S
  <3>. QED BY <1>1, <2>1, GreatestOf
 <2>. HIDE DEF S
 <2>. QED BY <2>2 DEF Ported!Max
<1>3. Ported!UpAt(T) <=> history[m].kind = "SW_PORT_UP"
  BY <1>1 DEF Ported!UpAt, Ported!UpAfter
<1>. HIDE DEF m
<1>4. m \in DOMAIN history /\ history[m].at <= T
  BY <1>2 DEF Ported!LinkEvents
<1>5. m \in Nat /\ i \in Nat /\ history[m].at \in Int /\ history[i].at \in Int
  BY <1>1, <1>4, PortRowOf
<1>6. i <= m /\ history[i].at <= history[m].at
  BY <1>1, <1>2, <1>4, <1>5 DEF PortInv
<1>7. m \in Ported!Matching
 <2>1. Ported!Second(history[m].at) <= Ported!Second(Ported!end)
   BY <1>4, <1>6
 <2>2. /\ Ported!Second(history[i].at) <= Ported!Second(history[m].at)
       /\ Ported!Second(history[i].at) \in Int /\ Ported!Second(history[m].at) \in Int
   BY <1>5, <1>6, PortClock
 <2>3. Ported!Second(Ported!start) \in Int /\ Ported!Second(Ported!end) \in Int
   BY PortWindow, PortClock
 <2>4. Ported!Second(Ported!start) <= Ported!Second(history[i].at)
   BY <2>3 DEF Ported!Matching, Ported!_epochs
 <2>. QED BY <1>4, <2>1, <2>2, <2>3, <2>4 DEF Ported!Matching, Ported!_epochs
<1>8. Ported!Moment(history[m].at) = Ported!Moment(history[i].at)
 <2>1. Ported!Moment(history[m].at) <= Ported!Moment(history[i].at)
   BY <1>4, <1>6, <1>7
 <2>2. Ported!Moment(history[i].at) <= Ported!Moment(history[m].at)
   BY <1>5, <1>6, PortClock
 <2>3. Ported!Moment(history[i].at) \in Int /\ Ported!Moment(history[m].at) \in Int
   BY <1>5, PortClock
 <2>. QED BY <2>1, <2>2, <2>3
<1>9. history[m].kind = history[i].kind
 <2>1. Ported!Row(m) \in Ported!_history.events /\ Ported!Row(i) \in Ported!_history.events
   BY <1>7, UsableHistory
 <2>2. Ported!Row(m).at = Ported!Row(i).at
   BY <1>1, <1>4, <1>8, PortRowOf
 <2>3. Ported!Row(m).kind = Ported!Row(i).kind
   BY <2>1, <2>2, UsableHistory
 <2>. QED BY <1>1, <1>4, <2>3, PortRowOf
<1>. QED BY <1>3, <1>9

LEMMA MomentOfNat ==
    ASSUME Ported!PortAssumption, NEW a \in Nat
    PROVE  Ported!Moment(a) \in Nat
<1>1. PerSecond \in Nat \ {0} /\ a \div PerSecond \in Nat
  BY WholeSeconds DEF Ported!PortAssumption
<1>2. (a \div PerSecond) * PerSecond \in Nat
  BY <1>1
<1>. QED BY <1>2, Zenon DEF Ported!Moment, Ported!Second

\* A loss found is an event of the second of the change or a later one.
LEMMA LossFollows ==
    ASSUME Ported!PortAssumption, PortInv, Ported!Applied, Ported!_history.usable, NEW kind,
           NEW l \in Ported!losses(Ported!_history.events, kind)
    PROVE  /\ \E i \in DOMAIN history : history[i].kind = kind /\ Ported!Second(history[i].at) >= Ported!Second(change)
           /\ l.at \in Int
<1>1. PICK i \in Ported!Matching : l = Ported!Row(i)
  BY UsableHistory DEF Ported!losses
<1>2. i \in DOMAIN history /\ l.kind = kind /\ change <= l.at
  BY <1>1 DEF Ported!losses, Ported!Matching
<1>3. history[i].kind = kind /\ l.at = Ported!Moment(history[i].at) /\ history[i].at \in Int /\ l.at \in Int
  BY <1>1, <1>2, PortRowOf
<1>4. change \in Int
  BY DEF PortInv
<1>5. l.at <= history[i].at
  BY <1>3, PortClock
<1>6. change <= history[i].at
  BY <1>2, <1>3, <1>4, <1>5
<1>7. /\ Ported!Second(change) <= Ported!Second(history[i].at)
      /\ Ported!Second(change) \in Int /\ Ported!Second(history[i].at) \in Int
  BY <1>3, <1>4, <1>6, PortClock
<1>. QED BY <1>2, <1>3, <1>7

LEMMA LossHolds ==
    ASSUME Ported!PortAssumption, PortInv
    PROVE  Ported!LossIsTrue
<1>. SUFFICES ASSUME Ported!Applied, Ported!_outcome("disabled", <<>>).found
              PROVE  /\ \E t \in Ported!OfTheChange \union {Ported!Moment(change) - 1} : Ported!UpAt(t)
                     /\ \E i \in DOMAIN history : /\ history[i].kind = "SW_PORT_DOWN"
                                                  /\ Ported!Second(history[i].at) >= Ported!Second(change)
  BY DEF Ported!LossIsTrue
<1>. DEFINE events == Ported!_history.events
<1>1. /\ Ported!_history.usable /\ Ported!losses(events, "SW_PORT_DOWN") # {} /\ Ported!WasUp(events)
  BY DEF Ported!_outcome, Ported!_judged, Ported!ATTRIBUTES
<1>2. \E i \in DOMAIN history : /\ history[i].kind = "SW_PORT_DOWN"
                                /\ Ported!Second(history[i].at) >= Ported!Second(change)
  BY <1>1, LossFollows
<1>3. PICK e \in events : /\ e.at < change /\ e.kind = "SW_PORT_UP"
                          /\ \A f \in events : f.at < change => f.at <= e.at
  BY <1>1 DEF Ported!WasUp, Ported!LastIs
<1>4. PICK i \in Ported!Matching : e = Ported!Row(i)
  BY <1>1, UsableHistory
<1>5. /\ i \in DOMAIN history /\ history[i].at \in Int /\ history[i].kind = "SW_PORT_UP"
      /\ Ported!Moment(history[i].at) = e.at /\ e.at \in Int
  BY <1>3, <1>4, PortRowOf DEF Ported!Matching
<1>6. /\ change \in Nat /\ change <= Ported!end /\ Ported!end \in Int /\ now \in Nat /\ change <= now
      /\ PerSecond \in Nat \ {0}
  BY PortWindow DEF PortInv, Ported!PortAssumption
<1>. DEFINE c == Ported!Moment(change)
<1>7. c \in Nat /\ c <= change /\ change <= c + PerSecond - 1
 <2>1. change \in Int
   BY <1>6
 <2>2. Ported!Second(change) \in Int
   BY <2>1, PortClock
 <2>3. Ported!Second(change) <= Ported!Second(change)
   BY <2>2
 <2>. QED BY <1>6, <2>1, <2>3, PortClock, MomentOfNat
\* An event no later than the second of the change that starts before it.
<1>8. ASSUME NEW j \in DOMAIN history, Ported!Second(history[j].at) <= Ported!Second(change),
             Ported!Moment(history[j].at) < change
      PROVE  /\ Ported!Second(history[j].at) <= Ported!Second(Ported!end)
             /\ j \in Ported!Matching => Ported!Moment(history[j].at) <= Ported!Moment(history[i].at)
 <2>1. history[j].at \in Int /\ Ported!Second(change) <= Ported!Second(Ported!end)
       /\ Ported!Second(change) \in Int /\ Ported!Second(Ported!end) \in Int /\ Ported!Second(history[j].at) \in Int
  <3>1. history[j].at \in Int
    BY PortRowOf
  <3>2. change \in Int
    BY <1>6
  <3>. QED BY <1>6, <3>1, <3>2, PortClock
 <2>2. ASSUME j \in Ported!Matching PROVE Ported!Moment(history[j].at) <= Ported!Moment(history[i].at)
  <3>1. Ported!Row(j) \in events /\ Ported!Row(j).at = Ported!Moment(history[j].at)
    BY <1>1, <2>2, UsableHistory, PortRowOf
  <3>. QED BY <1>3, <1>5, <1>8, <3>1
 <2>. QED BY <1>8, <2>1, <2>2
<1>9. CASE c = change
 <2>1. c - 1 \in Int
   BY <1>7
 <2>2. history[i].at <= c - 1
  <3>1. ~(c <= Ported!Moment(history[i].at))
    BY <1>3, <1>5, <1>7, <1>9
  <3>2. change \in Int
    BY <1>6
  <3>3. Ported!Second(history[i].at) \in Int /\ Ported!Second(change) \in Int
    BY <1>5, <3>2, PortClock
  <3>4. ~(Ported!Second(change) <= Ported!Second(history[i].at))
    BY <1>5, <3>1, <3>2, PortClock
  <3>5. Ported!Second(history[i].at) < Ported!Second(change)
    BY <3>3, <3>4
  <3>. QED BY <1>5, <3>2, <3>5, PortClock
 <2>3. ASSUME NEW j \in DOMAIN history, history[j].at <= c - 1
       PROVE  Ported!Second(history[j].at) <= Ported!Second(change) /\ Ported!Moment(history[j].at) < change
  <3>1. history[j].at \in Int /\ change \in Int
    BY <1>6, PortRowOf
  <3>2. Ported!Second(history[j].at) < Ported!Second(change) /\ Ported!Second(history[j].at) \in Int
        /\ Ported!Second(change) \in Int /\ Ported!Moment(history[j].at) <= history[j].at
        /\ Ported!Moment(history[j].at) \in Int
    BY <2>3, <3>1, PortClock
  <3>. QED BY <1>7, <1>9, <2>3, <3>1, <3>2
 <2>4. Ported!UpAt(c - 1)
  <3>. HIDE DEF c
  <3>. QED BY <1>1, <1>4, <1>5, <1>8, <2>1, <2>2, <2>3, UpByTheRows
 <2>. QED BY <1>2, <2>4
<1>10. CASE c # change
 <2>. DEFINE T == IF c + PerSecond - 1 <= now THEN c + PerSecond - 1 ELSE now
 <2>1. T \in 0 .. now /\ T \in Int /\ c <= T /\ T <= c + PerSecond - 1
   BY <1>6, <1>7
 <2>. HIDE DEF T
 <2>2. Ported!Second(T) = Ported!Second(change)
  <3>1. change \in Int
    BY <1>6
  <3>2. Ported!Second(T) \in Int /\ Ported!Second(change) \in Int
    BY <2>1, <3>1, PortClock
  <3>3. Ported!Second(T) <= Ported!Second(change)
    BY <2>1, <3>1, PortClock
  <3>4. Ported!Second(change) <= Ported!Second(T)
    BY <2>1, <3>1, PortClock
  <3>. QED BY <3>2, <3>3, <3>4
 <2>3. T \in Ported!OfTheChange
   BY <2>1, <2>2 DEF Ported!OfTheChange
 <2>4. ASSUME NEW j \in DOMAIN history
       PROVE  /\ history[j].at <= T => /\ Ported!Second(history[j].at) <= Ported!Second(change)
                                       /\ Ported!Moment(history[j].at) < change
              /\ Ported!Moment(history[j].at) < change => history[j].at <= T
  <3>1. history[j].at \in Int /\ change \in Int /\ history[j].at < now
    BY <1>6, PortRowOf DEF PortInv
  <3>2. /\ Ported!Second(history[j].at) \in Int /\ Ported!Second(change) \in Int
        /\ Ported!Moment(history[j].at) \in Int
    BY <3>1, PortClock
  <3>3. ASSUME history[j].at <= T
        PROVE  Ported!Second(history[j].at) <= Ported!Second(change) /\ Ported!Moment(history[j].at) < change
   <4>1. history[j].at <= c + PerSecond - 1
     BY <1>6, <1>7, <2>1, <3>1, <3>3
   <4>2. Ported!Second(history[j].at) <= Ported!Second(change)
     BY <3>1, <4>1, PortClock
   <4>3. Ported!Moment(history[j].at) <= c
     BY <3>1, <4>2, PortClock
   <4>. QED BY <1>6, <1>7, <1>10, <3>2, <4>2, <4>3
  <3>4. ASSUME Ported!Moment(history[j].at) < change
        PROVE  history[j].at <= T
   <4>1. Ported!Moment(history[j].at) <= change
     BY <3>1, <3>2, <3>4
   <4>2. Ported!Second(history[j].at) <= Ported!Second(change)
     BY <3>1, <4>1, PortClock
   <4>3. history[j].at <= c + PerSecond - 1
     BY <3>1, <4>2, PortClock
   <4>. QED BY <1>6, <1>7, <3>1, <4>3 DEF T
  <3>. QED BY <3>3, <3>4
 <2>5. Ported!UpAt(T)
  <3>1. history[i].at <= T
    BY <1>3, <1>5, <2>4
  <3>. QED BY <1>1, <1>4, <1>5, <1>8, <2>1, <2>4, <3>1, UpByTheRows
 <2>. QED BY <1>2, <2>3, <2>5
<1>. QED BY <1>9, <1>10

\* A port reported as lost was up as the change came, to the second, and went down
\* after: a port that was down and flapped, two rows of one second and a page cut
\* short suggest nothing (guardian/plugins/switch_port.py _outcome).
THEOREM LossesAreTrue ==
    ASSUME Ported!PortAssumption
    PROVE  Ported!Spec => []Ported!LossIsTrue
<1>1. PortInv => Ported!LossIsTrue
  BY LossHolds
<1>2. Ported!Init => PortInv
  BY PortInit
<1>3. PortInv /\ [Ported!Next]_(Ported!vars) => PortInv'
  BY PortStep
<1>. QED BY <1>1, <1>2, <1>3, PTL DEF Ported!Spec

\* The greatest of what the two attributes are judged.
LEMMA WorstOfBoth ==
    ASSUME NEW x \in {0, 2, 3}, NEW y \in {0, 2, 3}
    PROVE  Ported!Max({x, y}) = IF x >= y THEN x ELSE y
<1>1. \E m \in {x, y} : \A u \in {x, y} : m >= u
  OBVIOUS
<1>. QED BY <1>1 DEF Ported!Max

LEMMA JudgedSeverity ==
    LET d == Ported!_outcome("disabled", <<>>)
        p == Ported!_outcome("poe_disabled", <<>>)
    IN  /\ d.peak = IF d.found THEN 2 ELSE 0
        /\ d.current = IF d.found /\ ~Ported!RecoveredAfter(Ported!_history.events) THEN 2 ELSE 0
        /\ p.peak = IF p.found THEN 3 ELSE 0
        /\ p.current = IF p.found THEN 3 ELSE 0
  BY DEF Ported!_outcome, Ported!_judged, Ported!ATTRIBUTES

\* Harm is over only when the port alone was found lost, and recovered.
LEMMA OverMeansRecovered ==
    ASSUME Ported!evaluate(<<>>).peak > 0, Ported!evaluate(<<>>).current = 0
    PROVE  Ported!_outcome("disabled", <<>>).found /\ Ported!RecoveredAfter(Ported!_history.events)
<1>. DEFINE d == Ported!_outcome("disabled", <<>>)
            p == Ported!_outcome("poe_disabled", <<>>)
            outcomes == {Ported!_outcome(a, <<>>) : a \in DOMAIN Ported!ATTRIBUTES}
<1>1. outcomes = {d, p}
  BY DEF Ported!ATTRIBUTES
<1>2. {o.peak : o \in outcomes} = {d.peak, p.peak} /\ {o.current : o \in outcomes} = {d.current, p.current}
  BY <1>1
<1>3. /\ Ported!evaluate(<<>>).peak = Ported!Max({d.peak, p.peak})
      /\ Ported!evaluate(<<>>).current = Ported!Max({d.current, p.current})
  BY <1>2 DEF Ported!evaluate
<1>4. /\ d.peak \in {0, 2, 3} /\ p.peak \in {0, 2, 3}
      /\ d.current \in {0, 2, 3} /\ p.current \in {0, 2, 3}
      /\ d.peak = 0 \/ d.found
      /\ p.peak = p.current
      /\ d.peak = d.current \/ Ported!RecoveredAfter(Ported!_history.events)
  BY JudgedSeverity
<1>. HIDE DEF d, p
<1>5. p.current = 0 /\ d.current = 0
 <2>1. Ported!Max({d.current, p.current}) = IF d.current >= p.current THEN d.current ELSE p.current
   BY <1>4, WorstOfBoth
 <2>. QED BY <1>3, <1>4, <2>1
<1>6. d.peak # 0
 <2>1. Ported!Max({d.peak, p.peak}) = IF d.peak >= p.peak THEN d.peak ELSE p.peak
   BY <1>4, WorstOfBoth
 <2>. QED BY <1>3, <1>4, <1>5, <2>1
<1>. QED BY <1>4, <1>5, <1>6 DEF d

LEMMA RecoveryHolds ==
    ASSUME Ported!PortAssumption, PortInv
    PROVE  Ported!RecoveryIsTrue
<1>. DEFINE events == Ported!_history.events
            T == Ported!Moment(Ported!end) + PerSecond - 1
<1>. SUFFICES ASSUME Ported!Applied, Ported!evaluate(<<>>).peak > 0, Ported!evaluate(<<>>).current = 0
              PROVE  Ported!UpAt(T)
  BY DEF Ported!RecoveryIsTrue
<1>1. Ported!_history.usable /\ Ported!RecoveredAfter(events)
  BY OverMeansRecovered DEF Ported!_outcome, Ported!_judged
<1>. DEFINE lost == Ported!losses(events, "SW_PORT_DOWN")
            since == {e \in events : \E l \in lost : e.at > l.at}
<1>2. PICK e \in since : e.kind = "SW_PORT_UP" /\ \A f \in since : f.at <= e.at
  BY <1>1 DEF Ported!RecoveredAfter, Ported!LastIs
<1>3. PICK i \in Ported!Matching : e = Ported!Row(i)
  BY <1>1, <1>2, UsableHistory
<1>4. PICK l \in lost : e.at > l.at
  BY <1>2
<1>5. /\ i \in DOMAIN history /\ history[i].at \in Int /\ history[i].kind = "SW_PORT_UP"
      /\ Ported!Moment(history[i].at) = e.at /\ e.at \in Int /\ l.at \in Int
  BY <1>1, <1>2, <1>3, <1>4, PortRowOf, LossFollows DEF Ported!Matching
<1>6. /\ Ported!end \in Int /\ PerSecond \in Nat \ {0}
      /\ Ported!Moment(Ported!end) \in Int /\ T \in Int
 <2>1. Ported!end \in Int /\ PerSecond \in Nat \ {0}
   BY PortWindow DEF Ported!PortAssumption
 <2>2. Ported!Moment(Ported!end) \in Int
   BY <2>1, PortClock
 <2>. QED BY <2>1, <2>2
<1>7. history[i].at <= T
 <2>1. Ported!Second(history[i].at) <= Ported!Second(Ported!end)
  <3>1. Ported!Second(Ported!start) \in Int /\ Ported!Second(Ported!end) \in Int
    BY PortWindow, PortClock
  <3>. QED BY <3>1 DEF Ported!Matching, Ported!_epochs
 <2>. QED BY <1>5, <1>6, <2>1, PortClock
<1>8. ASSUME NEW j \in DOMAIN history, i <= j, history[j].at <= T
      PROVE  /\ Ported!Second(history[j].at) <= Ported!Second(Ported!end)
             /\ j \in Ported!Matching => Ported!Moment(history[j].at) <= Ported!Moment(history[i].at)
 <2>1. history[j].at \in Int
   BY PortRowOf
 <2>2. Ported!Second(history[j].at) <= Ported!Second(Ported!end)
   BY <1>6, <1>8, <2>1, PortClock
 <2>3. ASSUME j \in Ported!Matching PROVE Ported!Moment(history[j].at) <= Ported!Moment(history[i].at)
  <3>1. Ported!Row(j) \in events /\ Ported!Row(j).at = Ported!Moment(history[j].at)
    BY <1>1, <2>3, UsableHistory, PortRowOf
  <3>2. history[i].at <= history[j].at
    BY <1>5, <1>8 DEF PortInv
  <3>3. Ported!Second(history[i].at) <= Ported!Second(history[j].at)
    BY <1>5, <2>1, <3>2, PortClock
  <3>4. /\ Ported!Moment(history[i].at) <= Ported!Moment(history[j].at)
        /\ Ported!Moment(history[j].at) \in Int
    BY <1>5, <2>1, <3>3, PortClock
  <3>5. Ported!Row(j).at > l.at
    BY <1>4, <1>5, <3>1, <3>4
  <3>6. Ported!Row(j) \in since
    BY <1>4, <3>1, <3>5
  <3>. QED BY <1>2, <1>5, <3>1, <3>6
 <2>. QED BY <2>2, <2>3
<1>. HIDE DEF T
<1>. QED BY <1>1, <1>3, <1>5, <1>6, <1>7, <1>8, UpByTheRows

\* Harm reported as over is of a port that is up when the window closes: power
\* switched on again ends nothing (guardian/plugins/switch_port.py _outcome).
THEOREM RecoveriesAreTrue ==
    ASSUME Ported!PortAssumption
    PROVE  Ported!Spec => []Ported!RecoveryIsTrue
<1>1. PortInv => Ported!RecoveryIsTrue
  BY RecoveryHolds
<1>2. Ported!Init => PortInv
  BY PortInit
<1>3. PortInv /\ [Ported!Next]_(Ported!vars) => PortInv'
  BY PortStep
<1>. QED BY <1>1, <1>2, <1>3, PTL DEF Ported!Spec

\* A port reported to have lost its power delivered some before the change, within the
\* baseline, and was switched off after (guardian/plugins/switch_port.py _outcome).
THEOREM PowerLossesAreTrue ==
    ASSUME Ported!PortAssumption
    PROVE  Ported!Spec => []Ported!PowerLossIsTrue
<1>1. PortInv => Ported!PowerLossIsTrue
 <2>. SUFFICES ASSUME PortInv, Ported!Applied, Ported!_outcome("poe_disabled", <<>>).found
               PROVE  /\ \E t \in powered : /\ change - POWER_BASELINE <= t
                                            /\ Ported!Second(t) <= Ported!Second(change)
                                            /\ Ported!Moment(t) < change
                      /\ \E i \in DOMAIN history : /\ history[i].kind = "SW_POE_PORT_DISABLED"
                                                   /\ Ported!Second(history[i].at) >= Ported!Second(change)
   BY DEF Ported!PowerLossIsTrue
 <2>1. /\ Ported!_history.usable /\ Ported!losses(Ported!_history.events, "SW_POE_PORT_DISABLED") # {}
       /\ Ported!Powered
   BY DEF Ported!_outcome, Ported!_judged, Ported!ATTRIBUTES
 <2>2. PICK t \in powered : Ported!Moment(t) = report.at
   BY <2>1 DEF Ported!Powered, PortInv
 <2>3. /\ t \in Int /\ report.at \in Int /\ change \in Int /\ POWER_BASELINE \in Nat
       /\ change - POWER_BASELINE <= report.at /\ report.at < change
   BY <2>1 DEF Ported!Powered, PortInv, Ported!PortAssumption
 <2>4. report.at <= t
   BY <2>2, <2>3, PortClock
 <2>5. Ported!Second(t) <= Ported!Second(change)
  <3>1. Ported!Moment(t) <= change
    BY <2>2, <2>3
  <3>. QED BY <2>3, <3>1, PortClock
 <2>6. change - POWER_BASELINE <= t
   BY <2>3, <2>4
 <2>7. \E i \in DOMAIN history : /\ history[i].kind = "SW_POE_PORT_DISABLED"
                                 /\ Ported!Second(history[i].at) >= Ported!Second(change)
   BY <2>1, LossFollows
 <2>. QED BY <2>2, <2>3, <2>5, <2>6, <2>7
<1>2. Ported!Init => PortInv
  BY PortInit
<1>3. PortInv /\ [Ported!Next]_(Ported!vars) => PortInv'
  BY PortStep
<1>. QED BY <1>1, <1>2, <1>3, PTL DEF Ported!Spec

\* That no managed access point hangs on the port is said of the whole list, and of
\* this very port, whatever the page holds (guardian/plugins/switch_port.py _neighbour).
THEOREM NeighboursAreTrue ==
    ASSUME Ported!PortAssumption
    PROVE  Ported!Spec => []Ported!NeighbourIsTrue
<1>1. Ported!NeighbourIsTrue
 <2>. SUFFICES ASSUME NEW list \in Ported!Lists
               PROVE  /\ Ported!_neighbour(list) = "unattached" => \A i \in DOMAIN list : list[i] # "port"
                      /\ Ported!_neighbour(list) = "attached" => \E i \in DOMAIN list : list[i] = "port"
   BY DEF Ported!NeighbourIsTrue
 <2>. DEFINE S == {"port", "namesake", "none"}
             k == Ported!Min({Len(list), AP_LIMIT})
             rows == Ported!Listed(list)
 <2>1. list \in Seq(S) /\ Len(list) \in Nat /\ DOMAIN list = 1 .. Len(list) /\ AP_LIMIT \in Nat
   BY DEF Ported!Lists, Ported!PortAssumption
 <2>2. k \in {Len(list), AP_LIMIT} /\ k <= Len(list) /\ k <= AP_LIMIT
  <3>1. \E m \in {Len(list), AP_LIMIT} : \A u \in {Len(list), AP_LIMIT} : m <= u
    BY <2>1
  <3>. QED BY <2>1, <3>1 DEF Ported!Min
 <2>. HIDE DEF k
 <2>3. /\ Len(rows) = k /\ k \in Nat /\ DOMAIN rows = 1 .. k
       /\ \A i \in 1 .. k : rows[i] = list[i]
  <3>1. k \in Nat /\ \A i \in 1 .. k : i \in 1 .. Len(list)
    BY <2>1, <2>2
  <3>2. rows = SubSeq(list, 1, k)
    BY DEF Ported!Listed, k
  <3>3. rows = [i \in 1 .. k |-> list[i]]
    BY <2>1, <3>1, <3>2, SubSeqProperties
  <3>. QED BY <3>1, <3>3
 <2>. HIDE DEF rows
 <2>4. ASSUME Ported!_neighbour(list) = "unattached" PROVE \A i \in DOMAIN list : list[i] # "port"
  <3>1. k < AP_LIMIT /\ \A i \in DOMAIN rows : rows[i] # "port"
    BY <2>3, <2>4 DEF Ported!_neighbour, Ported!SettledList, Ported!_attached, rows
  <3>2. k = Len(list)
    BY <2>1, <2>2, <3>1
  <3>. QED BY <2>1, <2>3, <3>1, <3>2
 <2>5. ASSUME Ported!_neighbour(list) = "attached" PROVE \E i \in DOMAIN list : list[i] = "port"
  <3>1. PICK i \in DOMAIN rows : rows[i] = "port"
    BY <2>5 DEF Ported!_neighbour, Ported!_attached, rows
  <3>2. i \in 1 .. k /\ k <= Len(list)
    BY <2>2, <2>3, <3>1
  <3>3. i \in DOMAIN list
    BY <2>1, <2>3, <3>2
  <3>. QED BY <2>3, <3>1, <3>2, <3>3
 <2>. QED BY <2>4, <2>5
<1>. QED BY <1>1, PTL

\* The clients of a WLAN that a change removed (WlanRules).
CONSTANTS Clients, ROW_LIMIT

Joined == INSTANCE WlanRules

\* Finitely many clients; the window is a number, a second has instants.
LEMMA ClientsAreFinite == ASSUME Joined!ClientsAssumption PROVE IsFiniteSet(Clients)
  BY Zenon DEF Joined!ClientsAssumption, Joined!IsFiniteSet, IsFiniteSet

WlanRow == [client : Clients, kind : {"success", "failure", "left"}, at : Nat]

WlanInv ==
    /\ now \in Nat /\ change \in Int /\ change <= now /\ (change # -1 => change \in Nat)
    /\ history \in Seq(WlanRow)
    /\ \A i \in DOMAIN history : history[i].at < now
    /\ \A i, j \in DOMAIN history : i <= j => history[i].at <= history[j].at

LEMMA WlanClock ==
    ASSUME Joined!ClientsAssumption, NEW a \in Int, NEW b \in Int
    PROVE  /\ Joined!Second(a) \in Int
           /\ a <= b => Joined!Second(a) <= Joined!Second(b)
           /\ Joined!Second(a) * PerSecond < b => Joined!Second(a) <= Joined!Second(b)
           /\ Joined!Second(a) * PerSecond <= b <=> Joined!Second(a) <= Joined!Second(b)
           /\ b <= Joined!Second(a) * PerSecond => Joined!Second(b) <= Joined!Second(a)
           /\ Joined!Second(a) < Joined!Second(b) => Joined!Second(a) * PerSecond < b
           /\ Joined!Second(b) < Joined!Second(a) => b <= Joined!Second(a) * PerSecond
<1>1. PerSecond \in Nat \ {0}
  BY DEF Joined!ClientsAssumption
<1>2. a \div PerSecond \in Int /\ (a <= b => a \div PerSecond <= b \div PerSecond)
  BY <1>1
<1>3. (a \div PerSecond) * PerSecond < b => a \div PerSecond <= b \div PerSecond
  BY <1>1
<1>4. (a \div PerSecond) * PerSecond <= b <=> a \div PerSecond <= b \div PerSecond
  BY <1>1
<1>5. b <= (a \div PerSecond) * PerSecond => b \div PerSecond <= a \div PerSecond
  BY <1>1
<1>6. a \div PerSecond < b \div PerSecond => (a \div PerSecond) * PerSecond < b
  BY <1>1
<1>7. b \div PerSecond < a \div PerSecond => b <= (a \div PerSecond) * PerSecond
  BY <1>1
<1>. QED BY <1>2, <1>3, <1>4, <1>5, <1>6, <1>7, Zenon DEF Joined!Second

LEMMA WlanInit == Joined!Init => WlanInv
  BY DEF Joined!Init, WlanInv, Joined!Never

LEMMA WlanRowOf ==
    ASSUME WlanInv, NEW i \in DOMAIN history
    PROVE  /\ i \in Nat /\ i \in 1 .. Len(history) /\ history[i].at \in Int /\ history[i].at >= 0
           /\ history[i].client \in Clients /\ history[i].kind \in {"success", "failure", "left"}
<1>1. i \in Nat /\ i \in 1 .. Len(history) /\ history[i] \in WlanRow
  BY DEF WlanInv
<1>. QED BY <1>1 DEF WlanRow

LEMMA WlanHappens ==
    ASSUME WlanInv, NEW c \in Clients, NEW kind \in {"success", "failure", "left"}, Joined!Happens(c, kind)
    PROVE  WlanInv'
<1>0. PICK n \in Nat : DOMAIN history = 1 .. n /\ n = Len(history) /\ \A i \in 1 .. n : history[i] \in WlanRow
  BY DEF WlanInv
<1>1. now \in Nat /\ now' = now + 1 /\ change' = change
  BY DEF WlanInv, Joined!Happens
<1>2. /\ history' \in Seq(WlanRow) /\ DOMAIN history' = 1 .. n + 1
      /\ history'[n + 1].at = now /\ \A i \in 1 .. n : history'[i] = history[i]
 <2>1. [client |-> c, kind |-> kind, at |-> now] \in WlanRow
   BY <1>1 DEF WlanRow
 <2>. QED BY <1>0, <2>1 DEF WlanInv, Joined!Happens
<1>3. ASSUME NEW i \in 1 .. n
      PROVE  history'[i].at \in Int /\ history'[i].at < now
  BY <1>0, <1>2, WlanRowOf DEF WlanInv
<1>4. ASSUME NEW i \in 1 .. n + 1, i # n + 1 PROVE i \in 1 .. n
  BY <1>0, <1>4
<1>5. \A i \in DOMAIN history' : history'[i].at < now'
  BY <1>1, <1>2, <1>3, <1>4
<1>6. ASSUME NEW i \in 1 .. n + 1, NEW j \in 1 .. n + 1, i <= j
      PROVE  history'[i].at <= history'[j].at
 <2>1. CASE j = n + 1
   BY <1>1, <1>2, <1>3, <1>4, <2>1
 <2>2. CASE j # n + 1
  <3>1. i \in 1 .. n /\ j \in 1 .. n
    BY <1>0, <1>6, <2>2
  <3>. QED BY <1>0, <1>2, <1>6, <3>1 DEF WlanInv
 <2>. QED BY <2>1, <2>2
<1>7. change' \in Int /\ change' <= now' /\ (change' # -1 => change' \in Nat)
  BY <1>1 DEF WlanInv
<1>. QED BY <1>1, <1>2, <1>5, <1>6, <1>7 DEF WlanInv

LEMMA WlanStep == WlanInv /\ [Joined!Next]_(Joined!vars) => WlanInv'
<1>. SUFFICES ASSUME WlanInv, [Joined!Next]_(Joined!vars) PROVE WlanInv'
  OBVIOUS
<1>1. CASE UNCHANGED Joined!vars
  BY <1>1 DEF WlanInv, Joined!vars
<1>2. CASE Joined!Joins
  BY <1>2, WlanHappens DEF Joined!Joins
<1>3. CASE Joined!Refused
  BY <1>3, WlanHappens DEF Joined!Refused
<1>4. CASE Joined!Leaves
  BY <1>4, WlanHappens DEF Joined!Leaves
<1>5. CASE Joined!Passes
 <2>1. now \in Nat /\ now' = now + 1 /\ history' = history /\ change' = change
   BY <1>5 DEF WlanInv, Joined!Passes
 <2>2. \A i \in DOMAIN history : history[i].at < now'
  <3>1. \A i \in DOMAIN history : history[i].at \in Int /\ history[i].at < now
    BY WlanRowOf DEF WlanInv
  <3>. QED BY <2>1, <3>1
 <2>. QED BY <2>1, <2>2 DEF WlanInv
<1>6. CASE Joined!Applies
  BY <1>6 DEF Joined!Applies, WlanInv
<1>. QED BY <1>1, <1>2, <1>3, <1>4, <1>5, <1>6 DEF Joined!Next

LEMMA WlanWindow ==
    ASSUME Joined!ClientsAssumption, WlanInv, Joined!Applied
    PROVE  /\ change \in Int /\ Joined!end \in Int /\ change <= Joined!end
           /\ Joined!Now \in Int /\ Joined!Second(Joined!end) \in Int
           /\ Joined!Now <= Joined!Second(Joined!end)
           /\ Joined!Second(change - Joined!duration) \in Int
<1>1. change \in Int /\ now - change \in Nat /\ WINDOW_CAP \in Nat
  BY DEF WlanInv, Joined!ClientsAssumption
<1>2. \E m \in {WINDOW_CAP, now - change} : \A u \in {WINDOW_CAP, now - change} : m <= u
  BY <1>1
<1>3. Joined!duration \in {WINDOW_CAP, now - change}
  BY <1>2 DEF Joined!duration, Joined!Min
<1>4. Joined!duration \in Nat
  BY <1>1, <1>3
<1>5. Joined!end \in Int /\ change <= Joined!end /\ change - Joined!duration \in Int
  BY <1>1, <1>4 DEF Joined!end
<1>6. /\ Joined!Second(change) \in Int /\ Joined!Second(Joined!end) \in Int
      /\ Joined!Second(change) <= Joined!Second(Joined!end)
      /\ Joined!Second(change - Joined!duration) \in Int
  BY <1>1, <1>5, WlanClock
<1>. QED BY <1>1, <1>5, <1>6, Zenon DEF Joined!Now

LEMMA WholePage ==
    ASSUME NEW found, Joined!read_rows(found).complete
    PROVE  Joined!read_rows(found).rows = found
  BY DEF Joined!read_rows

LEMMA EndsOfAfter ==
    ASSUME Joined!ClientsAssumption, WlanInv, Joined!Applied
    PROVE  Joined!Max(Joined!after) = Joined!Second(Joined!end) /\ Joined!Min(Joined!after) = Joined!Now
<1>. DEFINE e == Joined!Second(Joined!end)
<1>1. Joined!Now \in Int /\ e \in Int /\ Joined!Now <= e
  BY WlanWindow
<1>2. Joined!after = Joined!Now .. e
  BY DEF Joined!after, Joined!Now
<1>. HIDE DEF e
<1>3. /\ e \in Joined!after /\ \A u \in Joined!after : e >= u
      /\ Joined!Now \in Joined!after /\ \A u \in Joined!after : Joined!Now <= u
  BY <1>1, <1>2
<1>4. \A x \in Joined!after : x \in Int
  BY <1>1, <1>2
<1>5. Joined!Max(Joined!after) = e
 <2>. DEFINE m == CHOOSE x \in Joined!after : \A u \in Joined!after : x >= u
 <2>1. m \in Joined!after /\ \A u \in Joined!after : m >= u
   BY <1>3
 <2>. HIDE DEF m
 <2>2. m >= e /\ e >= m /\ m \in Int
   BY <1>3, <1>4, <2>1
 <2>3. m = e
   BY <1>1, <2>2
 <2>. QED BY <2>3 DEF m, Joined!Max
<1>6. Joined!Min(Joined!after) = Joined!Now
 <2>. DEFINE m == CHOOSE x \in Joined!after : \A u \in Joined!after : x <= u
 <2>1. m \in Joined!after /\ \A u \in Joined!after : m <= u
   BY <1>3
 <2>. HIDE DEF m
 <2>2. m <= Joined!Now /\ Joined!Now <= m /\ m \in Int
   BY <1>3, <1>4, <2>1
 <2>3. m = Joined!Now
   BY <1>1, <2>2
 <2>. QED BY <2>3 DEF m, Joined!Min
<1>. QED BY <1>5, <1>6 DEF e

\* The first event of a client after another is one of the history.
LEMMA FirstSince ==
    ASSUME WlanInv, NEW i \in DOMAIN history, Joined!Ended(i)
    PROVE  Joined!Min(Joined!Since(i)) \in DOMAIN history
<1>1. Joined!Since(i) \subseteq Nat /\ Joined!Since(i) # {} /\ Joined!Since(i) \subseteq DOMAIN history
  BY WlanRowOf DEF Joined!Since, Joined!Ended, Joined!OfClient
<1>2. PICK m \in Joined!Since(i) : \A u \in Joined!Since(i) : u >= m
  BY <1>1, LeastOf
<1>3. \A u \in Joined!Since(i) : m <= u
  BY <1>1, <1>2
<1>4. Joined!Min(Joined!Since(i)) \in Joined!Since(i)
  BY <1>2, <1>3 DEF Joined!Min
<1>. QED BY <1>1, <1>4

LEMMA DepartureSeconds ==
    ASSUME Joined!ClientsAssumption, WlanInv, Joined!Applied, NEW i \in DOMAIN history, Joined!Ended(i)
    PROVE  /\ Joined!ConnectedIn(i) \in Int /\ Joined!LeftIn(i) \in Int
           /\ Joined!_departed(i) => Joined!ConnectedIn(i) <= Joined!Now /\ Joined!LeftIn(i) >= Joined!Now
           /\ (/\ Joined!ConnectedIn(i) < Joined!Now /\ Joined!LeftIn(i) > Joined!Now
               /\ Joined!LeftIn(i) <= Joined!Second(Joined!end)) => Joined!_departed(i)
<1>. DEFINE k == Joined!Min(Joined!Since(i))
<1>1. k \in DOMAIN history
  BY FirstSince
<1>. HIDE DEF k
<1>2. history[i].at \in Int /\ history[k].at \in Int
  BY <1>1, WlanRowOf
<1>3. change \in Int /\ Joined!end \in Int
  BY WlanWindow
<1>4. Joined!ConnectedIn(i) = Joined!Second(history[i].at) /\ Joined!LeftIn(i) = Joined!Second(history[k].at)
  BY DEF k, Joined!ConnectedIn, Joined!LeftIn
<1>5. /\ Joined!Second(history[i].at) \in Int /\ Joined!Second(history[k].at) \in Int /\ Joined!Second(change) \in Int
      /\ Joined!Second(history[i].at) * PerSecond < change => Joined!Second(history[i].at) <= Joined!Second(change)
      /\ Joined!Second(history[i].at) < Joined!Second(change) => Joined!Second(history[i].at) * PerSecond < change
  BY <1>2, <1>3, WlanClock
<1>6. /\ change <= Joined!Second(history[k].at) * PerSecond => Joined!Second(change) <= Joined!Second(history[k].at)
      /\ Joined!Second(change) < Joined!Second(history[k].at) => change <= Joined!Second(history[k].at) * PerSecond
      /\ Joined!Second(history[k].at) <= Joined!Second(Joined!end) => Joined!Second(history[k].at) * PerSecond <= Joined!end
  BY <1>2, <1>3, WlanClock
<1>7. /\ Joined!ConnectedIn(i) * PerSecond < change => Joined!ConnectedIn(i) <= Joined!Now
      /\ Joined!ConnectedIn(i) < Joined!Now => Joined!ConnectedIn(i) * PerSecond < change
      /\ change <= Joined!LeftIn(i) * PerSecond => Joined!Now <= Joined!LeftIn(i)
      /\ Joined!Now < Joined!LeftIn(i) => change <= Joined!LeftIn(i) * PerSecond
      /\ Joined!LeftIn(i) <= Joined!Second(Joined!end) => Joined!LeftIn(i) * PerSecond <= Joined!end
  BY <1>4, <1>5, <1>6, Zenon DEF Joined!Now
<1>8. Joined!ConnectedIn(i) \in Int /\ Joined!LeftIn(i) \in Int /\ Joined!Now \in Int
  BY <1>4, <1>5 DEF Joined!Now
<1>. QED BY <1>7, <1>8 DEF Joined!_departed

LEMMA DeparturesHold ==
    ASSUME Joined!ClientsAssumption, WlanInv
    PROVE  Joined!DeparturesAreTrue
<1>. SUFFICES ASSUME Joined!Applied, Joined!removal_evaluate.satisfied PROVE
         /\ Joined!removal_evaluate.peak > 0 =>
                \E i \in Joined!Sessions : /\ Joined!ConnectedIn(i) <= Joined!Now
                                           /\ Joined!Ended(i) /\ Joined!LeftIn(i) >= Joined!Now
         /\ Joined!removal_evaluate.peak = 0 =>
                ~\E i \in Joined!Sessions :
                     /\ Joined!ConnectedIn(i) < Joined!Now /\ Joined!Ended(i)
                     /\ Joined!LeftIn(i) > Joined!Now /\ Joined!LeftIn(i) <= Joined!Second(Joined!end)
  BY Zenon DEF Joined!DeparturesAreTrue
<1>. DEFINE found == Joined!SessionsIn(Joined!after)
<1>1. /\ Joined!_sessions.satisfied
      /\ Joined!removal_evaluate.peak = IF Joined!_sessions.clients # {} THEN 2 ELSE 0
  BY DEF Joined!removal_evaluate
<1>2. Joined!read_rows(found).complete
  BY <1>1 DEF Joined!_sessions
<1>3. Joined!_sessions.clients = {history[i].client : i \in {j \in found : Joined!_departed(j)}}
  BY <1>2, WholePage DEF Joined!_sessions
<1>4. found \subseteq Joined!Sessions /\ Joined!Sessions \subseteq DOMAIN history
  BY DEF Joined!SessionsIn, Joined!Sessions
<1>5. ASSUME Joined!removal_evaluate.peak > 0
      PROVE  \E i \in Joined!Sessions : /\ Joined!ConnectedIn(i) <= Joined!Now
                                        /\ Joined!Ended(i) /\ Joined!LeftIn(i) >= Joined!Now
 <2>1. Joined!_sessions.clients # {}
   BY <1>1, <1>5
 <2>. HIDE DEF found
 <2>2. PICK j \in found : Joined!_departed(j)
   BY <1>3, <2>1
 <2>3. j \in DOMAIN history /\ Joined!Ended(j) /\ j \in Joined!Sessions
   BY <1>4, <2>2 DEF Joined!_departed
 <2>. QED BY <2>2, <2>3, DepartureSeconds
<1>6. ASSUME Joined!removal_evaluate.peak = 0, NEW i \in Joined!Sessions,
             Joined!ConnectedIn(i) < Joined!Now, Joined!Ended(i),
             Joined!LeftIn(i) > Joined!Now, Joined!LeftIn(i) <= Joined!Second(Joined!end)
      PROVE  FALSE
 <2>1. i \in DOMAIN history
   BY <1>4
 <2>2. Joined!_departed(i) /\ Joined!ConnectedIn(i) \in Int /\ Joined!LeftIn(i) \in Int
   BY <1>6, <2>1, DepartureSeconds
 <2>3. Joined!Now \in Int /\ Joined!Second(Joined!end) \in Int /\ Joined!Now <= Joined!Second(Joined!end)
   BY WlanWindow
 <2>4. Joined!ConnectedIn(i) <= Joined!Max(Joined!after) /\ Joined!LeftIn(i) >= Joined!Min(Joined!after)
  <3>1. Joined!ConnectedIn(i) <= Joined!Second(Joined!end) /\ Joined!LeftIn(i) >= Joined!Now
    BY <1>6, <2>2, <2>3
  <3>. QED BY <3>1, EndsOfAfter
 <2>5. i \in found
   BY <2>4 DEF Joined!SessionsIn
 <2>. HIDE DEF found
 <2>6. Joined!_sessions.clients # {}
   BY <1>3, <2>2, <2>5
 <2>. QED BY <1>1, <1>6, <2>6
<1>. QED BY <1>5, <1>6, Zenon

\* wlan_removal.py's verdict, over one complete page of whole-second rows: a
\* client it counts was connected as the change came and left after, and when
\* it counts none, none left after the second of the change.
THEOREM DeparturesAreTrue ==
    ASSUME Joined!ClientsAssumption
    PROVE  Joined!Spec => []Joined!DeparturesAreTrue
<1>1. WlanInv => Joined!DeparturesAreTrue
  BY DeparturesHold
<1>. QED BY <1>1, WlanInit, WlanStep, PTL DEF Joined!Spec

\* The last row of a client decides what LastIs says, unless two of its rows in
\* a second contradict each other.
LEMMA LastOfAClient ==
    ASSUME Joined!ClientsAssumption, WlanInv, NEW c, NEW R, ~Joined!Contradicts(R),
           NEW A, A \subseteq R, A \subseteq Joined!OfClient(c), A # {}, NEW kind
    PROVE  Joined!LastIs(A, kind) <=> history[Joined!Max(A)].kind = kind
<1>1. A \subseteq DOMAIN history /\ \A i \in A : history[i].client = c
  BY DEF Joined!OfClient
<1>2. PICK n \in Nat : DOMAIN history = 1 .. n
  BY DEF WlanInv
<1>3. A \subseteq 0 .. n
  BY <1>1, <1>2
<1>4. PICK u \in A : \A k \in A : u >= k
  BY <1>3, GreatestOf
<1>. DEFINE m == Joined!Max(A)
<1>5. m \in A /\ \A k \in A : m >= k
  BY <1>4 DEF Joined!Max
<1>. HIDE DEF m
<1>6. ASSUME NEW k \in A
      PROVE  Joined!Second(history[k].at) \in Int /\ Joined!Second(history[k].at) <= Joined!Second(history[m].at)
 <2>1. k \in DOMAIN history /\ m \in DOMAIN history /\ k <= m
   BY <1>1, <1>2, <1>5
 <2>2. history[k].at \in Int /\ history[m].at \in Int /\ history[k].at <= history[m].at
   BY <2>1, WlanRowOf DEF WlanInv
 <2>. QED BY <2>2, WlanClock
<1>7. ASSUME history[m].kind = kind
      PROVE  Joined!LastIs(A, kind)
  BY <1>5, <1>6, <1>7 DEF Joined!LastIs
<1>8. ASSUME Joined!LastIs(A, kind)
      PROVE  history[m].kind = kind
 <2>1. PICK i \in A : history[i].kind = kind /\ \A j \in A : Joined!Second(history[j].at) <= Joined!Second(history[i].at)
   BY <1>8 DEF Joined!LastIs
 <2>2. Joined!Second(history[m].at) = Joined!Second(history[i].at)
   BY <1>5, <1>6, <2>1
 <2>3. i \in R /\ m \in R /\ history[i].client = history[m].client
   BY <1>1, <1>5
 <2>. QED BY <2>1, <2>2, <2>3 DEF Joined!Contradicts
<1>. QED BY <1>7, <1>8 DEF m

LEMMA AttemptsRead ==
    ASSUME Joined!_attempts.usable
    PROVE  LET earlier == Joined!AttemptsIn(Joined!before)
               later == Joined!AttemptsIn(Joined!after)
           IN  /\ ~Joined!Contradicts(earlier \union later)
               /\ Joined!_attempts.attempted <=> earlier \union later # {}
               /\ Joined!_attempts.affected = Joined!_affected(earlier, later)
               /\ Joined!_attempts.recovered =
                      {c \in Joined!_affected(earlier, later) :
                           Joined!LastIs(later \intersect Joined!OfClient(c), "success")}
<1>. DEFINE E == Joined!AttemptsIn(Joined!before)
            L == Joined!AttemptsIn(Joined!after)
<1>1. Joined!read_rows(E).complete /\ Joined!read_rows(L).complete
  BY DEF Joined!_attempts
<1>2. Joined!read_rows(E).rows = E /\ Joined!read_rows(L).rows = L
  BY <1>1, WholePage
<1>. QED BY <1>2 DEF Joined!_attempts

LEMMA AttemptRow ==
    ASSUME Joined!ClientsAssumption, WlanInv, Joined!Applied, NEW i
    PROVE  /\ i \in Joined!AttemptsIn(Joined!before) => i \in DOMAIN history /\ Joined!SecondOf(i) <= Joined!Now
           /\ i \in Joined!AttemptsIn(Joined!after) => i \in DOMAIN history /\ Joined!SecondOf(i) >= Joined!Now
<1>1. /\ Joined!Now \in Int /\ Joined!Second(Joined!end) \in Int
      /\ Joined!Second(change - Joined!duration) \in Int
  BY WlanWindow
<1>2. /\ i \in Joined!AttemptsIn(Joined!before) =>
             i \in DOMAIN history /\ Joined!SecondOf(i) \in Joined!Second(change - Joined!duration) .. Joined!Now
      /\ i \in Joined!AttemptsIn(Joined!after) =>
             i \in DOMAIN history /\ Joined!SecondOf(i) \in Joined!Now .. Joined!Second(Joined!end)
  BY Zenon DEF Joined!AttemptsIn, Joined!before, Joined!after, Joined!Now, Joined!SecondOf
<1>. QED BY <1>1, <1>2

LEMMA AffectedHold ==
    ASSUME Joined!ClientsAssumption, WlanInv
    PROVE  Joined!AffectedAreTrue
<1>. DEFINE E == Joined!AttemptsIn(Joined!before)
            L == Joined!AttemptsIn(Joined!after)
            affected == Joined!_attempts.affected
            back == Joined!_attempts.recovered
<1>. SUFFICES ASSUME Joined!Applied, Joined!auth_evaluate.peak > 0 PROVE
         /\ \A c \in affected : \E i, j \in Joined!OfClient(c) :
                /\ history[i].kind = "success" /\ Joined!SecondOf(i) <= Joined!Now
                /\ history[j].kind = "failure" /\ Joined!SecondOf(j) >= Joined!Now /\ i < j
         /\ Joined!auth_evaluate.current = 0 <=>
                \A c \in affected : history[Joined!Max(L \intersect Joined!OfClient(c))].kind = "success"
  BY Zenon DEF Joined!AffectedAreTrue
<1>1. Joined!_attempts.usable /\ Joined!_attempts.attempted
  BY DEF Joined!auth_evaluate
<1>2. /\ ~Joined!Contradicts(E \union L)
      /\ affected = Joined!_affected(E, L)
      /\ back = {c \in affected : Joined!LastIs(L \intersect Joined!OfClient(c), "success")}
  BY <1>1, AttemptsRead
<1>3. Joined!auth_evaluate.current = 0 <=> Joined!Cardinality(back) = Joined!Cardinality(affected)
  BY <1>1 DEF Joined!auth_evaluate
<1>. HIDE DEF E, L, affected, back
<1>4. \A i : /\ i \in E => i \in DOMAIN history /\ Joined!SecondOf(i) <= Joined!Now
             /\ i \in L => i \in DOMAIN history /\ Joined!SecondOf(i) >= Joined!Now
  BY AttemptRow DEF E, L
<1>5. ASSUME NEW c \in affected
      PROVE  \E i, j \in Joined!OfClient(c) :
                 /\ history[i].kind = "success" /\ Joined!SecondOf(i) <= Joined!Now
                 /\ history[j].kind = "failure" /\ Joined!SecondOf(j) >= Joined!Now /\ i < j
 <2>1. PICK i \in E \intersect Joined!OfClient(c) : history[i].kind = "success"
   BY <1>2 DEF Joined!_affected, Joined!LastIs
 <2>2. PICK j \in L \intersect Joined!OfClient(c) : history[j].kind = "failure"
   BY <1>2 DEF Joined!_affected
 <2>3. /\ i \in DOMAIN history /\ Joined!SecondOf(i) <= Joined!Now
       /\ j \in DOMAIN history /\ Joined!SecondOf(j) >= Joined!Now
       /\ history[i].client = history[j].client
   BY <1>4, <2>1, <2>2 DEF Joined!OfClient
 <2>4. Joined!SecondOf(i) # Joined!SecondOf(j)
   BY <1>2, <2>1, <2>2, <2>3 DEF Joined!Contradicts, Joined!SecondOf
 <2>5. history[i].at \in Int /\ history[j].at \in Int /\ i \in Nat /\ j \in Nat
   BY <2>3, WlanRowOf
 <2>6. /\ Joined!SecondOf(i) \in Int /\ Joined!SecondOf(j) \in Int
       /\ history[j].at <= history[i].at => Joined!SecondOf(j) <= Joined!SecondOf(i)
   BY <2>5, WlanClock DEF Joined!SecondOf
 <2>7. j <= i => history[j].at <= history[i].at
   BY <2>3 DEF WlanInv
 <2>8. Joined!Now \in Int
   BY WlanWindow
 <2>9. i < j
   BY <2>3, <2>4, <2>5, <2>6, <2>7, <2>8
 <2>. QED BY <2>1, <2>2, <2>3, <2>9
<1>6. \A c \in affected : Joined!LastIs(L \intersect Joined!OfClient(c), "success")
                              <=> history[Joined!Max(L \intersect Joined!OfClient(c))].kind = "success"
 <2>1. ASSUME NEW c \in affected PROVE L \intersect Joined!OfClient(c) # {}
   BY <1>2 DEF Joined!_affected
 <2>. QED BY <1>2, <2>1, LastOfAClient
<1>7. Joined!Cardinality(back) = Joined!Cardinality(affected) <=> back = affected
 <2>1. IsFiniteSet(affected)
   BY <1>2, ClientsAreFinite, FS_Subset DEF Joined!_affected
 <2>2. back \subseteq affected
   BY <1>2
 <2>3. \A S : Joined!Cardinality(S) = Cardinality(S)
   BY Zenon DEF Joined!Cardinality, Cardinality
 <2>4. Cardinality(back) = Cardinality(affected) => back = affected
   BY <2>1, <2>2, FS_Subset
 <2>. QED BY <2>3, <2>4, Zenon
<1>8. back = affected <=> \A c \in affected : Joined!LastIs(L \intersect Joined!OfClient(c), "success")
  BY <1>2
<1>. QED BY <1>3, <1>5, <1>6, <1>7, <1>8

LEMMA QuietHold ==
    ASSUME Joined!ClientsAssumption, WlanInv
    PROVE  Joined!QuietIsTrue
<1>. DEFINE E == Joined!AttemptsIn(Joined!before)
            L == Joined!AttemptsIn(Joined!after)
<1>1. ASSUME Joined!auth_evaluate.status = "not_exercised"
      PROVE  E \union L = {}
 <2>1. Joined!_attempts.usable /\ ~Joined!_attempts.attempted
   BY <1>1 DEF Joined!auth_evaluate
 <2>. QED BY <2>1, AttemptsRead
<1>2. ASSUME Joined!auth_evaluate.status = "satisfied", Joined!auth_evaluate.peak = 0, NEW c \in Clients,
             E \intersect Joined!OfClient(c) # {},
             history[Joined!Max(E \intersect Joined!OfClient(c))].kind = "success",
             NEW j \in L \intersect Joined!OfClient(c), history[j].kind = "failure"
      PROVE  FALSE
 <2>1. Joined!_attempts.usable /\ Joined!_attempts.attempted /\ Joined!_attempts.affected = {}
   BY <1>2 DEF Joined!auth_evaluate
 <2>2. ~Joined!Contradicts(E \union L) /\ Joined!_attempts.affected = Joined!_affected(E, L)
   BY <2>1, AttemptsRead
 <2>. HIDE DEF E, L
 <2>3. Joined!LastIs(E \intersect Joined!OfClient(c), "success")
   BY <1>2, <2>2, LastOfAClient
 <2>4. c \in Joined!_affected(E, L)
   BY <1>2, <2>3 DEF Joined!_affected
 <2>. QED BY <2>1, <2>2, <2>4
<1>. QED BY <1>1, <1>2, Zenon DEF Joined!QuietIsTrue

\* wlan_auth.py's harm, over whole-second rows of two windows that share the
\* second of the change: each client counted was let in, then refused; and
\* counting the recovered says "over" exactly when each one's last attempt was
\* a success.
THEOREM AffectedAreTrue ==
    ASSUME Joined!ClientsAssumption
    PROVE  Joined!Spec => []Joined!AffectedAreTrue
<1>1. WlanInv => Joined!AffectedAreTrue
  BY AffectedHold
<1>. QED BY <1>1, WlanInit, WlanStep, PTL DEF Joined!Spec

\* wlan_auth.py's all-clear: not exercised means no attempt in either window, and
\* no harm means that no client, let in last before, was refused after.
THEOREM QuietIsTrue ==
    ASSUME Joined!ClientsAssumption
    PROVE  Joined!Spec => []Joined!QuietIsTrue
<1>1. WlanInv => Joined!QuietIsTrue
  BY QuietHold
<1>. QED BY <1>1, WlanInit, WlanStep, PTL DEF Joined!Spec

\* What the rules take on of a change (RulePlans).
CONSTANTS Objects, Paths, Devices, MAPPINGS, Concrete
VARIABLES changed, devices

Ruled == INSTANCE RulePlans

RulesInv == IsFiniteSet(changed)

LEMMA RulesInit == Ruled!Init => RulesInv
  BY FS_EmptySet DEF Ruled!Init, RulesInv

LEMMA RulesStep == RulesInv /\ [Ruled!Next]_(Ruled!vars) => RulesInv'
<1>. SUFFICES ASSUME RulesInv, [Ruled!Next]_(Ruled!vars) PROVE RulesInv'
  OBVIOUS
<1>1. CASE UNCHANGED Ruled!vars
  BY <1>1 DEF RulesInv, Ruled!vars
<1>2. CASE Ruled!Writes
 <2>1. PICK w : changed' = changed \union {w}
   BY <1>2 DEF Ruled!Writes
 <2>. QED BY <2>1, FS_AddElement DEF RulesInv
<1>3. CASE Ruled!Named
  BY <1>3 DEF Ruled!Named, RulesInv
<1>. QED BY <1>1, <1>2, <1>3 DEF Ruled!Next

\* A finite set of at most one element is what is chosen of it.
LEMMA OnlyOne ==
    ASSUME NEW S, IsFiniteSet(S), ~(Ruled!Cardinality(S) > 1), NEW x \in S
    PROVE  x = CHOOSE y \in S : TRUE
<1>1. Ruled!Cardinality(S) = Cardinality(S)
  BY Zenon DEF Ruled!Cardinality, Cardinality
<1>2. Cardinality(S) \in Nat /\ (Cardinality(S) = 0 <=> S = {})
  BY FS_CardinalityType, FS_EmptySet
<1>3. Cardinality(S) = 1
  BY <1>1, <1>2
<1>4. \E e : S = {e}
  BY <1>3, FS_Singleton
<1>. QED BY <1>4

LEMMA DnsHolds == Ruled!DnsIsWhole
<1>. SUFFICES ASSUME NEW w \in changed, NEW m \in MAPPINGS,
                     m.type = <<w.object.scope, w.object.type>>, m.attribute = w.path[1],
                     Ruled!matches(m.patterns, w.path), NEW d \in devices, NEW c \in m.classes,
                     d.type = m.family, m.family \in Ruled!Monitored,
                     w.object.site \in {Ruled!None, d.site}, w.object.mac \in {Ruled!None, d.mac}
             PROVE  \E x \in Ruled!dns_plan :
                        x.mac = d.mac /\ x.subject = Ruled!_observation(m, c) /\ w.path \in x.paths
  BY Zenon DEF Ruled!DnsIsWhole
<1>. DEFINE a == [object |-> w.object, attribute |-> w.path[1]]
            y == [atom |-> a, mac |-> d.mac, seen |-> Ruled!_observation(m, c), mapping |-> m]
<1>1. a \in Ruled!Atoms
  BY DEF Ruled!Atoms
<1>2. m \in Ruled!_mappings(a)
  BY DEF Ruled!_mappings
<1>3. w.path \in Ruled!Matched(a, m)
  BY DEF Ruled!Matched, Ruled!paths_of
<1>4. d.mac \in Ruled!_targets(m, a.object)
  BY DEF Ruled!_targets, Ruled!cohort
<1>5. y \in Ruled!Claims
 <2>1. m \in {x \in Ruled!_mappings(a) : Ruled!Matched(a, x) # {}}
   BY <1>2, <1>3
 <2>2. y \in {[atom |-> a, mac |-> e, seen |-> Ruled!_observation(m, k), mapping |-> m] :
                  e \in Ruled!_targets(m, a.object), k \in m.classes}
   BY <1>4
 <2>. DEFINE Of(b, n) == {[atom |-> b, mac |-> e, seen |-> Ruled!_observation(n, k), mapping |-> n] :
                              e \in Ruled!_targets(n, b.object), k \in n.classes}
             Mapped(b) == {n \in Ruled!_mappings(b) : Ruled!Matched(b, n) # {}}
 <2>3. y \in Of(a, m) /\ m \in Mapped(a)
   BY <2>1, <2>2
 <2>4. Ruled!Claims = UNION {UNION {Of(b, n) : n \in Mapped(b)} : b \in Ruled!Atoms}
   BY DEF Ruled!Claims
 <2>. HIDE DEF a, y, Of, Mapped
 <2>5. y \in UNION {Of(a, n) : n \in Mapped(a)}
   BY <2>3
 <2>. QED BY <1>1, <2>4, <2>5
<1>6. w.path \in Ruled!_claim(y)
 <2>1. y \in {z \in Ruled!Claims : Ruled!Same(y, z)} /\ w.path \in Ruled!Matched(y.atom, y.mapping)
   BY <1>3, <1>5 DEF Ruled!Same
 <2>. HIDE DEF a, y
 <2>. QED BY <2>1, Zenon DEF Ruled!_claim
<1>. DEFINE x == Ruled!Obligation(y.atom, Ruled!_claim(y), y.seen, y.mac)
<1>7. x \in Ruled!dns_plan
 <2>. HIDE DEF y
 <2>. QED BY <1>5, Zenon DEF Ruled!dns_plan
<1>8. x.mac = d.mac /\ x.subject = Ruled!_observation(m, c) /\ w.path \in x.paths
 <2>1. y.mac = d.mac /\ y.seen = Ruled!_observation(m, c)
   OBVIOUS
 <2>2. x.mac = y.mac /\ x.subject = y.seen /\ x.paths = Ruled!_claim(y)
  <3>. HIDE DEF y
  <3>. QED BY DEF Ruled!Obligation
 <2>. HIDE DEF x, y
 <2>. QED BY <1>6, <2>1, <2>2
<1>. HIDE DEF x
<1>. QED BY <1>7, <1>8

\* guardian/plugins/dns.py: a written DNS setting is observed on every
\* device of its family it reaches, for each class it serves, with its own path,
\* for any table of verified mappings and any number of writes.
THEOREM DnsIsWhole == Ruled!Spec => []Ruled!DnsIsWhole
  BY DnsHolds, PTL

LEMMA WlanPlanTells ==
    ASSUME IsFiniteSet(Objects), NEW handled, NEW w \in Objects, w.type = "wlans", NEW b \in handled[w]
    PROVE  \/ Ruled!wlan_plan(handled).gaps # {}
           \/ \E x \in Ruled!wlan_plan(handled).obligations : x.atom = b /\ x.subject = w.mist
<1>. DEFINE concerned == {o \in Objects : o.type = "wlans" /\ handled[o] # {}}
            candidates == {o \in concerned : Ruled!Resolved(o)}
            chosen == CHOOSE o \in candidates : TRUE
            points == Ruled!cohort("ap", chosen.site)
            gaps == {Ruled!Gap(o) : o \in concerned \ candidates}
            more == gaps \union (IF Ruled!Cardinality(candidates) > 1 THEN {"further"} ELSE {})
                         \union (IF points = {} THEN {"cohort"} ELSE {})
<1>1. /\ candidates = {} => Ruled!wlan_plan(handled).gaps = gaps
      /\ candidates # {} => Ruled!wlan_plan(handled).gaps = more
  BY DEF Ruled!wlan_plan, Ruled!NoPlan
<1>2. w \in concerned
  OBVIOUS
<1>3. CASE w \notin candidates
 <2>1. Ruled!Gap(w) \in gaps
   BY <1>2, <1>3
 <2>2. Ruled!Gap(w) \in more
   BY <2>1
 <2>. HIDE DEF candidates, gaps, more
 <2>. QED BY <1>1, <2>1, <2>2
<1>4. CASE w \in candidates
 <2>1. IsFiniteSet(candidates)
   BY FS_Subset
 <2>2. CASE Ruled!Cardinality(candidates) > 1
  <3>1. "further" \in more
    BY <2>2
  <3>. HIDE DEF candidates, more
  <3>. QED BY <1>1, <1>4, <3>1
 <2>3. CASE points = {}
  <3>1. "cohort" \in more
    BY <2>3
  <3>. HIDE DEF candidates, more
  <3>. QED BY <1>1, <1>4, <3>1
 <2>4. CASE ~(Ruled!Cardinality(candidates) > 1) /\ points # {}
  <3>1. w = chosen
   <4>. HIDE DEF candidates
   <4>. QED BY <1>4, <2>1, <2>4, OnlyOne
  <3>2. PICK m \in points : TRUE
    BY <2>4
  <3>. DEFINE x == Ruled!Obligation(b, Ruled!paths_of(b), chosen.mist, m)
  <3>3. x \in Ruled!wlan_plan(handled).obligations
   <4>1. candidates # {} /\ b \in handled[chosen] /\ m \in points
    <5>. HIDE DEF candidates, points, chosen
    <5>. QED BY <1>4, <3>1, <3>2
   <4>2. Ruled!wlan_plan(handled).obligations = Ruled!_wlan_claims(handled[chosen], chosen)
     BY <4>1 DEF Ruled!wlan_plan
   <4>. HIDE DEF chosen
   <4>. QED BY <4>1, <4>2 DEF Ruled!_wlan_claims, points
  <3>4. x.atom = b /\ x.subject = w.mist
   <4>. HIDE DEF chosen
   <4>. QED BY <3>1 DEF Ruled!Obligation
  <3>. HIDE DEF x
  <3>. QED BY <3>3, <3>4
 <2>. QED BY <2>2, <2>3, <2>4
<1>. QED BY <1>3, <1>4

LEMMA WlanPlanOfOne ==
    ASSUME NEW handled, NEW x \in Ruled!wlan_plan(handled).obligations, NEW y \in Ruled!wlan_plan(handled).obligations
    PROVE  x.subject = y.subject /\ x.mac \in {d.mac : d \in devices}
<1>1. PICK o : Ruled!wlan_plan(handled).obligations = Ruled!_wlan_claims(handled[o], o)
 <2>. DEFINE concerned == {o \in Objects : o.type = "wlans" /\ handled[o] # {}}
             candidates == {o \in concerned : Ruled!Resolved(o)}
 <2>1. Ruled!wlan_plan(handled).obligations = IF candidates = {} THEN {}
           ELSE Ruled!_wlan_claims(handled[CHOOSE o \in candidates : TRUE], CHOOSE o \in candidates : TRUE)
   BY DEF Ruled!wlan_plan, Ruled!NoPlan
 <2>. HIDE DEF candidates
 <2>. QED BY <2>1
<1>2. Ruled!cohort("ap", o.site) \subseteq {d.mac : d \in devices}
  BY DEF Ruled!cohort
<1>. QED BY <1>1, <1>2 DEF Ruled!Obligation, Ruled!_wlan_claims

LEMMA PortPlanOfOne ==
    ASSUME NEW x \in Ruled!port_plan.obligations, NEW y \in Ruled!port_plan.obligations
    PROVE  x.subject = y.subject /\ x.mac \in {d.mac : d \in devices}
<1>. DEFINE ports == {Ruled!Port(w) : w \in Ruled!_claims}
            chosen == CHOOSE p \in ports : TRUE
            taken == {w \in Ruled!_claims : Ruled!Port(w) = chosen}
            Together(w) == {v.path : v \in {u \in taken : /\ u.object = w.object /\ u.path[1] = w.path[1]
                                                          /\ u.path[3] = w.path[3]}}
            told == {Ruled!Obligation([object |-> w.object, attribute |-> w.path[1]], Together(w), chosen,
                                      w.object.mac) : w \in taken}
<1>1. x \in told /\ y \in told
  BY DEF Ruled!port_plan, Ruled!NoPlan
<1>2. \A w \in taken : w.object.mac \in {d.mac : d \in devices}
  BY DEF Ruled!_claims, Ruled!Switches, Ruled!cohort
<1>. HIDE DEF taken, chosen, Together
<1>. QED BY <1>1, <1>2 DEF Ruled!Obligation

LEMMA PortPlanTells ==
    ASSUME RulesInv, NEW w \in Ruled!PortWrites, Ruled!Handles(w)
    PROVE  \/ \E x \in Ruled!port_plan.obligations : w.path \in x.paths /\ x.mac = w.object.mac
           \/ w.object.mac \notin Ruled!Switches /\ "device" \in Ruled!port_plan.gaps
           \/ w.path[2] \notin Concrete /\ "selector" \in Ruled!port_plan.gaps
           \/ "further" \in Ruled!port_plan.gaps
<1>. DEFINE ports == {Ruled!Port(v) : v \in Ruled!_claims}
            chosen == CHOOSE p \in ports : TRUE
            taken == {v \in Ruled!_claims : Ruled!Port(v) = chosen}
            Together(u) == {v.path : v \in {t \in taken : /\ t.object = u.object /\ t.path[1] = u.path[1]
                                                          /\ t.path[3] = u.path[3]}}
            Told(v) == Ruled!Obligation([object |-> v.object, attribute |-> v.path[1]], Together(v), chosen, v.object.mac)
            told == {Told(v) : v \in taken}
            gaps == {"device" : v \in {x \in Ruled!PortWrites : x.object.mac \notin Ruled!Switches}}
                    \union {"selector" : v \in {x \in Ruled!PortWrites : /\ Ruled!Handles(x) /\ x.object.mac \in Ruled!Switches
                                                                      /\ x.path[2] \notin Concrete}}
            more == gaps \union (IF Ruled!Cardinality(ports) > 1 THEN {"further"} ELSE {})
<1>1. /\ ports = {} => Ruled!port_plan.gaps = gaps
      /\ ports # {} => Ruled!port_plan.gaps = more /\ Ruled!port_plan.obligations = told
  BY DEF Ruled!port_plan, Ruled!NoPlan
<1>2. gaps \subseteq Ruled!port_plan.gaps
 <2>1. gaps \subseteq more
   OBVIOUS
 <2>. HIDE DEF gaps, more, ports
 <2>. QED BY <1>1, <2>1
<1>3. CASE w.object.mac \notin Ruled!Switches
 <2>1. "device" \in gaps
   BY <1>3
 <2>. HIDE DEF gaps
 <2>. QED BY <1>2, <1>3, <2>1
<1>4. CASE w.object.mac \in Ruled!Switches /\ w.path[2] \notin Concrete
 <2>1. "selector" \in gaps
   BY <1>4
 <2>. HIDE DEF gaps
 <2>. QED BY <1>2, <1>4, <2>1
<1>5. CASE w.object.mac \in Ruled!Switches /\ w.path[2] \in Concrete
 <2>1. w \in Ruled!_claims /\ Ruled!Port(w) \in ports
   BY <1>5 DEF Ruled!_claims
 <2>2. IsFiniteSet(ports)
  <3>1. IsFiniteSet(Ruled!_claims)
    BY FS_Subset DEF RulesInv, Ruled!_claims, Ruled!PortWrites
  <3>2. [v \in Ruled!_claims |-> Ruled!Port(v)] \in Surjection(Ruled!_claims, ports)
    BY DEF Surjection
  <3>. QED BY <3>1, <3>2, FS_Surjection
 <2>3. CASE Ruled!Cardinality(ports) > 1
  <3>1. "further" \in more
    BY <2>3
  <3>. HIDE DEF more, ports
  <3>. QED BY <1>1, <2>1, <3>1
 <2>4. CASE ~(Ruled!Cardinality(ports) > 1)
  <3>1. Ruled!Port(w) = chosen
   <4>. HIDE DEF ports
   <4>. QED BY <2>1, <2>2, <2>4, OnlyOne
  <3>2. w \in taken
    BY <2>1, <3>1
  <3>3. w.path \in Together(w)
    BY <3>2
  <3>4. Told(w) \in told
    BY <3>2
  <3>5. w.path \in Told(w).paths /\ Told(w).mac = w.object.mac
   <4>. HIDE DEF Together, chosen
   <4>. QED BY <3>3 DEF Ruled!Obligation
  <3>. HIDE DEF told, Told, ports
  <3>. QED BY <1>1, <2>1, <3>4, <3>5
 <2>. QED BY <2>3, <2>4
<1>. QED BY <1>3, <1>4, <1>5

LEMMA RulesHold ==
    ASSUME IsFiniteSet(Objects), RulesInv
    PROVE  Ruled!RulesTellTheRest
<1>1. \A plan \in {Ruled!port_plan, Ruled!removal_plan, Ruled!auth_plan} :
          \A x, y \in plan.obligations : x.subject = y.subject /\ x.mac \in {d.mac : d \in devices}
 <2>1. \A x, y \in Ruled!removal_plan.obligations : x.subject = y.subject /\ x.mac \in {d.mac : d \in devices}
   BY WlanPlanOfOne DEF Ruled!removal_plan
 <2>2. \A x, y \in Ruled!auth_plan.obligations : x.subject = y.subject /\ x.mac \in {d.mac : d \in devices}
   BY WlanPlanOfOne DEF Ruled!auth_plan
 <2>. QED BY <2>1, <2>2, PortPlanOfOne
<1>2. ASSUME NEW o \in Objects, o.type = "wlans", NEW a \in Ruled!Lifecycle(o)
      PROVE  \/ Ruled!removal_plan.gaps # {}
             \/ \E x \in Ruled!removal_plan.obligations : x.atom = a /\ x.subject = o.mist
 <2>. DEFINE handled == [x \in Objects |-> Ruled!Lifecycle(x)]
 <2>1. a \in handled[o] /\ Ruled!removal_plan = Ruled!wlan_plan(handled)
   BY DEF Ruled!removal_plan
 <2>. HIDE DEF handled
 <2>. QED BY <1>2, <2>1, WlanPlanTells
<1>3. ASSUME NEW o \in Objects, o.type = "wlans", NEW a \in Ruled!Auth(o)
      PROVE  \/ Ruled!auth_plan.gaps # {}
             \/ \E x \in Ruled!auth_plan.obligations : x.atom = a /\ x.subject = o.mist
 <2>. DEFINE handled == [x \in Objects |-> Ruled!Auth(x)]
 <2>1. a \in handled[o] /\ Ruled!auth_plan = Ruled!wlan_plan(handled)
   BY DEF Ruled!auth_plan
 <2>. HIDE DEF handled
 <2>. QED BY <1>3, <2>1, WlanPlanTells
<1>. QED BY <1>1, <1>2, <1>3, PortPlanTells, Zenon DEF Ruled!RulesTellTheRest

\* The plan of switch_port.py, wlan_removal.py and wlan_auth.py: what one takes on
\* is of one port or WLAN, on devices that are expected, and a write or a WLAN it
\* handles and does not take on is told as a gap.
THEOREM RulesTellTheRest ==
    ASSUME Ruled!ObjectsAssumption
    PROVE  Ruled!Spec => []Ruled!RulesTellTheRest
<1>. IsFiniteSet(Objects)
  BY Zenon DEF Ruled!ObjectsAssumption, Ruled!IsFiniteSet, IsFiniteSet
<1>1. RulesInv => Ruled!RulesTellTheRest
  BY RulesHold
<1>. QED BY <1>1, RulesInit, RulesStep, PTL DEF Ruled!Spec

\* What an attempt reads and reports (GuardianAgent).
CONSTANTS
    MAX_MODEL_TURNS, MAX_MCP_CALLS, MAX_RULE_READS, REPORT_ONLY_TURNS, Tools, Advertised, Calls, Requests,
    Allowance, Results, Reports, Authority, OrgWide, Site, Room, Kept
VARIABLES clock, catalogue, items, cache, agent

Reading == INSTANCE GuardianAgent

\* What a plug-in's read, and what a call of the agent, may leave as evidence.
ReadEvidence ==
    {Reading!Evidence("rule", q.kind, q, result) : q \in {x \in Requests : Reading!_rule_params(x)}, result \in Results}
Permitted == {c \in Calls : c.org \in {"own", "absent"} /\ Reading!_check_site(c)}
CallEvidence ==
    {Reading!Evidence("mcp", c.kind, Reading!Prepared(c), result) : c \in Permitted, result \in Results}

AgentInv ==
    /\ items \in Seq(ReadEvidence \union CallEvidence)
    /\ DOMAIN agent = {"pc", "turn", "visible", "conclusion"} /\ agent.visible \subseteq DOMAIN items
    /\ \A e \in DOMAIN items : items[e].family = "mcp" /\ Reading!citable(e) => items[e].by \in DOMAIN cache
    /\ Reading!ReadOnce
    /\ agent.conclusion # {} => agent.pc = "ended"
    /\ Reading!ReportRestsOnHealth

LEMMA EvidenceFields ==
    ASSUME NEW family, NEW kind, NEW by, NEW result
    PROVE  LET e == Reading!Evidence(family, kind, by, result)
           IN  /\ e.family = family /\ e.by = by /\ e.kind = kind
               /\ e.collection = "error" <=> Reading!Unusable(result)
               /\ \A r \in e.rows : OrgWide \/ Site[r] \in Authority
  BY DEF Reading!Evidence, Reading!_within_authority

LEMMA EvidenceInside ==
    ASSUME Reading!CallsAssumption, NEW e \in ReadEvidence \union CallEvidence
    PROVE  /\ \A r \in e.rows : OrgWide \/ Site[r] \in Authority
           /\ e.by.org \in {"own", "absent"} /\ e.by.site \in Authority \union {"none"}
<1>1. CASE e \in ReadEvidence
 <2>1. PICK q \in Requests, result \in Results :
           Reading!_rule_params(q) /\ e = Reading!Evidence("rule", q.kind, q, result)
   BY <1>1 DEF ReadEvidence
 <2>2. q.org \in {"own", "absent"} /\ q.site \in Authority \union {"none"}
   BY <2>1 DEF Reading!_rule_params
 <2>. QED BY <2>1, <2>2, EvidenceFields
<1>2. CASE e \in CallEvidence
 <2>1. PICK c \in Permitted, result \in Results : e = Reading!Evidence("mcp", c.kind, Reading!Prepared(c), result)
   BY <1>2 DEF CallEvidence
 <2>2. {"org", "site"} \subseteq DOMAIN c /\ c.org \in {"own", "absent"} /\ c.site \in Authority \union {"none"}
   BY DEF Permitted, Reading!CallsAssumption, Reading!_check_site
 <2>3. Reading!Prepared(c).org \in {"own", "absent"} /\ Reading!Prepared(c).site \in Authority \union {"none"}
   BY <2>2 DEF Reading!Prepared
 <2>. QED BY <2>1, <2>3, EvidenceFields
<1>. QED BY <1>1, <1>2

LEMMA AgentInit == Reading!Init => AgentInv
<1>. SUFFICES ASSUME Reading!Init PROVE AgentInv
  OBVIOUS
<1>1. items = <<>> /\ DOMAIN items = {} /\ items \in Seq(ReadEvidence \union CallEvidence)
  BY DEF Reading!Init
<1>2. /\ DOMAIN agent = {"pc", "turn", "visible", "conclusion"}
      /\ agent.visible = {} /\ agent.conclusion = {}
  BY DEF Reading!Init, Reading!Silent
<1>. QED BY <1>1, <1>2 DEF AgentInv, Reading!ReadOnce, Reading!From, Reading!ReportRestsOnHealth

\* More evidence, without a report.
LEMMA AgentReads ==
    ASSUME AgentInv, NEW e \in ReadEvidence \union CallEvidence, items' = Append(items, e),
           DOMAIN cache \subseteq DOMAIN cache',
           e.family = "mcp" /\ e.collection # "error" => e.by \notin DOMAIN cache /\ e.by \in DOMAIN cache',
           agent' = agent \/ agent' = [agent EXCEPT !.pc = "turn"], agent.pc # "ended"
    PROVE  AgentInv'
<1>1. PICK n \in Nat : DOMAIN items = 1 .. n
  BY DEF AgentInv
<1>2. /\ items' \in Seq(ReadEvidence \union CallEvidence) /\ DOMAIN items' = 1 .. n + 1
      /\ items'[n + 1] = e /\ \A i \in 1 .. n : items'[i] = items[i]
  BY <1>1 DEF AgentInv
<1>3. /\ DOMAIN agent' = {"pc", "turn", "visible", "conclusion"}
      /\ agent'.visible = agent.visible /\ agent'.conclusion = agent.conclusion
  BY DEF AgentInv
<1>4. agent.conclusion = {} /\ agent.visible \subseteq 1 .. n
  BY <1>1 DEF AgentInv
<1>5. \A i \in 1 .. n : items[i].family = "mcp" /\ items[i].collection # "error" => items[i].by \in DOMAIN cache
  BY <1>1 DEF AgentInv, Reading!citable
<1>6. \A i, j \in 1 .. n : /\ items[i].family = "mcp" /\ items[j].family = "mcp"
                           /\ items[i].collection # "error" /\ items[j].collection # "error"
                           /\ items[i].by = items[j].by
                           => i = j
 <2>1. \A i, j \in Reading!From("mcp") :
           Reading!citable(i) /\ Reading!citable(j) /\ items[i].by = items[j].by => i = j
   BY Zenon DEF AgentInv, Reading!ReadOnce
 <2>. QED BY <1>1, <2>1 DEF Reading!From, Reading!citable
<1>7. \A i \in 1 .. n + 1 : i = n + 1 \/ i \in 1 .. n
  OBVIOUS
<1>8. \A i \in DOMAIN items' : items'[i].family = "mcp" /\ items'[i].collection # "error" => items'[i].by \in DOMAIN cache'
  BY <1>2, <1>5, <1>7
<1>9. Reading!ReadOnce'
 <2>1. ASSUME NEW i \in 1 .. n + 1, NEW j \in 1 .. n + 1,
              items'[i].family = "mcp", items'[j].family = "mcp",
              items'[i].collection # "error", items'[j].collection # "error", items'[i].by = items'[j].by
       PROVE  i = j
   BY <1>2, <1>5, <1>6, <1>7, <2>1
 <2>. QED BY <1>2, <2>1 DEF Reading!ReadOnce, Reading!From, Reading!citable
<1>10. Reading!ReportRestsOnHealth'
  BY <1>3, <1>4 DEF Reading!ReportRestsOnHealth
<1>11. agent'.visible \subseteq DOMAIN items'
  BY <1>2, <1>3, <1>4
<1>. QED BY <1>2, <1>3, <1>4, <1>8, <1>9, <1>10, <1>11 DEF AgentInv, Reading!citable

\* No evidence more; no report stood, and none is made.
LEMMA AgentTalks ==
    ASSUME AgentInv, items' = items, cache' = cache, agent.pc # "ended",
           DOMAIN agent' = DOMAIN agent, agent'.conclusion = agent.conclusion,
           agent'.visible = agent.visible \/ agent'.visible \subseteq DOMAIN items
    PROVE  AgentInv'
<1>1. agent'.conclusion = {} /\ agent'.visible \subseteq DOMAIN items'
  BY DEF AgentInv
<1>2. Reading!ReadOnce'
  BY DEF AgentInv, Reading!ReadOnce, Reading!From, Reading!citable
<1>3. \A e \in DOMAIN items' : items'[e].family = "mcp" /\ items'[e].collection # "error" => items'[e].by \in DOMAIN cache'
  BY DEF AgentInv, Reading!citable
<1>. QED BY <1>1, <1>2, <1>3 DEF AgentInv, Reading!citable, Reading!ReportRestsOnHealth

LEMMA ReadKeeps ==
    ASSUME AgentInv, NEW q \in Requests, Reading!Read(q)
    PROVE  AgentInv'
<1>1. PICK result \in Results : items' = Append(items, Reading!Evidence("rule", q.kind, q, result))
  BY DEF Reading!Read
<1>2. Reading!Evidence("rule", q.kind, q, result) \in ReadEvidence
  BY DEF Reading!Read, ReadEvidence
<1>3. Reading!Evidence("rule", q.kind, q, result).family = "rule"
  BY EvidenceFields
<1>4. cache' = cache /\ agent' = agent /\ agent.pc = "discover"
  BY DEF Reading!Read
<1>. QED BY <1>1, <1>2, <1>3, <1>4, AgentReads

LEMMA CallKeeps ==
    ASSUME AgentInv, NEW c \in Calls, Reading!Call(c)
    PROVE  AgentInv'
<1>. DEFINE Entry(result) == Reading!Evidence("mcp", c.kind, Reading!Prepared(c), result)
<1>1. PICK result \in Results :
          /\ items' = Append(items, Entry(result))
          /\ cache' = IF Reading!Unusable(result) THEN cache
                      ELSE [k \in DOMAIN cache \union {Reading!CacheKey(c)} |->
                                IF k \in DOMAIN cache THEN cache[k] ELSE Len(items) + 1]
  BY DEF Reading!Call
<1>2. Entry(result) \in CallEvidence
 <2>1. c \in Permitted
   BY DEF Reading!Call, Reading!Accepted, Permitted
 <2>. QED BY <2>1 DEF CallEvidence
<1>3. /\ Entry(result).by = Reading!Prepared(c)
      /\ Entry(result).collection = "error" <=> Reading!Unusable(result)
  BY EvidenceFields
<1>4. Reading!Prepared(c) \notin DOMAIN cache
  BY DEF Reading!Call, Reading!Hit, Reading!CacheKey
<1>5. DOMAIN cache \subseteq DOMAIN cache' /\ (~Reading!Unusable(result) => Reading!Prepared(c) \in DOMAIN cache')
  BY <1>1 DEF Reading!CacheKey
<1>6. agent' = [agent EXCEPT !.pc = "turn"] /\ agent.pc # "ended"
  BY DEF Reading!Call, Reading!Asking, Reading!NextTurn
<1>. HIDE DEF Entry
<1>. QED BY <1>1, <1>2, <1>3, <1>4, <1>5, <1>6, AgentReads

\* What bounded keeps of an accepted report still cites health that was shown.
LEMMA ReportKeeps ==
    ASSUME AgentInv, Reading!CallsAssumption, NEW c \in Reports, NEW coverage, Reading!Acceptable(c, coverage),
           Reading!needs_health(Reading!_reported(c))
    PROVE  \E e \in Reading!health(Reading!cited(Reading!_reported(c))) : Reading!citable(e) /\ e \in agent.visible
<1>. DEFINE kept == Reading!KeptFindings(c)
            rest == [c EXCEPT !.findings = kept]
            support == Reading!health(Reading!cited(c))
            more == Reading!kept_support(c)
<1>0. {"peak", "confidence", "evidence", "findings", "devices"} \subseteq DOMAIN c
  BY DEF Reading!CallsAssumption
<1>1. /\ Reading!_reported(c).peak = c.peak /\ Reading!_reported(c).confidence = c.confidence
      /\ Reading!_reported(c).evidence = c.evidence \union more
      /\ Reading!_reported(c).findings = kept /\ Reading!_reported(c).devices = c.devices
 <2>. HIDE DEF kept, more
 <2>. QED BY <1>0 DEF Reading!_reported, kept, more
<1>2. rest.evidence = c.evidence /\ rest.findings = kept /\ rest.devices = c.devices
 <2>. HIDE DEF kept
 <2>. QED BY <1>0
<1>3. Reading!cited(Reading!_reported(c)) = Reading!cited(rest) \union more
 <2>. HIDE DEF kept, rest, more
 <2>. QED BY <1>1, <1>2 DEF Reading!cited
<1>4. support # {}
 <2>1. Reading!needs_health(c)
   BY <1>1 DEF Reading!needs_health
 <2>. QED BY <2>1 DEF Reading!Acceptable, Reading!_supported
<1>5. \A e \in support : Reading!citable(e) /\ e \in agent.visible /\ items[e].kind = "service_health"
 <2>1. Reading!cited(c) \subseteq {e \in agent.visible : Reading!citable(e)}
   BY DEF Reading!Acceptable, Reading!_citable
 <2>. QED BY <2>1 DEF Reading!health
<1>6. more = IF support = {} \/ Reading!cited(rest) \intersect support # {} THEN {} ELSE {Reading!Min(support)}
  BY Zenon DEF Reading!kept_support
<1>. HIDE DEF kept, rest, support, more
<1>7. CASE Reading!cited(rest) \intersect support # {}
 <2>1. PICK e \in support : e \in Reading!cited(rest)
   BY <1>7
 <2>. QED BY <1>3, <1>5, <2>1 DEF Reading!health
<1>8. CASE Reading!cited(rest) \intersect support = {}
 <2>1. support \subseteq Nat
  <3>1. agent.visible \subseteq DOMAIN items /\ DOMAIN items \subseteq Nat
    BY DEF AgentInv
  <3>. QED BY <1>5, <3>1
 <2>2. PICK m \in support : \A k \in support : k >= m
   BY <1>4, <2>1, LeastOf
 <2>3. \A k \in support : m <= k
   BY <2>1, <2>2
 <2>4. Reading!Min(support) \in support
   BY <2>2, <2>3 DEF Reading!Min
 <2>5. more = {Reading!Min(support)}
   BY <1>4, <1>6, <1>8
 <2>. QED BY <1>3, <1>5, <2>4, <2>5 DEF Reading!health
<1>. QED BY <1>7, <1>8

LEMMA ReportStep ==
    ASSUME AgentInv, Reading!CallsAssumption, NEW c \in Reports, NEW coverage, Reading!Report(c, coverage)
    PROVE  AgentInv'
<1>1. items' = items /\ cache' = cache /\ agent.pc = "asked"
  BY DEF Reading!Report
<1>2. CASE ~Reading!Acceptable(c, coverage)
 <2>1. agent' = [agent EXCEPT !.pc = "turn"]
   BY <1>2 DEF Reading!Report
 <2>2. DOMAIN agent' = DOMAIN agent /\ agent'.conclusion = agent.conclusion /\ agent'.visible = agent.visible
   BY <2>1 DEF AgentInv
 <2>. QED BY <1>1, <2>2, AgentTalks
<1>3. CASE Reading!Acceptable(c, coverage)
 <2>1. agent' = [agent EXCEPT !.pc = "ended", !.conclusion = {Reading!_reported(c)}]
   BY <1>3 DEF Reading!Report
 <2>2. /\ DOMAIN agent' = {"pc", "turn", "visible", "conclusion"} /\ agent'.pc = "ended"
       /\ agent'.conclusion = {Reading!_reported(c)} /\ agent'.visible = agent.visible
   BY <2>1 DEF AgentInv
 <2>3. Reading!ReportRestsOnHealth'
  <3>1. ASSUME Reading!needs_health(Reading!_reported(c))
        PROVE  \E e \in Reading!health(Reading!cited(Reading!_reported(c))) :
                   items[e].collection # "error" /\ e \in agent.visible
    BY <1>3, <3>1, ReportKeeps DEF Reading!citable
  <3>. DEFINE r == Reading!_reported(c)
  <3>2. \A d \in agent'.conclusion : Reading!needs_health(d) =>
            \E e \in {x \in Reading!cited(d) : items[x].kind = "service_health"} :
                items[e].collection # "error" /\ e \in agent.visible
    BY <2>2, <3>1 DEF Reading!health
  <3>. QED BY <1>1, <2>2, <3>2
           DEF Reading!ReportRestsOnHealth, Reading!health, Reading!citable, Reading!needs_health, Reading!cited,
               Reading!band_rank
 <2>4. Reading!ReadOnce'
   BY <1>1 DEF AgentInv, Reading!ReadOnce, Reading!From, Reading!citable
 <2>5. \A e \in DOMAIN items' : items'[e].family = "mcp" /\ items'[e].collection # "error" => items'[e].by \in DOMAIN cache'
   BY <1>1 DEF AgentInv, Reading!citable
 <2>6. items' \in Seq(ReadEvidence \union CallEvidence) /\ agent'.visible \subseteq DOMAIN items'
   BY <1>1, <2>2 DEF AgentInv
 <2>. QED BY <2>2, <2>3, <2>4, <2>5, <2>6 DEF AgentInv, Reading!citable
<1>. QED BY <1>2, <1>3

LEMMA AgentStep ==
    ASSUME Reading!CallsAssumption
    PROVE  AgentInv /\ [Reading!Next]_(Reading!vars) => AgentInv'
<1>. SUFFICES ASSUME AgentInv, [Reading!Next]_(Reading!vars) PROVE AgentInv'
  OBVIOUS
<1>1. CASE UNCHANGED Reading!vars
  BY <1>1 DEF AgentInv, Reading!vars, Reading!ReadOnce, Reading!From, Reading!citable,
              Reading!ReportRestsOnHealth, Reading!health, Reading!needs_health, Reading!cited, Reading!band_rank
<1>2. CASE \E q \in Requests : Reading!Read(q)
  BY <1>2, ReadKeeps
<1>3. CASE Reading!Discover
 <2>1. /\ agent' = [agent EXCEPT !.pc = "turn"] /\ items' = items /\ cache' = cache /\ agent.pc # "ended"
   BY <1>3 DEF Reading!Discover, Reading!NextTurn
 <2>2. DOMAIN agent' = DOMAIN agent /\ agent'.conclusion = agent.conclusion /\ agent'.visible = agent.visible
   BY <2>1 DEF AgentInv
 <2>. QED BY <2>1, <2>2, AgentTalks
<1>4. CASE Reading!Turn
 <2>1. items' = items /\ cache' = cache /\ agent.pc # "ended"
   BY <1>4 DEF Reading!Turn
 <2>2. \/ agent' = [agent EXCEPT !.pc = "ended"]
       \/ agent' = [agent EXCEPT !.pc = "asked", !.turn = @ + 1, !.visible = Reading!build_prompt]
   BY <1>4 DEF Reading!Turn, Reading!End
 <2>3. Reading!build_prompt \subseteq DOMAIN items
   BY DEF Reading!build_prompt
 <2>4. /\ DOMAIN agent' = DOMAIN agent /\ agent'.conclusion = agent.conclusion
       /\ agent'.visible = agent.visible \/ agent'.visible \subseteq DOMAIN items
   BY <2>2, <2>3 DEF AgentInv
 <2>. QED BY <2>1, <2>4, AgentTalks
<1>5. CASE Reading!ProviderFails
 <2>1. /\ agent' = [agent EXCEPT !.pc = "ended"] /\ items' = items /\ cache' = cache /\ agent.pc # "ended"
   BY <1>5 DEF Reading!ProviderFails, Reading!End
 <2>2. DOMAIN agent' = DOMAIN agent /\ agent'.conclusion = agent.conclusion /\ agent'.visible = agent.visible
   BY <2>1 DEF AgentInv
 <2>. QED BY <2>1, <2>2, AgentTalks
<1>6. CASE Reading!TimePasses
  BY <1>6, AgentTalks DEF Reading!TimePasses
<1>7. CASE \E c \in Calls : Reading!Call(c)
  BY <1>7, CallKeeps
<1>8. CASE \E c \in Calls : Reading!CallTooLate(c)
 <2>1. /\ agent' = [agent EXCEPT !.pc = "ended"] /\ items' = items /\ cache' = cache /\ agent.pc # "ended"
   BY <1>8 DEF Reading!CallTooLate, Reading!End, Reading!Asking
 <2>2. DOMAIN agent' = DOMAIN agent /\ agent'.conclusion = agent.conclusion /\ agent'.visible = agent.visible
   BY <2>1 DEF AgentInv
 <2>. QED BY <2>1, <2>2, AgentTalks
<1>9. CASE \E c \in Calls : Reading!NothingRead(c)
 <2>1. /\ agent' = [agent EXCEPT !.pc = "turn"] /\ items' = items /\ cache' = cache /\ agent.pc # "ended"
   BY <1>9 DEF Reading!NothingRead, Reading!NextTurn
 <2>2. DOMAIN agent' = DOMAIN agent /\ agent'.conclusion = agent.conclusion /\ agent'.visible = agent.visible
   BY <2>1 DEF AgentInv
 <2>. QED BY <2>1, <2>2, AgentTalks
<1>10. CASE \E c \in Reports, coverage \in {"complete", "partial"} : Reading!Report(c, coverage)
  BY <1>10, ReportStep
<1>. QED BY <1>1, <1>2, <1>3, <1>4, <1>5, <1>6, <1>7, <1>8, <1>9, <1>10, Zenon DEF Reading!Next

\* reader.py _within_authority, agent.py _check_site: whatever Mist answers and
\* the model asks, no row of another site is kept and no call reaches one.
THEOREM EvidenceStaysInside ==
    ASSUME Reading!CallsAssumption
    PROVE  Reading!Spec => []Reading!EvidenceStaysInside
<1>1. AgentInv => Reading!EvidenceStaysInside
 <2>. SUFFICES ASSUME AgentInv, NEW e \in DOMAIN items
               PROVE  /\ \A r \in items[e].rows : OrgWide \/ Site[r] \in Authority
                      /\ items[e].by.org \in {"own", "absent"} /\ items[e].by.site \in Authority \union {"none"}
   BY Zenon DEF Reading!EvidenceStaysInside
 <2>1. items[e] \in ReadEvidence \union CallEvidence
   BY DEF AgentInv
 <2>. QED BY <2>1, EvidenceInside
<1>. QED BY <1>1, AgentInit, AgentStep, PTL DEF Reading!Spec

\* reader.py _canonical and its cache: one call is read once, however the model
\* words it, unless the read failed.
THEOREM ReadOnce ==
    ASSUME Reading!CallsAssumption
    PROVE  Reading!Spec => []Reading!ReadOnce
<1>1. AgentInv => Reading!ReadOnce
  BY DEF AgentInv
<1>. QED BY <1>1, AgentInit, AgentStep, PTL DEF Reading!Spec

\* agent.py _conclusion and _reported: a severity that must rest on service health
\* rests, as it is stored and after findings were cut, on health read and shown.
THEOREM ReportRestsOnHealth ==
    ASSUME Reading!CallsAssumption
    PROVE  Reading!Spec => []Reading!ReportRestsOnHealth
<1>1. AgentInv => Reading!ReportRestsOnHealth
  BY DEF AgentInv
<1>. QED BY <1>1, AgentInit, AgentStep, PTL DEF Reading!Spec

\* The prompt of the turn being answered is built from the evidence there is, of
\* which the plug-ins read no more than they may.
PromptInv ==
    /\ AgentInv
    /\ Cardinality(Reading!From("rule")) <= MAX_RULE_READS
    /\ agent.pc = "asked" => agent.visible = Reading!build_prompt

LEMMA Families ==
    ASSUME AgentInv
    PROVE  /\ \A e \in DOMAIN items : items[e].family \in {"rule", "mcp"}
           /\ IsFiniteSet(Reading!From("rule")) /\ \E n \in Nat : DOMAIN items = 1 .. n
<1>1. PICK n \in Nat : DOMAIN items = 1 .. n
  BY DEF AgentInv
<1>2. IsFiniteSet(1 .. n)
 <2>1. 1 \in Int /\ n \in Int
   OBVIOUS
 <2>. QED BY <2>1, FS_Interval
<1>3. Reading!From("rule") \subseteq 1 .. n
  BY <1>1 DEF Reading!From
<1>4. ASSUME NEW e \in DOMAIN items PROVE items[e].family \in {"rule", "mcp"}
 <2>1. items[e] \in ReadEvidence \union CallEvidence
   BY DEF AgentInv
 <2>. QED BY <2>1, EvidenceFields DEF ReadEvidence, CallEvidence
<1>. QED BY <1>1, <1>2, <1>3, <1>4, FS_Subset

LEMMA PromptInit == Reading!RoomAssumption /\ Reading!Init => PromptInv
<1>. SUFFICES ASSUME Reading!RoomAssumption, Reading!Init PROVE PromptInv
  OBVIOUS
<1>1. Reading!From("rule") = {} /\ agent.pc = "discover"
  BY DEF Reading!Init, Reading!Silent, Reading!From
<1>2. Cardinality(Reading!From("rule")) = 0
  BY <1>1, FS_EmptySet
<1>. QED BY <1>1, <1>2, AgentInit DEF PromptInv, Reading!RoomAssumption

\* The evidence stays, and so does what a prompt of it shows.
LEMMA PromptKept ==
    ASSUME PromptInv, AgentInv', items' = items,
           agent'.pc = "asked" => agent = agent' \/ agent'.visible = Reading!build_prompt
    PROVE  PromptInv'
<1>1. Reading!build_prompt' = Reading!build_prompt /\ Reading!From("rule")' = Reading!From("rule")
  BY DEF Reading!build_prompt, Reading!Withheld, Reading!Payloads, Reading!WithholdFirst, Reading!Rank,
         Reading!citable, Reading!From
<1>. QED BY <1>1 DEF PromptInv

LEMMA PromptRead ==
    ASSUME PromptInv, AgentInv', Reading!RoomAssumption, NEW e, items' = Append(items, e), agent'.pc # "asked",
           e.family = "rule" => Cardinality(Reading!From("rule")) < MAX_RULE_READS
    PROVE  PromptInv'
<1>1. PICK n \in Nat : DOMAIN items = 1 .. n
  BY Families DEF PromptInv
<1>2. DOMAIN items' = 1 .. n + 1 /\ items'[n + 1] = e /\ \A i \in 1 .. n : items'[i] = items[i]
  BY <1>1 DEF PromptInv, AgentInv
<1>. DEFINE old == Reading!From("rule")
<1>3. old = {i \in 1 .. n : items[i].family = "rule"}
  BY <1>1 DEF Reading!From
<1>4. old' = {i \in 1 .. n + 1 : items'[i].family = "rule"}
  BY <1>2 DEF Reading!From
<1>5. IsFiniteSet(old) /\ Cardinality(old) \in Nat
  BY Families, FS_CardinalityType DEF PromptInv
<1>. HIDE DEF old
<1>6. n + 1 \notin old /\ \A i : i \in 1 .. n + 1 <=> i = n + 1 \/ i \in 1 .. n
  BY <1>3
<1>7. CASE e.family = "rule"
 <2>1. old' = old \union {n + 1}
   BY <1>2, <1>3, <1>4, <1>6, <1>7
 <2>2. Cardinality(old') = Cardinality(old) + 1
   BY <1>5, <1>6, <2>1, FS_AddElement
 <2>3. Cardinality(old) < MAX_RULE_READS
   BY <1>7 DEF old
 <2>4. Cardinality(old') <= MAX_RULE_READS
   BY <1>5, <2>2, <2>3 DEF Reading!RoomAssumption
 <2>. QED BY <2>4 DEF PromptInv, old
<1>8. CASE e.family # "rule"
 <2>1. old' = old
   BY <1>2, <1>3, <1>4, <1>6, <1>8
 <2>. QED BY <2>1 DEF PromptInv, old
<1>. QED BY <1>7, <1>8

LEMMA PromptStep ==
    ASSUME Reading!CallsAssumption, Reading!RoomAssumption
    PROVE  PromptInv /\ [Reading!Next]_(Reading!vars) => PromptInv'
<1>. SUFFICES ASSUME PromptInv, [Reading!Next]_(Reading!vars) PROVE PromptInv'
  OBVIOUS
<1>0. AgentInv' /\ DOMAIN agent = {"pc", "turn", "visible", "conclusion"}
 <2>1. AgentInv
   BY DEF PromptInv
 <2>. QED BY <2>1, AgentStep DEF AgentInv
<1>1. CASE UNCHANGED Reading!vars
  BY <1>0, <1>1, PromptKept DEF Reading!vars
<1>2. CASE \E q \in Requests : Reading!Read(q)
 <2>1. PICK q \in Requests, result \in Results :
           /\ items' = Append(items, Reading!Evidence("rule", q.kind, q, result))
           /\ Reading!Cardinality(Reading!From("rule")) < MAX_RULE_READS
           /\ agent' = agent /\ agent.pc = "discover"
   BY <1>2 DEF Reading!Read
 <2>2. Reading!Cardinality(Reading!From("rule")) = Cardinality(Reading!From("rule"))
   BY Zenon DEF Reading!Cardinality, Cardinality
 <2>. QED BY <1>0, <2>1, <2>2, PromptRead
<1>3. CASE \E c \in Calls : Reading!Call(c)
 <2>1. PICK c \in Calls, result \in Results :
           /\ items' = Append(items, Reading!Evidence("mcp", c.kind, Reading!Prepared(c), result))
           /\ agent' = [agent EXCEPT !.pc = "turn"]
   BY <1>3 DEF Reading!Call, Reading!NextTurn
 <2>2. agent'.pc = "turn" /\ Reading!Evidence("mcp", c.kind, Reading!Prepared(c), result).family = "mcp"
   BY <1>0, <2>1, EvidenceFields
 <2>. QED BY <1>0, <2>1, <2>2, PromptRead
<1>4. CASE Reading!Turn
 <2>1. /\ items' = items
       /\ \/ agent' = [agent EXCEPT !.pc = "ended"]
          \/ agent' = [agent EXCEPT !.pc = "asked", !.turn = @ + 1, !.visible = Reading!build_prompt]
   BY <1>4 DEF Reading!Turn, Reading!End
 <2>2. agent'.pc = "asked" => agent'.visible = Reading!build_prompt
   BY <1>0, <2>1
 <2>. QED BY <1>0, <2>1, <2>2, PromptKept
<1>5. CASE \/ Reading!Discover \/ Reading!ProviderFails \/ \E c \in Calls : Reading!CallTooLate(c) \/ Reading!NothingRead(c)
 <2>1. items' = items /\ (agent' = [agent EXCEPT !.pc = "ended"] \/ agent' = [agent EXCEPT !.pc = "turn"])
   BY <1>5 DEF Reading!Discover, Reading!ProviderFails, Reading!CallTooLate, Reading!NothingRead, Reading!End,
               Reading!NextTurn
 <2>2. agent'.pc # "asked"
   BY <1>0, <2>1
 <2>. QED BY <1>0, <2>1, <2>2, PromptKept
<1>6. CASE Reading!TimePasses
  BY <1>0, <1>6, PromptKept DEF Reading!TimePasses
<1>7. CASE \E c \in Reports, coverage \in {"complete", "partial"} : Reading!Report(c, coverage)
 <2>1. PICK c \in Reports, coverage \in {"complete", "partial"} : Reading!Report(c, coverage)
   BY <1>7
 <2>2. /\ items' = items
       /\ \/ agent' = [agent EXCEPT !.pc = "ended", !.conclusion = {Reading!_reported(c)}]
          \/ agent' = [agent EXCEPT !.pc = "turn"]
   BY <2>1, Zenon DEF Reading!Report
 <2>3. agent'.pc # "asked"
   BY <1>0, <2>2
 <2>. QED BY <1>0, <2>2, <2>3, PromptKept
<1>. QED BY <1>1, <1>2, <1>3, <1>4, <1>5, <1>6, <1>7, Zenon DEF Reading!Next

\* agent.py build_prompt: the prompt the model answers shows what the agent read
\* last: what the plug-ins read cannot fill the room beside its fixed part.
THEOREM NewestIsShown ==
    ASSUME Reading!CallsAssumption, Reading!RoomAssumption
    PROVE  Reading!Spec => []Reading!NewestIsShown
<1>1. PromptInv => Reading!NewestIsShown
 <2>. SUFFICES ASSUME PromptInv, agent.pc = "asked", NEW e \in Reading!From("mcp"),
                      \A f \in Reading!From("mcp") : f <= e
               PROVE  e \in agent.visible
   BY Zenon DEF Reading!NewestIsShown
 <2>. DEFINE kept == {f \in Reading!Payloads : ~Reading!WithholdFirst(f, e)}
             most == Reading!From("rule") \union {e}
 <2>1. PICK n \in Nat : DOMAIN items = 1 .. n
   BY Families DEF PromptInv
 <2>2. e \in DOMAIN items /\ items[e].family = "mcp"
   BY DEF Reading!From
 <2>3. kept \subseteq most
  <3>. SUFFICES ASSUME NEW f \in kept, f \notin Reading!From("rule") PROVE f = e
    OBVIOUS
  <3>1. f \in DOMAIN items /\ items[f].family = "mcp"
    BY Families DEF PromptInv, Reading!Payloads, Reading!From
  <3>2. f \in Reading!From("mcp") /\ ~(f < e)
    BY <2>2, <3>1 DEF Reading!From, Reading!WithholdFirst, Reading!Rank
  <3>. QED BY <2>1, <2>2, <3>1, <3>2
 <2>4. /\ IsFiniteSet(most) /\ Cardinality(most) <= Cardinality(Reading!From("rule")) + 1
       /\ Cardinality(Reading!From("rule")) \in Nat
  <3>. DEFINE read == Reading!From("rule")
  <3>1. IsFiniteSet(read)
    BY Families DEF PromptInv
  <3>. HIDE DEF read
  <3>2. /\ IsFiniteSet(read \union {e}) /\ Cardinality(read) \in Nat
        /\ Cardinality(read \union {e}) = IF e \in read THEN Cardinality(read) ELSE Cardinality(read) + 1
    BY <3>1, FS_AddElement, FS_CardinalityType
  <3>3. Cardinality(read \union {e}) <= Cardinality(read) + 1
    BY <3>2
  <3>. QED BY <3>2, <3>3 DEF read
 <2>5. Cardinality(kept) <= Cardinality(most) /\ Cardinality(kept) \in Nat /\ Cardinality(most) \in Nat
   BY <2>3, <2>4, FS_Subset, FS_CardinalityType
 <2>6. Cardinality(kept) <= Room
   BY <2>4, <2>5 DEF PromptInv, Reading!RoomAssumption
 <2>7. Reading!Cardinality(kept) = Cardinality(kept)
   BY Zenon DEF Reading!Cardinality, Cardinality
 <2>8. e \notin Reading!Withheld
  <3>. HIDE DEF kept
  <3>1. ~(Reading!Cardinality(kept) > Room)
    BY <2>5, <2>6, <2>7 DEF Reading!RoomAssumption
  <3>. QED BY <3>1, Zenon DEF Reading!Withheld, kept
 <2>. QED BY <2>2, <2>8 DEF PromptInv, Reading!build_prompt
<1>. QED BY <1>1, PromptInit, PromptStep, PTL DEF Reading!Spec

\* One record rated twice (MonitoringReplay).
CONSTANTS Samples, Plans, Selections, Incidents, Findings, WARNING_DELTA, CRITICAL_DELTA, MaxObservations, MaxIncidents
VARIABLES plan, baseline, observations, incidents, comparison, severity, peak, stored

Replayed == INSTANCE MonitoringReplay

LEMMA WorstOf ==
    ASSUME NEW S, S \subseteq 0 .. 3
    PROVE  /\ Replayed!_worst(S) \in 0 .. 3 /\ \A b \in S : b <= Replayed!_worst(S)
           /\ Replayed!_worst(S) = 0 \/ Replayed!_worst(S) \in S
<1>. DEFINE T == S \union {0}
<1>1. T \subseteq 0 .. 3 /\ T # {} /\ 3 \in Nat
  OBVIOUS
<1>. HIDE DEF T
<1>2. PICK m \in T : \A k \in T : m >= k
  BY <1>1, GreatestOf
<1>3. Replayed!Max(T) \in T /\ \A k \in T : Replayed!Max(T) >= k
  BY <1>2 DEF Replayed!Max
<1>4. \A b \in S : b <= Replayed!Max(T)
  BY <1>1, <1>3 DEF T
<1>5. Replayed!Max(T) = 0 \/ Replayed!Max(T) \in S
  BY <1>3 DEF T
<1>. QED BY <1>1, <1>3, <1>4, <1>5 DEF Replayed!_worst, T

\* What was measured has a value, and is a metric of its sample.
LEMMA MeasuredHasValue ==
    ASSUME NEW x, NEW m, Replayed!_state({x}, m) = "measured"
    PROVE  m \in DOMAIN x.values /\ m \in Replayed!_names({x})
<1>. DEFINE s == CHOOSE y \in {x} : TRUE
<1>1. s = x
  OBVIOUS
<1>2. m \in DOMAIN s.values
 <2>. HIDE DEF s
 <2>. QED BY DEF Replayed!_state, s
<1>. HIDE DEF s
<1>. QED BY <1>1, <1>2 DEF Replayed!_names

LEMMA NothingMeasured ==
    ASSUME NEW m
    PROVE  Replayed!_state({}, m) = "pending"
  BY DEF Replayed!_state

Metrics(b, a, p) == Replayed!_names(b) \union Replayed!_names(a) \union p.metrics
Chosen(p, m) == p.mode = "legacy_all" \/ m \in p.metrics
\* A row of the evidence says of a metric what a check of the replay says.
Tells(r, b, a, p, m) ==
    /\ r.before = Replayed!metric_check(b, a, m).before /\ r.after = Replayed!metric_check(b, a, m).after
    /\ r.delta = Replayed!metric_check(b, a, m).delta /\ (r.selected <=> Chosen(p, m))

LEMMA RowsTell ==
    ASSUME NEW b, NEW a, NEW p
    PROVE  /\ \A r \in Replayed!evidence_rows(b, a, p) : \E m \in Metrics(b, a, p) : Tells(r, b, a, p, m)
           /\ \A m \in Metrics(b, a, p) : \E r \in Replayed!evidence_rows(b, a, p) : Tells(r, b, a, p, m)
<1>. DEFINE old(m) == {x.values[m] : x \in {y \in b : Replayed!_state(b, m) = "measured"}}
            new(m) == {x.values[m] : x \in {y \in a : Replayed!_state(a, m) = "measured"}}
            drop(m) == IF Replayed!same_scope(b, a) THEN {y - x : x \in old(m), y \in new(m)} ELSE {}
            row(m) == [name |-> m, before |-> Replayed!_state(b, m), after |-> Replayed!_state(a, m),
                       delta |-> drop(m), selected |-> p.mode = "legacy_all" \/ m \in p.metrics]
<1>1. ASSUME NEW m
      PROVE  drop(m) = Replayed!metric_check(b, a, m).delta
 <2>. DEFINE drops == {y.values[m] - x.values[m] : x \in b, y \in a}
             before == old(m)
             after == new(m)
 <2>1. Replayed!metric_check(b, a, m).delta =
           IF Replayed!_state(b, m) = "measured" /\ Replayed!_state(a, m) = "measured" /\ Replayed!same_scope(b, a)
           THEN drops ELSE {}
   BY DEF Replayed!metric_check
 <2>2. CASE Replayed!_state(b, m) = "measured" /\ Replayed!_state(a, m) = "measured"
  <3>1. before = {x.values[m] : x \in b} /\ after = {x.values[m] : x \in a}
    BY <2>2
  <3>2. drops = {y - x : x \in before, y \in after}
   <4>. HIDE DEF before, after
   <4>. QED BY <3>1
  <3>. HIDE DEF old, new, drops
  <3>. QED BY <2>1, <2>2, <3>2
 <2>3. CASE Replayed!_state(b, m) # "measured" \/ Replayed!_state(a, m) # "measured"
  <3>1. before = {} \/ after = {}
    BY <2>3
  <3>. HIDE DEF old, new, drops
  <3>2. {y - x : x \in before, y \in after} = {}
    BY <3>1
  <3>. QED BY <2>1, <2>3, <3>2
 <2>. QED BY <2>2, <2>3
<1>2. Replayed!evidence_rows(b, a, p) = {row(m) : m \in Metrics(b, a, p)}
  BY DEF Replayed!evidence_rows, Metrics
<1>3. ASSUME NEW m
      PROVE  Tells(row(m), b, a, p, m)
 <2>1. row(m).delta = Replayed!metric_check(b, a, m).delta
  <3>1. row(m).delta = drop(m)
   <4>. HIDE DEF drop
   <4>. QED OBVIOUS
  <3>2. drop(m) = Replayed!metric_check(b, a, m).delta
   <4>. HIDE DEF drop
   <4>. QED BY <1>1
  <3>. HIDE DEF drop, row
  <3>. QED BY <3>1, <3>2, Zenon
 <2>2. row(m).selected <=> Chosen(p, m)
  <3>. HIDE DEF drop
  <3>. QED BY DEF Chosen
 <2>3. row(m).before = Replayed!metric_check(b, a, m).before /\ row(m).after = Replayed!metric_check(b, a, m).after
  <3>. HIDE DEF drop
  <3>. QED BY DEF Replayed!metric_check
 <2>. HIDE DEF row
 <2>. QED BY <2>1, <2>2, <2>3 DEF Tells
<1>. HIDE DEF row
<1>. QED BY <1>2, <1>3

LEMMA DeltasTell ==
    ASSUME NEW b, NEW a, NEW p, NEW d
    PROVE  d \in Replayed!Deltas(Replayed!evidence_rows(b, a, p))
             <=> \E m \in Metrics(b, a, p) : Chosen(p, m) /\ d \in Replayed!metric_check(b, a, m).delta
<1>. DEFINE rows == Replayed!evidence_rows(b, a, p)
<1>1. d \in Replayed!Deltas(rows) <=> \E r \in rows : r.selected /\ d \in r.delta
  BY DEF Replayed!Deltas
<1>. HIDE DEF rows
<1>. QED BY <1>1, RowsTell DEF Tells, rows

\* Selected metrics are rated the same, whatever the samples hold.
LEMMA RatedTheSame ==
    ASSUME NEW b, NEW a, NEW p, p.mode = "selected", p.metrics # {}
    PROVE  Replayed!metric_severity(b, a, p.metrics) = Replayed!assess_impact(b, a, {}, {}, p).severity
<1>. DEFINE rows == Replayed!evidence_rows(b, a, p)
            D == Replayed!Deltas(rows)
            checks == {Replayed!metric_check(b, a, m) : m \in p.metrics}
            E == UNION {c.delta : c \in checks}
            failed == \/ \E c \in checks : c.before \notin Replayed!Observed \/ c.after \notin Replayed!Observed
                      \/ \E s \in b \union a : \E e \in s.errors : e = "general" \/ e \in p.metrics
            coverage == Replayed!evidence_coverage(rows, b, a, p)
<1>1. \A m : Chosen(p, m) <=> m \in p.metrics
  BY DEF Chosen
<1>2. D = E
 <2>1. ASSUME NEW d PROVE d \in D <=> \E m \in p.metrics : d \in Replayed!metric_check(b, a, m).delta
   BY <1>1, DeltasTell DEF Metrics
 <2>2. ASSUME NEW d PROVE d \in E <=> \E m \in p.metrics : d \in Replayed!metric_check(b, a, m).delta
   OBVIOUS
 <2>. HIDE DEF D, E
 <2>. QED BY <2>1, <2>2
<1>3. /\ \A m \in p.metrics : \E r \in {x \in rows : x.selected} : Tells(r, b, a, p, m)
      /\ \A r \in {x \in rows : x.selected} : \E m \in p.metrics : Tells(r, b, a, p, m)
 <2>1. \A m \in p.metrics : m \in Metrics(b, a, p)
   BY DEF Metrics
 <2>. HIDE DEF rows
 <2>. QED BY <1>1, <2>1, RowsTell DEF Tells, rows
<1>4. D # {} => (coverage = "complete" <=> ~failed)
 <2>. DEFINE selected == {r \in rows : r.selected}
             excluded(s) == (s.errors \union s.metric_errors) \ (p.metrics \union {"general"})
             failures == \/ \E r \in selected : r.before \notin Replayed!Observed \/ r.after \notin Replayed!Observed
                         \/ \E s \in b \union a : \E e \in s.errors : p.mode = "legacy_all" \/ e \notin excluded(s)
 <2>1. selected # {}
   BY <1>3
 <2>2. ASSUME D # {} PROVE Replayed!same_scope(b, a) /\ ~\A r \in selected : r.delta = {}
  <3>1. \E m \in p.metrics : Replayed!metric_check(b, a, m).delta # {}
    BY <1>2, <2>2
  <3>2. Replayed!same_scope(b, a)
    BY <3>1 DEF Replayed!metric_check
  <3>. HIDE DEF selected
  <3>. QED BY <1>3, <3>1, <3>2 DEF Tells, selected
 <2>3. failures <=> failed
  <3>1. (\E r \in selected : r.before \notin Replayed!Observed \/ r.after \notin Replayed!Observed)
          <=> \E c \in checks : c.before \notin Replayed!Observed \/ c.after \notin Replayed!Observed
   <4>. HIDE DEF selected, rows
   <4>. QED BY <1>3 DEF Tells, selected
  <3>2. \A s : \A e \in s.errors : (p.mode = "legacy_all" \/ e \notin excluded(s)) <=> (e = "general" \/ e \in p.metrics)
    OBVIOUS
  <3>. QED BY <3>1, <3>2
 <2>4. coverage = IF selected = {}
                  THEN IF p.mode = "selected" /\ p.metrics = {} THEN "not_applicable" ELSE "insufficient"
                  ELSE IF ~Replayed!same_scope(b, a) \/ \A r \in selected : r.delta = {} THEN "insufficient"
                  ELSE IF failures THEN "partial" ELSE "complete"
   BY Zenon DEF Replayed!evidence_coverage
 <2>. HIDE DEF selected, failures, failed, D, coverage
 <2>. QED BY <2>1, <2>2, <2>3, <2>4
<1>5. Replayed!metric_severity(b, a, p.metrics) =
          IF \E d \in E : d <= -CRITICAL_DELTA THEN Replayed!Critical
          ELSE IF \E d \in E : d <= -WARNING_DELTA THEN Replayed!Warning
          ELSE IF E # {} /\ ~failed THEN 0 ELSE Replayed!Info
  BY Zenon DEF Replayed!metric_severity
<1>6. Replayed!assess_impact(b, a, {}, {}, p).severity =
          IF \E d \in D : d <= -CRITICAL_DELTA THEN Replayed!Critical
          ELSE IF \E d \in D : d <= -WARNING_DELTA THEN Replayed!Warning
          ELSE IF D # {} /\ coverage = "complete" THEN 0 ELSE Replayed!Info
  BY DEF Replayed!assess_impact
<1>. HIDE DEF D, E, failed, coverage
<1>. QED BY <1>2, <1>4, <1>5, <1>6

Relevant(x) == plan.mode = "legacy_all" \/ x.type \in plan.incident_types
Concerns(f) == plan.mode = "legacy_all" \/ f.kind \in plan.finding_kinds
\* What two samples say of the plan's metrics is no worse than a band.
Within(after, band) ==
    \A d \in Replayed!Deltas(Replayed!evidence_rows(baseline, after, plan)) :
        (d <= -CRITICAL_DELTA => band = 3) /\ (d <= -WARNING_DELTA => band >= 2)
Bounds(band, harm) == band >= 2 /\ (harm = 3 => band = 3)

LEMMA AssessedBand ==
    ASSUME NEW after, NEW open, NEW found
    PROVE  LET said == Replayed!assess_impact(baseline, after, open, found, plan).severity
           IN  /\ said \in 0 .. 3 /\ Within(after, said)
               /\ \A x \in open : Relevant(x) => Bounds(said, x.severity)
               /\ \A f \in found : Concerns(f) => Bounds(said, f.severity)
<1>. DEFINE rows == Replayed!evidence_rows(baseline, after, plan)
            D == Replayed!Deltas(rows)
            coverage == Replayed!evidence_coverage(rows, baseline, after, plan)
            relevant == {i \in open : plan.mode = "legacy_all" \/ i.type \in plan.incident_types}
            findings == {f \in found : plan.mode = "legacy_all" \/ f.kind \in plan.finding_kinds}
            critical == \/ \E x \in relevant \union findings : x.severity = Replayed!Critical
                        \/ \E d \in D : d <= -CRITICAL_DELTA
            warning == relevant \union findings # {} \/ \E d \in D : d <= -WARNING_DELTA
            said == Replayed!assess_impact(baseline, after, open, found, plan).severity
<1>1. said = IF critical THEN 3 ELSE IF warning THEN 2 ELSE IF D # {} /\ coverage = "complete" THEN 0 ELSE 1
  BY DEF Replayed!assess_impact, Replayed!Critical, Replayed!Warning, Replayed!Info
<1>2. /\ \A x \in open : Relevant(x) => x \in relevant
      /\ \A f \in found : Concerns(f) => f \in findings
  BY DEF Relevant, Concerns
<1>. HIDE DEF D, coverage, relevant, findings, said
<1>3. said \in 0 .. 3
  BY <1>1
<1>4. Within(after, said)
 <2>1. \A d \in D : (d <= -CRITICAL_DELTA => said = 3) /\ (d <= -WARNING_DELTA => said >= 2)
   BY <1>1
 <2>. QED BY <2>1 DEF Within, D
<1>5. \A x \in relevant \union findings : Bounds(said, x.severity)
  BY <1>1 DEF Bounds, Replayed!Critical
<1>. QED BY <1>2, <1>3, <1>4, <1>5 DEF said

\* A band the replay reads off the metrics is one of the plan's.
LEMMA MetricWithin ==
    ASSUME baseline = {} \/ \E x : baseline = {x}, NEW after, after = {} \/ \E x : after = {x},
           NEW metrics, plan.mode = "legacy_all" \/ metrics \subseteq plan.metrics,
           NEW band \in 0 .. 3, Within(after, band)
    PROVE  LET said == Replayed!metric_severity(baseline, after, metrics)
           IN  said \in 0 .. 3 /\ (said >= 2 => band >= said)
<1>. DEFINE checks == {Replayed!metric_check(baseline, after, m) : m \in metrics}
            E == UNION {c.delta : c \in checks}
            said == Replayed!metric_severity(baseline, after, metrics)
<1>1. PICK rest \in BOOLEAN : said = IF \E d \in E : d <= -CRITICAL_DELTA THEN 3
                                     ELSE IF \E d \in E : d <= -WARNING_DELTA THEN 2
                                     ELSE IF rest THEN 0 ELSE 1
  BY DEF Replayed!metric_severity, Replayed!Critical, Replayed!Warning, Replayed!Info
<1>2. ASSUME NEW d \in E
      PROVE  d \in Replayed!Deltas(Replayed!evidence_rows(baseline, after, plan))
 <2>1. PICK m \in metrics : d \in Replayed!metric_check(baseline, after, m).delta
   OBVIOUS
 <2>2. Replayed!_state(baseline, m) = "measured" /\ Replayed!_state(after, m) = "measured"
   BY <2>1 DEF Replayed!metric_check
 <2>3. PICK x : baseline = {x}
   BY <2>2, NothingMeasured
 <2>4. m \in Replayed!_names(baseline)
   BY <2>2, <2>3, MeasuredHasValue
 <2>5. m \in Metrics(baseline, after, plan) /\ Chosen(plan, m)
   BY <2>4 DEF Metrics, Chosen
 <2>. QED BY <2>1, <2>5, DeltasTell
<1>. HIDE DEF E, said
<1>3. said \in 0 .. 3
  BY <1>1
<1>4. \A d \in E : (d <= -CRITICAL_DELTA => band = 3) /\ (d <= -WARNING_DELTA => band >= 2)
  BY <1>2 DEF Within
<1>5. said >= 2 => band >= said
  BY <1>1, <1>4
<1>. QED BY <1>3, <1>5 DEF said

IncidentRow == {[type |-> i.type, severity |-> i.severity, resolved |-> r] : i \in Incidents, r \in BOOLEAN}
ComparisonRow == [initial : SUBSET Findings, current : SUBSET Findings, followups : Int]

\* The verdict is that of the record as it stands; the worst verdict bounds whatever
\* the record ever showed.
ReplayInv ==
    /\ baseline = {} \/ \E x \in Samples : baseline = {x}
    /\ observations \in Seq(Samples) /\ incidents \in Seq(IncidentRow) /\ comparison \subseteq ComparisonRow
    /\ peak \in 0 .. 3
    /\ severity = Replayed!assess_impact(baseline, Replayed!Latest, Replayed!Open, Replayed!Current, plan).severity
    /\ \A i \in DOMAIN observations : Within({observations[i]}, peak)
    /\ \A i \in DOMAIN incidents : Relevant(incidents[i]) => Bounds(peak, incidents[i].severity)
    /\ \A c \in comparison : \A f \in c.initial \union c.current : Concerns(f) => Bounds(peak, f.severity)

LEMMA WorstOfThree ==
    ASSUME NEW a \in 0 .. 3, NEW b \in 0 .. 3, NEW c \in 0 .. 3
    PROVE  LET w == Replayed!_worst({a, b, c}) IN w \in 0 .. 3 /\ w >= a /\ w >= b /\ w >= c
<1>1. {a, b, c} \subseteq 0 .. 3
  OBVIOUS
<1>. QED BY <1>1, WorstOf

LEMMA WithinMore ==
    ASSUME NEW after, NEW band \in 0 .. 3, Within(after, band), NEW more \in 0 .. 3, more >= band
    PROVE  Within(after, more)
  BY DEF Within

LEMMA BoundsMore ==
    ASSUME NEW band \in 0 .. 3, NEW harm, Bounds(band, harm), NEW more \in 0 .. 3, more >= band
    PROVE  Bounds(more, harm)
  BY DEF Bounds

LEMMA ReplayInit == Replayed!Init => ReplayInv
<1>. SUFFICES ASSUME Replayed!Init PROVE ReplayInv
  OBVIOUS
<1>1. /\ baseline = {} \/ \E x \in Samples : baseline = {x}
      /\ observations = <<>> /\ incidents = <<>> /\ comparison = {}
      /\ peak = severity /\ severity = Replayed!assess_impact(baseline, {}, {}, {}, plan).severity
  BY DEF Replayed!Init
<1>2. Replayed!Latest = {} /\ Replayed!Open = {} /\ Replayed!Current = {}
  BY <1>1 DEF Replayed!Latest, Replayed!Open, Replayed!Unresolved, Replayed!Current
<1>3. severity \in 0 .. 3
  BY <1>1, AssessedBand
<1>. QED BY <1>1, <1>2, <1>3 DEF ReplayInv

LEMMA RecordKeeps ==
    ASSUME ReplayInv, Replayed!_record
    PROVE  ReplayInv'
<1>1. PICK s \in Samples, found \in SUBSET Findings :
          /\ Replayed!Followed(found) \/ UNCHANGED comparison
          /\ observations' = Append(observations, s)
          /\ Replayed!Assessed({s}, Replayed!Open, UNION {c.current : c \in comparison'})
  BY DEF Replayed!_record
<1>2. plan' = plan /\ baseline' = baseline /\ incidents' = incidents
  BY DEF Replayed!_record
<1>3. PICK cur : cur = UNION {c.current : c \in comparison'}
  OBVIOUS
<1>. DEFINE said == Replayed!assess_impact(baseline, {s}, Replayed!Open, cur, plan).severity
<1>4. severity' = said /\ peak' = Replayed!_worst({peak, severity, said})
  BY <1>1, <1>3, Zenon DEF Replayed!Assessed
<1>5. /\ said \in 0 .. 3 /\ Within({s}, said)
      /\ \A f \in cur : Concerns(f) => Bounds(said, f.severity)
  BY AssessedBand
<1>6. peak \in 0 .. 3 /\ severity \in 0 .. 3
  BY AssessedBand DEF ReplayInv
<1>. HIDE DEF said
<1>7. peak' \in 0 .. 3 /\ peak' >= peak /\ peak' >= said
  BY <1>4, <1>5, <1>6, WorstOfThree
<1>8. PICK w \in 0 .. 3 : w = peak' /\ w >= peak /\ w >= said
  BY <1>7
<1>9. PICK n \in Nat : DOMAIN observations = 1 .. n /\ n = Len(observations)
  BY DEF ReplayInv
<1>10. /\ observations' \in Seq(Samples) /\ DOMAIN observations' = 1 .. n + 1 /\ observations'[n + 1] = s
       /\ Len(observations') = n + 1 /\ \A i \in 1 .. n : observations'[i] = observations[i]
  BY <1>1, <1>9 DEF ReplayInv
<1>11. Replayed!Latest' = {s}
 <2>1. observations' # <<>>
   BY <1>10
 <2>. QED BY <1>10, <2>1 DEF Replayed!Latest
<1>12. Replayed!Open' = Replayed!Open
  BY <1>2 DEF Replayed!Open, Replayed!Unresolved
<1>13. Replayed!Current' = cur
  BY <1>3 DEF Replayed!Current
<1>14. severity' = Replayed!assess_impact(baseline, {s}, Replayed!Open, cur, plan).severity
  BY <1>4 DEF said
<1>15. severity' = Replayed!assess_impact(baseline', Replayed!Latest', Replayed!Open', Replayed!Current', plan').severity
  BY <1>2, <1>11, <1>12, <1>13, <1>14, Zenon
<1>16. \A i \in 1 .. n + 1 : Within({observations'[i]}, w)
 <2>1. Within({s}, w)
   BY <1>5, <1>8, WithinMore
 <2>2. ASSUME NEW i \in 1 .. n PROVE Within({observations[i]}, w)
  <3>1. Within({observations[i]}, peak)
    BY <1>9 DEF ReplayInv
  <3>. QED BY <1>6, <1>8, <3>1, WithinMore
 <2>3. \A i \in 1 .. n + 1 : i = n + 1 \/ i \in 1 .. n
   OBVIOUS
 <2>. QED BY <1>10, <2>1, <2>2, <2>3
<1>17. \A i \in DOMAIN incidents : Relevant(incidents[i]) => Bounds(w, incidents[i].severity)
 <2>1. \A i \in DOMAIN incidents : Relevant(incidents[i]) => Bounds(peak, incidents[i].severity)
   BY DEF ReplayInv
 <2>. QED BY <1>6, <1>8, <2>1, BoundsMore
<1>18. \A f \in cur : Concerns(f) => Bounds(w, f.severity)
  BY <1>5, <1>8, BoundsMore
<1>19. /\ comparison' \subseteq ComparisonRow
       /\ \A c \in comparison' : \A f \in c.initial \union c.current : Concerns(f) => Bounds(w, f.severity)
 <2>1. \A c \in comparison : \A f \in c.initial \union c.current : Concerns(f) => Bounds(w, f.severity)
  <3>1. \A c \in comparison : \A f \in c.initial \union c.current : Concerns(f) => Bounds(peak, f.severity)
    BY DEF ReplayInv
  <3>. QED BY <1>6, <1>8, <3>1, BoundsMore
 <2>2. comparison \subseteq ComparisonRow
   BY DEF ReplayInv
 <2>3. CASE UNCHANGED comparison
   BY <2>1, <2>2, <2>3
 <2>4. CASE Replayed!Followed(found) /\ comparison = {}
  <3>1. comparison' = {[initial |-> found, current |-> found, followups |-> 1]}
    BY <2>4 DEF Replayed!Followed
  <3>2. found \subseteq cur
    BY <1>3, <3>1
  <3>. QED BY <1>18, <3>1, <3>2 DEF ComparisonRow
 <2>5. CASE Replayed!Followed(found) /\ comparison # {}
  <3>1. comparison' = {[c EXCEPT !.current = found, !.followups = @ + 1] : c \in comparison}
    BY <2>5 DEF Replayed!Followed
  <3>2. ASSUME NEW d \in comparison'
        PROVE  d \in ComparisonRow /\ d.current = found /\ \E c \in comparison : d.initial = c.initial
   <4>1. PICK c \in comparison : d = [c EXCEPT !.current = found, !.followups = @ + 1]
     BY <3>1
   <4>2. c \in ComparisonRow
     BY <2>2
   <4>3. c.initial \in SUBSET Findings /\ c.followups + 1 \in Int
     BY <4>2 DEF ComparisonRow
   <4>4. d = [initial |-> c.initial, current |-> found, followups |-> c.followups + 1]
     BY <4>1, <4>2 DEF ComparisonRow
   <4>5. d \in ComparisonRow /\ d.current = found /\ d.initial = c.initial
    <5>1. d.initial = c.initial /\ d.current = found
      BY <4>4
    <5>2. found \in SUBSET Findings
      BY <1>1
    <5>. QED BY <4>3, <4>4, <5>1, <5>2 DEF ComparisonRow
   <4>. QED BY <4>5
  <3>3. \A d \in comparison' : d.current \subseteq cur
    BY <1>3
  <3>4. \A d \in comparison' : \A f \in d.initial : Concerns(f) => Bounds(w, f.severity)
    BY <2>1, <3>2
  <3>. QED BY <1>18, <3>2, <3>3, <3>4
 <2>. QED BY <1>1, <2>3, <2>4, <2>5
<1>20. \A i \in DOMAIN observations' : Within({observations[i]}, peak)'
  BY <1>2, <1>8, <1>10, <1>16 DEF Within
<1>21. \A i \in DOMAIN incidents' : (Relevant(incidents[i]) => Bounds(peak, incidents[i].severity))'
  BY <1>2, <1>8, <1>17 DEF Relevant, Bounds
<1>22. \A c \in comparison' : \A f \in c.initial \union c.current : (Concerns(f) => Bounds(peak, f.severity))'
  BY <1>2, <1>8, <1>19 DEF Concerns, Bounds
<1>23. /\ baseline' = {} \/ \E x \in Samples : baseline' = {x}
       /\ incidents' \in Seq(IncidentRow)
  BY <1>2 DEF ReplayInv
<1>. QED BY <1>7, <1>10, <1>15, <1>19, <1>20, <1>21, <1>22, <1>23 DEF ReplayInv

LEMMA WorstOfTwo ==
    ASSUME NEW a \in 0 .. 3, NEW b \in 0 .. 3
    PROVE  LET w == Replayed!_worst({a, b}) IN w \in 0 .. 3 /\ w >= a /\ w >= b
<1>1. {a, b} \subseteq 0 .. 3
  OBVIOUS
<1>. QED BY <1>1, WorstOf

\* What stays of the record when only an incident is told or closed.
LEMMA ReplaySame ==
    ASSUME ReplayInv, UNCHANGED <<plan, baseline, observations, comparison>>,
           NEW w \in 0 .. 3, w = peak', w >= peak,
           incidents' \in Seq(IncidentRow),
           \A i \in DOMAIN incidents' : (Relevant(incidents[i]) => Bounds(peak, incidents[i].severity))',
           severity' = Replayed!assess_impact(baseline, Replayed!Latest, Replayed!Open', Replayed!Current, plan).severity
    PROVE  ReplayInv'
<1>1. peak \in 0 .. 3
  BY DEF ReplayInv
<1>2. \A i \in DOMAIN observations' : Within({observations[i]}, peak)'
 <2>1. ASSUME NEW i \in DOMAIN observations PROVE Within({observations[i]}, w)
  <3>1. Within({observations[i]}, peak)
    BY DEF ReplayInv
  <3>. QED BY <1>1, <3>1, WithinMore
 <2>. QED BY <2>1 DEF Within
<1>3. \A c \in comparison' : \A f \in c.initial \union c.current : (Concerns(f) => Bounds(peak, f.severity))'
 <2>1. \A c \in comparison : \A f \in c.initial \union c.current : Concerns(f) => Bounds(peak, f.severity)
   BY DEF ReplayInv
 <2>2. \A c \in comparison : \A f \in c.initial \union c.current : Concerns(f) => Bounds(w, f.severity)
   BY <1>1, <2>1, BoundsMore
 <2>. QED BY <2>2 DEF Concerns, Bounds
<1>4. Replayed!Latest' = Replayed!Latest /\ Replayed!Current' = Replayed!Current
  BY DEF Replayed!Latest, Replayed!Current
<1>5. severity' = Replayed!assess_impact(baseline', Replayed!Latest', Replayed!Open', Replayed!Current', plan').severity
  BY <1>4, Zenon
<1>6. /\ baseline' = {} \/ \E x \in Samples : baseline' = {x}
      /\ observations' \in Seq(Samples) /\ comparison' \subseteq ComparisonRow /\ peak' \in 0 .. 3
  BY DEF ReplayInv
<1>. QED BY <1>2, <1>3, <1>5, <1>6 DEF ReplayInv

\* An incident that stands, as the verdict sees it.
Standing(row) == [type |-> row.type, severity |-> row.severity]
LEMMA OpenAre ==
    ASSUME NEW x
    PROVE  x \in Replayed!Open <=> \E i \in DOMAIN incidents : ~incidents[i].resolved /\ x = Standing(incidents[i])
  BY DEF Replayed!Open, Replayed!Unresolved, Standing

LEMMA IncidentKeeps ==
    ASSUME ReplayInv, Replayed!SamplesAssumption, Replayed!_record_incident
    PROVE  ReplayInv'
<1>1. PICK i \in Incidents, resolved \in BOOLEAN :
          LET open == IF resolved /\ i.type = "failed" THEN Replayed!Open ELSE Replayed!Open \union {i}
          IN  /\ incidents' = Append(incidents, [type |-> i.type, severity |-> i.severity,
                                                 resolved |-> resolved /\ i.type = "failed"])
              /\ severity' = Replayed!assess_impact(baseline, Replayed!Latest, open, Replayed!Current, plan).severity
              /\ peak' = Replayed!_worst({peak,
                     Replayed!assess_impact(baseline, Replayed!Latest, Replayed!Open \union {i},
                                            Replayed!Current, plan).severity})
  BY DEF Replayed!_record_incident
<1>2. UNCHANGED <<plan, baseline, observations, comparison>>
  BY DEF Replayed!_record_incident
<1>. DEFINE closed == resolved /\ i.type = "failed"
            row == [type |-> i.type, severity |-> i.severity, resolved |-> closed]
            said == Replayed!assess_impact(baseline, Replayed!Latest, Replayed!Open \union {i},
                                           Replayed!Current, plan).severity
<1>3. peak \in 0 .. 3 /\ said \in 0 .. 3
  BY AssessedBand DEF ReplayInv
<1>4. Relevant(i) => Bounds(said, i.severity)
  BY AssessedBand
<1>5. PICK w \in 0 .. 3 : w = peak' /\ w >= peak /\ w >= said
 <2>. HIDE DEF said
 <2>1. peak' = Replayed!_worst({peak, said})
   BY <1>1 DEF said
 <2>. QED BY <1>3, <2>1, WorstOfTwo
<1>6. PICK n \in Nat : DOMAIN incidents = 1 .. n /\ n = Len(incidents)
  BY DEF ReplayInv
<1>7. row \in IncidentRow /\ Standing(row) = i /\ row.type = i.type /\ row.severity = i.severity /\ row.resolved = closed
 <2>1. closed \in BOOLEAN
   OBVIOUS
 <2>2. i = [type |-> i.type, severity |-> i.severity]
   BY DEF Replayed!SamplesAssumption
 <2>. HIDE DEF closed
 <2>. QED BY <2>1, <2>2 DEF IncidentRow, Standing
<1>. HIDE DEF row, said
<1>8. /\ incidents' \in Seq(IncidentRow) /\ DOMAIN incidents' = 1 .. n + 1 /\ incidents'[n + 1] = row
      /\ \A k \in 1 .. n : incidents'[k] = incidents[k]
 <2>1. incidents' = Append(incidents, row)
   BY <1>1 DEF row
 <2>. QED BY <1>6, <1>7, <2>1 DEF ReplayInv
<1>9. \A k \in 1 .. n + 1 : k = n + 1 \/ k \in 1 .. n
  OBVIOUS
<1>10. Replayed!Open' = IF closed THEN Replayed!Open ELSE Replayed!Open \union {i}
 <2>1. \A x : x \in Replayed!Open' <=> \E k \in 1 .. n + 1 : ~incidents'[k].resolved /\ x = Standing(incidents'[k])
   BY <1>8 DEF Replayed!Open, Replayed!Unresolved, Standing
 <2>2. \A x : x \in Replayed!Open <=> \E k \in 1 .. n : ~incidents[k].resolved /\ x = Standing(incidents[k])
   BY <1>6, OpenAre
 <2>3. ASSUME NEW x PROVE x \in Replayed!Open' <=> x \in Replayed!Open \/ (~closed /\ x = i)
  <3>. HIDE DEF closed
  <3>1. (\E k \in 1 .. n + 1 : ~incidents'[k].resolved /\ x = Standing(incidents'[k]))
          <=> \/ \E k \in 1 .. n : ~incidents[k].resolved /\ x = Standing(incidents[k])
              \/ ~closed /\ x = i
   <4>1. n + 1 \in 1 .. n + 1 /\ \A k \in 1 .. n : k \in 1 .. n + 1
     OBVIOUS
   <4>. QED BY <1>7, <1>8, <1>9, <4>1, Zenon
  <3>. QED BY <2>1, <2>2, <3>1, Zenon
 <2>. HIDE DEF closed
 <2>. QED BY <2>3
<1>11. severity' = Replayed!assess_impact(baseline, Replayed!Latest, Replayed!Open', Replayed!Current, plan).severity
 <2>1. severity' = Replayed!assess_impact(baseline, Replayed!Latest,
                       IF closed THEN Replayed!Open ELSE Replayed!Open \union {i}, Replayed!Current, plan).severity
   BY <1>1, Zenon
 <2>. HIDE DEF closed
 <2>. QED BY <1>10, <2>1, Zenon
<1>12. \A k \in 1 .. n + 1 : Relevant(incidents'[k]) => Bounds(w, incidents'[k].severity)
 <2>1. Relevant(row) => Bounds(w, row.severity)
  <3>1. Relevant(row) => Bounds(said, row.severity)
    BY <1>4, <1>7 DEF Relevant
  <3>. QED BY <1>3, <1>5, <3>1, BoundsMore
 <2>2. ASSUME NEW k \in 1 .. n, Relevant(incidents[k]) PROVE Bounds(w, incidents[k].severity)
  <3>1. Bounds(peak, incidents[k].severity)
    BY <1>6, <2>2 DEF ReplayInv
  <3>. QED BY <1>3, <1>5, <3>1, BoundsMore
 <2>. QED BY <1>8, <1>9, <2>1, <2>2
<1>13. \A k \in DOMAIN incidents' : (Relevant(incidents[k]) => Bounds(peak, incidents[k].severity))'
  BY <1>2, <1>5, <1>8, <1>12 DEF Relevant, Bounds
<1>. QED BY <1>2, <1>5, <1>8, <1>11, <1>13, ReplaySame

LEMMA ResolveKeeps ==
    ASSUME ReplayInv, Replayed!_resolve_incidents
    PROVE  ReplayInv'
<1>1. PICK closed \in SUBSET {i \in DOMAIN incidents : ~incidents[i].resolved} :
          /\ incidents' = [i \in DOMAIN incidents |-> [incidents[i] EXCEPT !.resolved = @ \/ i \in closed]]
          /\ severity' = Replayed!assess_impact(baseline, Replayed!Latest, Replayed!Unresolved(closed),
                                                Replayed!Current, plan).severity
  BY DEF Replayed!_resolve_incidents
<1>2. UNCHANGED <<plan, baseline, observations, comparison>> /\ peak' = peak
  BY DEF Replayed!_resolve_incidents
<1>3. PICK w \in 0 .. 3 : w = peak' /\ w >= peak
  BY <1>2 DEF ReplayInv
<1>4. DOMAIN incidents' = DOMAIN incidents
  BY <1>1
<1>5. ASSUME NEW i \in DOMAIN incidents
      PROVE  /\ incidents'[i] \in IncidentRow /\ Standing(incidents'[i]) = Standing(incidents[i])
             /\ incidents'[i].type = incidents[i].type /\ incidents'[i].severity = incidents[i].severity
             /\ incidents'[i].resolved <=> incidents[i].resolved \/ i \in closed
 <2>1. incidents'[i] = [incidents[i] EXCEPT !.resolved = @ \/ i \in closed]
   BY <1>1
 <2>2. incidents[i] \in IncidentRow
   BY DEF ReplayInv
 <2>3. PICK j \in Incidents, r \in BOOLEAN :
           incidents[i] = [type |-> j.type, severity |-> j.severity, resolved |-> r]
   BY <2>2 DEF IncidentRow
 <2>4. PICK q \in BOOLEAN : q <=> r \/ i \in closed
   OBVIOUS
 <2>5. incidents'[i] = [type |-> j.type, severity |-> j.severity, resolved |-> q]
   BY <2>1, <2>3, <2>4
 <2>6. incidents'[i] \in IncidentRow
   BY <2>5 DEF IncidentRow
 <2>7. /\ incidents'[i].type = incidents[i].type /\ incidents'[i].severity = incidents[i].severity
       /\ incidents'[i].resolved = q /\ incidents[i].resolved = r
   BY <2>3, <2>5
 <2>. QED BY <2>4, <2>6, <2>7 DEF Standing
<1>6. incidents' \in Seq(IncidentRow)
 <2>1. PICK n \in Nat : DOMAIN incidents = 1 .. n
   BY DEF ReplayInv
 <2>2. incidents' \in [1 .. n -> IncidentRow]
   BY <1>1, <1>5, <2>1
 <2>. QED BY <2>2, SeqDef
<1>7. Replayed!Open' = Replayed!Unresolved(closed)
 <2>1. ASSUME NEW x PROVE x \in Replayed!Open' <=> \E i \in DOMAIN incidents' : ~incidents'[i].resolved /\ x = Standing(incidents'[i])
   BY DEF Replayed!Open, Replayed!Unresolved, Standing
 <2>2. ASSUME NEW x PROVE x \in Replayed!Unresolved(closed)
                             <=> \E i \in DOMAIN incidents : i \notin closed /\ ~incidents[i].resolved /\ x = Standing(incidents[i])
   BY DEF Replayed!Unresolved, Standing
 <2>3. ASSUME NEW x
       PROVE  (\E i \in DOMAIN incidents' : ~incidents'[i].resolved /\ x = Standing(incidents'[i]))
                 <=> \E i \in DOMAIN incidents : i \notin closed /\ ~incidents[i].resolved /\ x = Standing(incidents[i])
   BY <1>4, <1>5, Zenon
 <2>4. ASSUME NEW x PROVE x \in Replayed!Open' <=> x \in Replayed!Unresolved(closed)
   BY <2>1, <2>2, <2>3, Zenon
 <2>. QED BY <2>4
<1>8. severity' = Replayed!assess_impact(baseline, Replayed!Latest, Replayed!Open', Replayed!Current, plan).severity
  BY <1>1, <1>7, Zenon
<1>9. \A i \in DOMAIN incidents' : (Relevant(incidents[i]) => Bounds(peak, incidents[i].severity))'
  BY <1>2, <1>4, <1>5 DEF ReplayInv, Relevant, Bounds
<1>. QED BY <1>2, <1>3, <1>6, <1>8, <1>9, ReplaySame

LEMMA ReplayStep ==
    ASSUME Replayed!SamplesAssumption
    PROVE  ReplayInv /\ [Replayed!Next]_(Replayed!vars) => ReplayInv'
<1>. SUFFICES ASSUME ReplayInv, [Replayed!Next]_(Replayed!vars) PROVE ReplayInv'
  OBVIOUS
<1>1. CASE UNCHANGED Replayed!vars
  BY <1>1 DEF ReplayInv, Replayed!vars, Replayed!Latest, Replayed!Open, Replayed!Unresolved, Replayed!Current,
              Within, Relevant, Concerns, Bounds
<1>2. CASE Replayed!Next
  BY <1>2, RecordKeeps, IncidentKeeps, ResolveKeeps DEF Replayed!Next
<1>. QED BY <1>1, <1>2

\* What a component of the replay says, the session said.
Recorded(c) ==
    /\ c.peak \in 0 .. 3 /\ c.current \in 0 .. 3 /\ c.current <= c.peak
    /\ c.peak >= 2 => peak >= c.peak
    /\ c.current >= 2 => severity >= c.current

LEMMA VerdictBands ==
    ASSUME ReplayInv
    PROVE  /\ severity \in 0 .. 3 /\ peak \in 0 .. 3 /\ Within(Replayed!Latest, severity)
           /\ \A x \in Replayed!Open : Relevant(x) => Bounds(severity, x.severity)
           /\ \A f \in Replayed!Current : Concerns(f) => Bounds(severity, f.severity)
  BY AssessedBand DEF ReplayInv

LEMMA MetricRecorded ==
    ASSUME ReplayInv, NEW s, Replayed!Covers(plan, s), NEW c \in Replayed!_metric_component(s)
    PROVE  Recorded(c)
<1>. DEFINE bands == [i \in DOMAIN observations |-> Replayed!metric_severity(baseline, {observations[i]}, s.metrics)]
<1>1. observations # <<>> /\ c = [peak |-> Replayed!_worst(Replayed!Range(bands)), current |-> bands[Len(bands)]]
  BY Zenon DEF Replayed!_metric_component
<1>2. PICK n \in Nat \ {0} : DOMAIN observations = 1 .. n /\ n = Len(observations)
  BY <1>1 DEF ReplayInv
<1>3. plan.mode = "legacy_all" \/ s.metrics \subseteq plan.metrics
  BY DEF Replayed!Covers
<1>4. baseline = {} \/ \E x : baseline = {x}
  BY DEF ReplayInv
<1>5. ASSUME NEW i \in 1 .. n, NEW band \in 0 .. 3, Within({observations[i]}, band)
      PROVE  bands[i] \in 0 .. 3 /\ (bands[i] >= 2 => band >= bands[i])
 <2>1. bands[i] = Replayed!metric_severity(baseline, {observations[i]}, s.metrics)
   BY <1>2
 <2>. HIDE DEF bands
 <2>. QED BY <1>3, <1>4, <1>5, <2>1, MetricWithin, SMTT(30)
<1>6. \A i \in 1 .. n : bands[i] \in 0 .. 3 /\ (bands[i] >= 2 => peak >= bands[i])
 <2>1. peak \in 0 .. 3 /\ \A i \in 1 .. n : Within({observations[i]}, peak)
   BY <1>2 DEF ReplayInv
 <2>. HIDE DEF bands
 <2>. SUFFICES ASSUME NEW i \in 1 .. n PROVE bands[i] \in 0 .. 3 /\ (bands[i] >= 2 => peak >= bands[i])
   OBVIOUS
 <2>2. Within({observations[i]}, peak)
   BY <2>1
 <2>. QED BY <1>5, <2>1, <2>2
<1>7. bands[n] >= 2 => severity >= bands[n]
 <2>1. severity \in 0 .. 3 /\ Within({observations[n]}, severity)
   BY <1>1, <1>2, VerdictBands DEF Replayed!Latest
 <2>. HIDE DEF bands
 <2>2. n \in 1 .. n
   BY <1>2
 <2>. QED BY <1>5, <2>1, <2>2
<1>8. DOMAIN bands = 1 .. n /\ Len(bands) = n
 <2>1. bands \in [1 .. n -> 0 .. 3]
  <3>1. DOMAIN bands = 1 .. n
    BY <1>2
  <3>2. bands = [i \in 1 .. n |-> bands[i]]
    BY <1>2
  <3>. HIDE DEF bands
  <3>. QED BY <1>6, <3>2
 <2>. HIDE DEF bands
 <2>2. bands \in Seq(0 .. 3)
   BY <1>2, <2>1, SeqDef
 <2>. QED BY <1>2, <2>1, <2>2
<1>. HIDE DEF bands
<1>9. Replayed!Range(bands) \subseteq 0 .. 3 /\ bands[n] \in Replayed!Range(bands)
      /\ \A b \in Replayed!Range(bands) : b >= 2 => peak >= b
  BY <1>2, <1>6, <1>8 DEF Replayed!Range
<1>10. /\ Replayed!_worst(Replayed!Range(bands)) \in 0 .. 3 /\ bands[n] <= Replayed!_worst(Replayed!Range(bands))
       /\ Replayed!_worst(Replayed!Range(bands)) >= 2 => peak >= Replayed!_worst(Replayed!Range(bands))
  BY <1>9, WorstOf
<1>. QED BY <1>1, <1>2, <1>6, <1>7, <1>8, <1>10 DEF Recorded

\* The worst of some bands is within a verdict that bounds each of them.
LEMMA WorstWithin ==
    ASSUME NEW S, S \subseteq 0 .. 3, NEW band \in 0 .. 3, \A k \in S : Bounds(band, k)
    PROVE  Replayed!_worst(S) \in 0 .. 3 /\ (Replayed!_worst(S) >= 2 => band >= Replayed!_worst(S))
<1>1. Replayed!_worst(S) \in 0 .. 3 /\ (Replayed!_worst(S) = 0 \/ Replayed!_worst(S) \in S)
  BY WorstOf
<1>2. ASSUME NEW k \in S PROVE k >= 2 => band >= k
  BY DEF Bounds
<1>. QED BY <1>1, <1>2

LEMMA WorstOfLess ==
    ASSUME NEW S, NEW T, S \subseteq 0 .. 3, T \subseteq S
    PROVE  Replayed!_worst(T) <= Replayed!_worst(S)
<1>1. /\ Replayed!_worst(S) \in 0 .. 3 /\ \A b \in S : b <= Replayed!_worst(S)
      /\ Replayed!_worst(T) = 0 \/ Replayed!_worst(T) \in T
  BY WorstOf
<1>2. CASE Replayed!_worst(T) = 0
  BY <1>1, <1>2
<1>3. CASE Replayed!_worst(T) \in T
 <2>1. Replayed!_worst(T) \in S
   BY <1>3
 <2>. QED BY <1>1, <2>1
<1>. QED BY <1>1, <1>2, <1>3

LEMMA IncidentRecorded ==
    ASSUME ReplayInv, Replayed!SamplesAssumption, NEW s, Replayed!Covers(plan, s), NEW c \in Replayed!_incident_component(s)
    PROVE  Recorded(c)
<1>. DEFINE relevant == {i \in DOMAIN incidents : incidents[i].type \in s.incident_types}
            all == {incidents[i].severity : i \in relevant}
            left == {incidents[i].severity : i \in {j \in relevant : ~incidents[j].resolved}}
<1>1. c = [peak |-> Replayed!_worst(all), current |-> Replayed!_worst(left)]
  BY DEF Replayed!_incident_component
<1>2. ASSUME NEW i \in relevant
      PROVE  Relevant(incidents[i]) /\ incidents[i].severity \in 0 .. 3 /\ Bounds(peak, incidents[i].severity)
 <2>1. incidents[i] \in IncidentRow /\ Relevant(incidents[i])
   BY DEF ReplayInv, Relevant, Replayed!Covers
 <2>2. PICK j \in Incidents, r \in BOOLEAN :
           incidents[i] = [type |-> j.type, severity |-> j.severity, resolved |-> r]
   BY <2>1 DEF IncidentRow
 <2>3. incidents[i].severity \in 0 .. 3
   BY <2>2 DEF Replayed!SamplesAssumption
 <2>. QED BY <2>1, <2>3 DEF ReplayInv
<1>3. ASSUME NEW i \in relevant, ~incidents[i].resolved
      PROVE  Bounds(severity, incidents[i].severity)
 <2>1. Standing(incidents[i]) \in Replayed!Open
   BY <1>3, OpenAre
 <2>2. Relevant(Standing(incidents[i])) /\ Standing(incidents[i]).severity = incidents[i].severity
   BY <1>2 DEF Relevant, Standing
 <2>3. Bounds(severity, Standing(incidents[i]).severity)
   BY <2>1, <2>2, VerdictBands
 <2>. QED BY <2>2, <2>3
<1>4. all \subseteq 0 .. 3 /\ left \subseteq all /\ \A k \in all : Bounds(peak, k)
 <2>. HIDE DEF relevant
 <2>. QED BY <1>2
<1>5. \A k \in left : Bounds(severity, k)
 <2>. HIDE DEF relevant
 <2>. QED BY <1>3
<1>. HIDE DEF all, left
<1>6. severity \in 0 .. 3 /\ peak \in 0 .. 3 /\ left \subseteq 0 .. 3
  BY <1>4, VerdictBands
<1>7. /\ Replayed!_worst(all) \in 0 .. 3 /\ (Replayed!_worst(all) >= 2 => peak >= Replayed!_worst(all))
      /\ Replayed!_worst(left) \in 0 .. 3 /\ (Replayed!_worst(left) >= 2 => severity >= Replayed!_worst(left))
      /\ Replayed!_worst(left) <= Replayed!_worst(all)
  BY <1>4, <1>5, <1>6, WorstWithin, WorstOfLess
<1>. QED BY <1>1, <1>7 DEF Recorded

LEMMA DeviceRecorded ==
    ASSUME ReplayInv, Replayed!SamplesAssumption, NEW s, Replayed!Covers(plan, s), NEW d \in Replayed!_device_state_component(s)
    PROVE  Recorded(d)
<1>1. PICK c \in comparison :
          d = [peak |-> Replayed!_worst({f.severity : f \in {g \in c.initial \union c.current : g.kind \in s.finding_kinds}}),
               current |-> Replayed!_worst({f.severity : f \in {g \in c.current : g.kind \in s.finding_kinds}})]
  BY DEF Replayed!_device_state_component
<1>. DEFINE all == {f.severity : f \in {g \in c.initial \union c.current : g.kind \in s.finding_kinds}}
            left == {f.severity : f \in {g \in c.current : g.kind \in s.finding_kinds}}
<1>2. c.initial \subseteq Findings /\ c.current \subseteq Findings
  BY DEF ReplayInv, ComparisonRow
<1>3. ASSUME NEW f \in c.initial \union c.current, f.kind \in s.finding_kinds
      PROVE  f.severity \in 0 .. 3 /\ Concerns(f) /\ Bounds(peak, f.severity)
 <2>1. f.severity \in 0 .. 3 /\ Concerns(f)
   BY <1>2, <1>3 DEF Replayed!SamplesAssumption, Concerns, Replayed!Covers
 <2>. QED BY <2>1 DEF ReplayInv
<1>4. ASSUME NEW f \in c.current, f.kind \in s.finding_kinds
      PROVE  Bounds(severity, f.severity)
 <2>1. f \in Replayed!Current /\ Concerns(f)
   BY <1>3, <1>4 DEF Replayed!Current
 <2>. QED BY <2>1, VerdictBands
<1>5. all \subseteq 0 .. 3 /\ left \subseteq all /\ \A k \in all : Bounds(peak, k)
  BY <1>3
<1>6. \A k \in left : Bounds(severity, k)
  BY <1>4
<1>7. d = [peak |-> Replayed!_worst(all), current |-> Replayed!_worst(left)]
  BY <1>1
<1>. HIDE DEF all, left
<1>8. severity \in 0 .. 3 /\ peak \in 0 .. 3 /\ left \subseteq 0 .. 3
  BY <1>5, VerdictBands
<1>9. /\ Replayed!_worst(all) \in 0 .. 3 /\ (Replayed!_worst(all) >= 2 => peak >= Replayed!_worst(all))
      /\ Replayed!_worst(left) \in 0 .. 3 /\ (Replayed!_worst(left) >= 2 => severity >= Replayed!_worst(left))
      /\ Replayed!_worst(left) <= Replayed!_worst(all)
  BY <1>5, <1>6, <1>8, WorstWithin, WorstOfLess
<1>. QED BY <1>7, <1>9 DEF Recorded

LEMMA ReplayRecorded ==
    ASSUME ReplayInv, Replayed!SamplesAssumption, NEW s, Replayed!Covers(plan, s), NEW c \in Replayed!Replay(s)
    PROVE  Recorded(c)
  BY MetricRecorded, IncidentRecorded, DeviceRecorded DEF Replayed!Replay

LEMMA ReplayBounded ==
    ASSUME ReplayInv, Replayed!SamplesAssumption, NEW s, Replayed!Covers(plan, s)
    PROVE  /\ Replayed!replay_peak(s) >= 2 => peak >= Replayed!replay_peak(s)
           /\ Replayed!replay_current(s) >= 2 => severity >= Replayed!replay_current(s)
           /\ Replayed!replay_current(s) <= Replayed!replay_peak(s)
<1>. DEFINE R == Replayed!Replay(s)
            peaks == {c.peak : c \in R}
            currents == {c.current : c \in R}
            highest == Replayed!_worst(peaks)
            present == Replayed!_worst(currents)
<1>1. \A c \in R : Recorded(c)
  BY ReplayRecorded
<1>2. Replayed!replay_peak(s) = highest /\ Replayed!replay_current(s) = present
  BY Zenon DEF Replayed!replay_peak, Replayed!replay_current
<1>. HIDE DEF R
<1>3. peaks \subseteq 0 .. 3 /\ currents \subseteq 0 .. 3
  BY <1>1 DEF Recorded
<1>4. /\ \A k \in peaks : k >= 2 => peak >= k
      /\ \A k \in currents : (k >= 2 => severity >= k) /\ \E j \in peaks : k <= j
  BY <1>1 DEF Recorded
<1>. HIDE DEF peaks, currents
<1>5. /\ highest \in 0 .. 3
      /\ highest = 0 \/ highest \in peaks
      /\ \A k \in peaks : k <= highest
  BY <1>3, WorstOf
<1>6. /\ present \in 0 .. 3
      /\ present = 0 \/ present \in currents
  BY <1>3, WorstOf
<1>. HIDE DEF highest, present
<1>7. highest >= 2 => peak >= highest
  BY <1>4, <1>5
<1>8. present >= 2 => severity >= present
  BY <1>4, <1>6
<1>9. present <= highest
 <2>1. CASE present = 0
   BY <1>5, <2>1
 <2>2. CASE present \in currents
  <3>1. PICK j \in peaks : present <= j
    BY <1>4, <2>2
  <3>. QED BY <1>3, <1>5, <1>6, <3>1
 <2>. QED BY <1>6, <2>1, <2>2
<1>. QED BY <1>2, <1>7, <1>8, <1>9

\* What two samples differ by is a number.
LEMMA DropsAreNumbers ==
    ASSUME Replayed!SamplesAssumption, NEW b, NEW a, b = {} \/ \E x \in Samples : b = {x}, a = {} \/ \E x \in Samples : a = {x},
           NEW p, NEW d \in Replayed!Deltas(Replayed!evidence_rows(b, a, p))
    PROVE  d \in Int
<1>1. PICK m : d \in Replayed!metric_check(b, a, m).delta
  BY DeltasTell
<1>2. Replayed!_state(b, m) = "measured" /\ Replayed!_state(a, m) = "measured"
  BY <1>1 DEF Replayed!metric_check
<1>3. PICK x \in Samples : b = {x}
  BY <1>2, NothingMeasured
<1>4. PICK y \in Samples : a = {y}
  BY <1>2, NothingMeasured
<1>5. m \in DOMAIN x.values /\ m \in DOMAIN y.values
  BY <1>2, <1>3, <1>4, MeasuredHasValue
<1>6. x.values[m] \in Int /\ y.values[m] \in Int
  BY <1>5 DEF Replayed!SamplesAssumption
<1>7. d = y.values[m] - x.values[m]
  BY <1>1, <1>3, <1>4 DEF Replayed!metric_check
<1>. QED BY <1>6, <1>7

LEMMA ZeroIsRead ==
    ASSUME Replayed!SamplesAssumption, ReplayInv
    PROVE  Replayed!ZeroRaisesNoAlarm
<1>. DEFINE after == Replayed!Latest
            evidence == Replayed!Open \union Replayed!Current
            p == Replayed!legacy_all
            rows == Replayed!evidence_rows(baseline, after, p)
            coverage == Replayed!evidence_coverage(rows, baseline, after, p)
            healthy == coverage = "complete" /\ \A r \in rows, d \in Replayed!Deltas(rows) : d > -WARNING_DELTA
            first == IF stored = 0 /\ ~healthy THEN Replayed!Info ELSE stored
            a == [severity |-> first, coverage |-> coverage, rows |-> rows, plan |-> p, evidence |-> evidence]
            zero == Replayed!has_unverified_zero(baseline) \/ Replayed!has_unverified_zero(after)
            D == Replayed!Deltas(rows)
            again == IF evidence # {} THEN first
                     ELSE IF \E d \in D : d <= -CRITICAL_DELTA THEN Replayed!Critical
                     ELSE IF \E d \in D : d <= -WARNING_DELTA THEN Replayed!Warning
                     ELSE IF coverage = "complete" THEN 0 ELSE Replayed!Info
            read == Replayed!legacy_assessment(baseline, after, stored, evidence)
<1>1. read = Replayed!validate_zero_evidence(a, baseline, after)
  BY Zenon DEF Replayed!legacy_assessment
<1>2. \A d \in D : d \in Int
 <2>1. baseline = {} \/ \E x \in Samples : baseline = {x}
   BY DEF ReplayInv
 <2>2. after = {} \/ \E x \in Samples : after = {x}
  <3>1. CASE observations = <<>>
    BY <3>1 DEF Replayed!Latest
  <3>2. CASE observations # <<>>
   <4>1. observations \in Seq(Samples)
     BY DEF ReplayInv
   <4>2. observations[Len(observations)] \in Samples
     BY <3>2, <4>1
   <4>. QED BY <3>2, <4>2 DEF Replayed!Latest
  <3>. QED BY <3>1, <3>2
 <2>. HIDE DEF after, p
 <2>. QED BY <2>1, <2>2, DropsAreNumbers
<1>. HIDE DEF D
<1>3. read.coverage = coverage /\ read.rows = rows /\ read.severity = IF zero THEN again ELSE first
 <2>. DEFINE repaired == [a EXCEPT !.rows = rows, !.coverage = coverage, !.severity = again]
 <2>1. /\ a.plan = p /\ a.evidence = evidence /\ a.severity = first /\ a.rows = rows /\ a.coverage = coverage
       /\ DOMAIN a = {"severity", "coverage", "rows", "plan", "evidence"}
  <3>. HIDE DEF p, evidence, first, rows, coverage
  <3>. QED OBVIOUS
 <2>. HIDE DEF a
 <2>2. zero => read = repaired
   BY <1>1, <2>1 DEF Replayed!validate_zero_evidence, D
 <2>3. ~zero => read = a
   BY <1>1 DEF Replayed!validate_zero_evidence
 <2>4. repaired.rows = rows /\ repaired.coverage = coverage /\ repaired.severity = again
  <3>. HIDE DEF p, evidence, first, rows, coverage, again
  <3>. QED BY <2>1
 <2>. HIDE DEF repaired, rows, coverage, again, first, zero, read
 <2>. QED BY <2>1, <2>2, <2>3, <2>4
<1>4. first = 0 => coverage = "complete"
 <2>. HIDE DEF coverage
 <2>. QED BY DEF Replayed!Info
<1>5. again = 0 => coverage = "complete"
 <2>. HIDE DEF coverage, evidence, first
 <2>. QED BY <1>4 DEF Replayed!Info, Replayed!Warning, Replayed!Critical
<1>6. again >= 2 /\ evidence = {}
      => \E d \in D : d <= -WARNING_DELTA
 <2>. HIDE DEF coverage, evidence, first
 <2>. QED BY <1>2 DEF Replayed!Info, Replayed!SamplesAssumption
<1>7. /\ read.severity = 0 => read.coverage = "complete"
      /\ read.severity >= Replayed!Warning /\ evidence = {} /\ zero
         => \E d \in Replayed!Deltas(read.rows) : d <= -WARNING_DELTA
 <2>. HIDE DEF read, rows, coverage, zero, evidence, again, first
 <2>. QED BY <1>3, <1>4, <1>5, <1>6 DEF D, Replayed!Warning
<1>. HIDE DEF zero
<1>. QED BY <1>7, Zenon DEF Replayed!ZeroRaisesNoAlarm, zero

\* The same record, rated by monitoring for the selection's own metrics.
LEMMA ReplayAgrees ==
    ASSUME Replayed!SamplesAssumption
    PROVE  Replayed!Parity
<1>. SUFFICES ASSUME NEW s \in Selections, s.metrics # {}
              PROVE  Replayed!metric_severity(baseline, Replayed!Latest, s.metrics)
                         = Replayed!assess_impact(baseline, Replayed!Latest, {}, {},
                                                  [Replayed!Selected(s) EXCEPT !.incident_types = {}]).severity
  BY Zenon DEF Replayed!Parity
<1>. DEFINE p == [Replayed!Selected(s) EXCEPT !.incident_types = {}]
<1>1. {"mode", "metrics", "incident_types"} \subseteq DOMAIN s
  BY DEF Replayed!SamplesAssumption
<1>2. p.mode = "selected" /\ p.metrics = s.metrics
  BY <1>1 DEF Replayed!Selected
<1>. HIDE DEF p
<1>3. Replayed!metric_severity(baseline, Replayed!Latest, p.metrics)
          = Replayed!assess_impact(baseline, Replayed!Latest, {}, {}, p).severity
  BY <1>2, RatedTheSame
<1>. QED BY <1>2, <1>3 DEF p

\* guardian/monitoring.py _metric_severity and impact_analysis.py assess_impact: the
\* Guardian rates the metrics it selected as monitoring would have rated them,
\* whatever is missing or failed in either sample.
THEOREM Parity ==
    ASSUME Replayed!SamplesAssumption
    PROVE  Replayed!Spec => []Replayed!Parity
<1>1. Replayed!Parity
  BY ReplayAgrees
<1>2. ReplayInv => Replayed!Parity
  BY <1>1
<1>. QED BY <1>2, ReplayInit, ReplayStep, PTL DEF Replayed!Spec

\* guardian/monitoring.py replay: of a session whose own plan covers the selection,
\* the replay finds no harm monitoring never recorded and none that is over.
THEOREM ReplayIsRecorded ==
    ASSUME Replayed!SamplesAssumption
    PROVE  Replayed!Spec => []Replayed!ReplayIsRecorded
<1>1. ReplayInv => Replayed!ReplayIsRecorded
  BY ReplayBounded DEF Replayed!ReplayIsRecorded, Replayed!Warning
<1>. QED BY <1>1, ReplayInit, ReplayStep, PTL DEF Replayed!Spec

\* impact_analysis.py validate_zero_evidence: a document of before the verdicts were
\* stored reads as an alarm only on incidents, findings or traffic that was measured,
\* and as healthy only on a complete comparison.
THEOREM ZeroRaisesNoAlarm ==
    ASSUME Replayed!SamplesAssumption
    PROVE  Replayed!Spec => []Replayed!ZeroRaisesNoAlarm
<1>1. ReplayInv => Replayed!ZeroRaisesNoAlarm
  BY ZeroIsRead
<1>. QED BY <1>1, ReplayInit, ReplayStep, PTL DEF Replayed!Spec

\* The verdict of an attempt (GuardianVerdict).
CONSTANTS Audits, Outcomes, Sessions, Judged, Agents, Failures, Place, Bytes, Digest, Budget
VARIABLES step, audit, plans, ledger, paired, replayed, failed, rules, agents, verdict

Judging == INSTANCE GuardianVerdict WITH agent <- agents

\* contracts.py _require_ordered and bands_within_peak: bands in order, and no device
\* above its conclusion's peak.
LEMMA WorstBand ==
    ASSUME NEW S, S \subseteq 0 .. 3
    PROVE  /\ Judging!_worst(S) \in 0 .. 3 /\ \A b \in S : b <= Judging!_worst(S)
           /\ Judging!_worst(S) = 0 \/ Judging!_worst(S) \in S
<1>. DEFINE T == S \union {0}
<1>1. T \subseteq 0 .. 3 /\ T # {} /\ 3 \in Nat
  OBVIOUS
<1>. HIDE DEF T
<1>2. PICK m \in T : \A k \in T : m >= k
  BY <1>1, GreatestOf
<1>3. Judging!Max(T) \in T /\ \A k \in T : Judging!Max(T) >= k
  BY <1>2 DEF Judging!Max
<1>4. \A b \in S : b <= Judging!Max(T)
  BY <1>1, <1>3 DEF T
<1>5. Judging!Max(T) = 0 \/ Judging!Max(T) \in S
  BY <1>3 DEF T
<1>. QED BY <1>1, <1>3, <1>4, <1>5 DEF Judging!_worst, T

\* What is bounded one by one is bounded at its worst.
LEMMA WorstOrdered ==
    ASSUME NEW S, S \subseteq 0 .. 3, NEW T, T \subseteq 0 .. 3, \A a \in S : \E b \in T : a <= b
    PROVE  Judging!_worst(S) <= Judging!_worst(T)
<1>1. Judging!_worst(S) \in 0 .. 3 /\ Judging!_worst(T) \in 0 .. 3 /\ \A b \in T : b <= Judging!_worst(T)
  BY WorstBand
<1>2. Judging!_worst(S) = 0 \/ Judging!_worst(S) \in S
  BY WorstBand
<1>3. CASE Judging!_worst(S) \in S
 <2>1. PICK b \in T : Judging!_worst(S) <= b
   BY <1>3
 <2>. QED BY <1>1, <2>1
<1>. QED BY <1>1, <1>2, <1>3

LEMMA AtMost ==
    ASSUME NEW a \in 0 .. 3, NEW b \in 0 .. 3
    PROVE  LET m == Judging!_at_most(a, b) IN m \in 0 .. 3 /\ m <= a /\ m <= b /\ (m = a \/ m = b)
<1>. DEFINE m == Judging!Min({a, b})
<1>1. \E x \in {a, b} : \A y \in {a, b} : x <= y
 <2>1. CASE a <= b
   BY <2>1
 <2>2. CASE b <= a
   BY <2>2
 <2>. QED BY <2>1, <2>2
<1>2. m \in {a, b} /\ \A y \in {a, b} : m <= y
  BY <1>1 DEF Judging!Min
<1>. HIDE DEF m
<1>3. m \in 0 .. 3 /\ m <= a /\ m <= b /\ (m = a \/ m = b)
  BY <1>2
<1>. QED BY <1>3 DEF Judging!_at_most, m

LEMMA FoldedBands ==
    ASSUME NEW bands, \A t \in DOMAIN bands : Judging!InOrder(bands[t]), NEW said
    PROVE  LET f == Judging!Folded(bands, said)
           IN  /\ Judging!InOrder(f) /\ f.devices = said
               /\ \A t \in DOMAIN bands : bands[t].peak <= f.peak /\ bands[t].current <= f.current
<1>. DEFINE peaks == {b.peak : b \in Judging!Range(bands)}
            currents == {b.current : b \in Judging!Range(bands)}
<1>1. Judging!Folded(bands, said) = [peak |-> Judging!_worst(peaks), current |-> Judging!_worst(currents), devices |-> said]
  BY Zenon DEF Judging!Folded
<1>2. /\ peaks \subseteq 0 .. 3 /\ currents \subseteq 0 .. 3
      /\ \A a \in currents : \E b \in peaks : a <= b
      /\ \A t \in DOMAIN bands : bands[t].peak \in peaks /\ bands[t].current \in currents
  BY DEF Judging!Range, Judging!InOrder
<1>. HIDE DEF peaks, currents
<1>3. /\ Judging!_worst(peaks) \in 0 .. 3 /\ Judging!_worst(currents) \in 0 .. 3
      /\ Judging!_worst(currents) <= Judging!_worst(peaks)
      /\ \A b \in peaks : b <= Judging!_worst(peaks)
      /\ \A b \in currents : b <= Judging!_worst(currents)
  BY <1>2, WorstBand, WorstOrdered
<1>. QED BY <1>1, <1>2, <1>3 DEF Judging!InOrder

\* What was read is of the contract's shape, and the verdict, where there is one, is
\* what composition makes of it.
Packed(v) ==
    /\ v.devices \subseteq Judging!_impacted /\ Judging!pack(Judging!_impacted, v.devices)
    /\ v.omitted = Judging!Cardinality(Judging!_impacted \ v.devices)
VerdictInv ==
    /\ \A t \in DOMAIN replayed : replayed[t] \in Sessions
    /\ \A p \in DOMAIN rules : Judging!Concludes(rules[p])
    /\ agents \subseteq Agents
    /\ step # "failed" /\ (verdict # {} => step = "succeeded")
    /\ DOMAIN replayed \union DOMAIN paired \subseteq Judging!RowDevices
    /\ \A v \in verdict : Packed(v)

LEMMA NothingConcluded == Judging!Concludes(Judging!Nothing)
  BY DEF Judging!Concludes, Judging!InOrder, Judging!Nothing

\* A device's monitoring session counts at the worst of those of the device.
LEMMA MonitoringConcludes ==
    ASSUME Judging!BandsAssumption, VerdictInv
    PROVE  Judging!Concludes(Judging!monitoring)
<1>. DEFINE M == Judging!Measured
            bands == [t \in M |-> replayed[t]]
            Of(m) == {replayed[t].peak : t \in {u \in M : u.mac = m}}
            said == [m \in {t.mac : t \in {u \in M : replayed[u].peak >= Judging!Warning}} |-> Judging!Max(Of(m))]
            f == Judging!Folded(bands, said)
<1>1. Judging!monitoring = Judging!Nothing \/ Judging!monitoring = f
  BY Zenon DEF Judging!monitoring
<1>2. \A t \in M : Judging!InOrder(replayed[t])
  BY DEF Judging!Measured, VerdictInv, Judging!BandsAssumption
<1>. HIDE DEF M
<1>3. \A t \in DOMAIN bands : Judging!InOrder(bands[t])
  BY <1>2
<1>4. \A t \in M : bands[t] = replayed[t] /\ t \in DOMAIN bands
  OBVIOUS
<1>5. Judging!InOrder(f) /\ f.devices = said /\ \A t \in M : replayed[t].peak <= f.peak
 <2>. HIDE DEF bands, said
 <2>. QED BY <1>3, <1>4, FoldedBands
<1>6. ASSUME NEW m \in DOMAIN said
      PROVE  said[m] \in 0 .. 3 /\ said[m] <= f.peak
 <2>1. said[m] = Judging!Max(Of(m))
   BY <1>6
 <2>2. PICK t \in M : t.mac = m
   BY <1>6
 <2>3. Of(m) \subseteq 0 .. 3 /\ Of(m) # {} /\ \A k \in Of(m) : k <= f.peak
  <3>. HIDE DEF f
  <3>. QED BY <1>2, <1>5, <2>2 DEF Judging!InOrder
 <2>. HIDE DEF Of, f, said
 <2>4. Of(m) \subseteq Nat /\ Of(m) # {} /\ \A k \in Of(m) : 3 >= k
   BY <2>3
 <2>5. PICK g \in Of(m) : \A k \in Of(m) : g >= k
  <3>1. 3 \in Nat
    OBVIOUS
  <3>. QED BY <2>4, <3>1, GreatestOf
 <2>6. Judging!Max(Of(m)) \in Of(m)
   BY <2>5 DEF Judging!Max
 <2>. QED BY <2>1, <2>3, <2>6
<1>. HIDE DEF f, said
<1>7. Judging!Concludes(f)
  BY <1>5, <1>6 DEF Judging!Concludes
<1>. QED BY <1>1, <1>7, NothingConcluded

LEMMA DeploymentConcludes ==
    /\ Judging!Concludes(Judging!deployment)
    /\ "deployment evidence" \notin failed =>
           \A t \in DOMAIN paired :
               /\ paired[t] \in {"failed", "recovered"} =>
                      t.mac \in DOMAIN Judging!deployment.devices /\ Judging!deployment.devices[t.mac] = 2
               /\ paired[t] = "failed" => Judging!deployment.current >= 2
<1>. DEFINE bands == [t \in DOMAIN paired |-> Judging!Deployed(paired[t])]
            said == [m \in {t.mac : t \in {u \in DOMAIN paired : bands[u].peak > 0}} |-> Judging!Warning]
            f == Judging!Folded(bands, said)
<1>1. Judging!deployment = IF "deployment evidence" \in failed THEN Judging!Nothing ELSE f
  BY Zenon DEF Judging!deployment
<1>2. \A t \in DOMAIN paired : /\ t \in DOMAIN bands
                               /\ bands[t].peak = IF paired[t] \in {"failed", "recovered"} THEN 2 ELSE 0
                               /\ bands[t].current = IF paired[t] = "failed" THEN 2 ELSE 0
  BY DEF Judging!Deployed, Judging!Warning
<1>3. DOMAIN bands = DOMAIN paired
  OBVIOUS
<1>4. \A t \in DOMAIN bands : Judging!InOrder(bands[t])
 <2>. HIDE DEF bands
 <2>. QED BY <1>2, <1>3 DEF Judging!InOrder
<1>5. /\ DOMAIN said = {t.mac : t \in {u \in DOMAIN paired : bands[u].peak > 0}}
      /\ \A m \in DOMAIN said : said[m] = 2
  BY DEF Judging!Warning
<1>. HIDE DEF bands, said
<1>6. /\ Judging!InOrder(f) /\ f.devices = said
      /\ \A t \in DOMAIN paired : bands[t].peak <= f.peak /\ bands[t].current <= f.current
  BY <1>3, <1>4, FoldedBands
<1>. HIDE DEF f
<1>7. \A m \in DOMAIN said : said[m] \in 0 .. 3 /\ said[m] <= f.peak
 <2>. SUFFICES ASSUME NEW m \in DOMAIN said PROVE 2 <= f.peak
   BY <1>5
 <2>1. PICK t \in DOMAIN paired : bands[t].peak > 0
   BY <1>5
 <2>2. bands[t].peak = 2
   BY <1>2, <2>1
 <2>. QED BY <1>6, <2>2
<1>8. Judging!Concludes(f)
  BY <1>6, <1>7 DEF Judging!Concludes
<1>9. \A t \in DOMAIN paired :
          /\ paired[t] \in {"failed", "recovered"} => t.mac \in DOMAIN said /\ said[t.mac] = 2
          /\ paired[t] = "failed" => f.current >= 2
  BY <1>2, <1>5, <1>6 DEF Judging!InOrder
<1>. QED BY <1>1, <1>6, <1>8, <1>9, NothingConcluded

\* Who speaks to the verdict: the replays, the plug-ins and an agent that cites.
Voices == Judging!Floored \union Judging!_contribution
LEMMA VoicesConclude ==
    ASSUME Judging!BandsAssumption, VerdictInv, NEW v \in Voices
    PROVE  Judging!Concludes(v)
<1>1. v = Judging!monitoring \/ v = Judging!deployment \/ (\E p \in DOMAIN rules : v = rules[p]) \/ v \in agents
  BY DEF Voices, Judging!Floored, Judging!_contribution, Judging!Range
<1>2. CASE \E p \in DOMAIN rules : v = rules[p]
  BY <1>2 DEF VerdictInv
<1>3. CASE v \in agents
  BY <1>3 DEF VerdictInv, Judging!BandsAssumption
<1>. QED BY <1>1, <1>2, <1>3, MonitoringConcludes, DeploymentConcludes

LEMMA KnownBands ==
    ASSUME Judging!BandsAssumption, VerdictInv, NEW k \in Judging!_device_severities
    PROVE  Judging!InOrder(k)
  BY DEF Judging!_device_severities, Judging!Measured, VerdictInv, Judging!BandsAssumption, Judging!InOrder

\* What the voices claim of a device, and its row on the verdict.
Claims(m) == {[peak |-> s.devices[m], current |-> Judging!_at_most(s.devices[m], s.current)] :
                  s \in {x \in Voices : m \in DOMAIN x.devices}}
RowOf(k) == [mac |-> k.mac, peak |-> Judging!_worst({k.peak} \union {c.peak : c \in Claims(k.mac)}),
             current |-> Judging!_worst({k.current} \union {c.current : c \in Claims(k.mac)})]

LEMMA ImpactedRows ==
    Judging!_impacted = {r \in {RowOf(k) : k \in Judging!_device_severities} : r.peak >= 2}
<1>. DEFINE K == Judging!_device_severities
            claims(m) == {[peak |-> s.devices[m], current |-> Judging!_at_most(s.devices[m], s.current)] :
                              s \in {x \in Voices : m \in DOMAIN x.devices}}
            row(k) == [mac |-> k.mac, peak |-> Judging!_worst({k.peak} \union {c.peak : c \in claims(k.mac)}),
                       current |-> Judging!_worst({k.current} \union {c.current : c \in claims(k.mac)})]
<1>1. Judging!_impacted = {r \in {row(k) : k \in K} : r.peak >= Judging!Warning}
  BY Zenon DEF Judging!_impacted, Voices
<1>2. \A k : row(k) = RowOf(k)
  BY Zenon DEF RowOf, Claims
<1>. HIDE DEF row
<1>. QED BY <1>1, <1>2 DEF Judging!Warning

\* A device is at least what is known of it and what each voice claims of it, and no
\* worse than the worst of those.
LEMMA RowBands ==
    ASSUME Judging!BandsAssumption, VerdictInv, NEW k \in Judging!_device_severities
    PROVE  /\ Judging!InOrder(RowOf(k)) /\ RowOf(k).mac = k.mac
           /\ k.peak <= RowOf(k).peak /\ k.current <= RowOf(k).current
           /\ \A v \in Voices : k.mac \in DOMAIN v.devices =>
                  /\ v.devices[k.mac] <= RowOf(k).peak
                  /\ v.devices[k.mac] = 2 /\ v.current >= 2
                     => RowOf(k).current >= 2
           /\ \/ RowOf(k).peak <= k.peak
              \/ \E v \in Voices : RowOf(k).peak <= v.peak
<1>. DEFINE C == Claims(k.mac)
            peaks == {k.peak} \union {c.peak : c \in C}
            currents == {k.current} \union {c.current : c \in C}
<1>1. Judging!InOrder(k)
  BY KnownBands
<1>2. ASSUME NEW v \in Voices, k.mac \in DOMAIN v.devices
      PROVE  \E c \in C : c.peak = v.devices[k.mac] /\ c.current = Judging!_at_most(v.devices[k.mac], v.current)
 <2>. DEFINE c == [peak |-> v.devices[k.mac], current |-> Judging!_at_most(v.devices[k.mac], v.current)]
 <2>1. c \in C
   BY <1>2, Zenon DEF Claims
 <2>. HIDE DEF C
 <2>. QED BY <2>1
<1>3. ASSUME NEW c \in C
      PROVE  \E v \in Voices : /\ k.mac \in DOMAIN v.devices /\ c.peak = v.devices[k.mac]
                               /\ c.current = Judging!_at_most(v.devices[k.mac], v.current)
  BY DEF Claims
<1>. HIDE DEF C
<1>4. ASSUME NEW v \in Voices, k.mac \in DOMAIN v.devices
      PROVE  LET m == Judging!_at_most(v.devices[k.mac], v.current)
             IN  /\ v.devices[k.mac] \in 0 .. 3 /\ v.devices[k.mac] <= v.peak /\ v.peak \in 0 .. 3
                 /\ m \in 0 .. 3 /\ m <= v.devices[k.mac]
                 /\ v.devices[k.mac] = 2 /\ v.current >= 2
                    => m = 2
 <2>1. /\ v.devices[k.mac] \in 0 .. 3 /\ v.devices[k.mac] <= v.peak /\ v.peak \in 0 .. 3 /\ v.current \in 0 .. 3
   BY <1>4, VoicesConclude DEF Judging!Concludes, Judging!InOrder
 <2>. QED BY <2>1, AtMost
<1>5. \A c \in C : c.peak \in 0 .. 3 /\ c.current \in 0 .. 3 /\ c.current <= c.peak
  BY <1>3, <1>4
<1>6. /\ peaks \subseteq 0 .. 3 /\ currents \subseteq 0 .. 3 /\ k.peak \in peaks /\ k.current \in currents
      /\ \A a \in currents : \E b \in peaks : a <= b
      /\ \A c \in C : c.peak \in peaks /\ c.current \in currents
      /\ \A b \in peaks : b = k.peak \/ \E c \in C : b = c.peak
 <2>1. k.peak \in 0 .. 3 /\ k.current \in 0 .. 3 /\ k.current <= k.peak
   BY <1>1 DEF Judging!InOrder
 <2>2. \A c \in C : c.peak \in peaks /\ c.current \in currents
   OBVIOUS
 <2>3. \A a \in currents : \E b \in peaks : a <= b
  <3>1. ASSUME NEW a \in currents PROVE a = k.current \/ \E c \in C : a = c.current
    OBVIOUS
  <3>. HIDE DEF currents
  <3>. QED BY <1>5, <2>1, <2>2, <3>1
 <2>4. peaks \subseteq 0 .. 3 /\ currents \subseteq 0 .. 3
   BY <1>5, <2>1
 <2>. QED BY <2>1, <2>2, <2>3, <2>4
<1>7. RowOf(k) = [mac |-> k.mac, peak |-> Judging!_worst(peaks), current |-> Judging!_worst(currents)]
  BY Zenon DEF RowOf, C
<1>. HIDE DEF peaks, currents
<1>8. /\ Judging!_worst(peaks) \in 0 .. 3 /\ Judging!_worst(currents) \in 0 .. 3
      /\ Judging!_worst(currents) <= Judging!_worst(peaks)
      /\ \A b \in peaks : b <= Judging!_worst(peaks)
      /\ \A b \in currents : b <= Judging!_worst(currents)
      /\ Judging!_worst(peaks) = 0 \/ Judging!_worst(peaks) \in peaks
  BY <1>6, WorstBand, WorstOrdered
<1>9. Judging!InOrder(RowOf(k)) /\ RowOf(k).mac = k.mac /\ k.peak <= RowOf(k).peak /\ k.current <= RowOf(k).current
 <2>1. /\ RowOf(k).peak = Judging!_worst(peaks) /\ RowOf(k).current = Judging!_worst(currents)
       /\ RowOf(k).mac = k.mac
   BY <1>7
 <2>2. k.peak <= Judging!_worst(peaks) /\ k.current <= Judging!_worst(currents)
   BY <1>6, <1>8
 <2>. QED BY <1>8, <2>1, <2>2 DEF Judging!InOrder
<1>10. ASSUME NEW v \in Voices, k.mac \in DOMAIN v.devices
       PROVE  /\ v.devices[k.mac] <= RowOf(k).peak
              /\ v.devices[k.mac] = 2 /\ v.current >= 2
                 => RowOf(k).current >= 2
 <2>1. PICK c \in C : c.peak = v.devices[k.mac] /\ c.current = Judging!_at_most(v.devices[k.mac], v.current)
   BY <1>2, <1>10
 <2>2. c.peak <= RowOf(k).peak /\ c.current <= RowOf(k).current
  <3>1. RowOf(k).peak = Judging!_worst(peaks) /\ RowOf(k).current = Judging!_worst(currents)
    BY <1>7
  <3>2. c.peak \in peaks /\ c.current \in currents
    BY <1>6
  <3>. QED BY <1>8, <3>1, <3>2
 <2>3. c.current \in 0 .. 3 /\ RowOf(k).current \in 0 .. 3
   BY <1>5, <1>9 DEF Judging!InOrder
 <2>. QED BY <1>4, <1>10, <2>1, <2>2, <2>3
<1>11. RowOf(k).peak <= k.peak \/ \E v \in Voices : RowOf(k).peak <= v.peak
 <2>1. RowOf(k).peak = Judging!_worst(peaks)
   BY <1>7
 <2>2. CASE Judging!_worst(peaks) = 0
   BY <1>1, <2>1, <2>2 DEF Judging!InOrder
 <2>3. CASE \E c \in C : Judging!_worst(peaks) = c.peak
   BY <1>3, <1>4, <2>1, <2>3
 <2>4. CASE Judging!_worst(peaks) = k.peak
   BY <1>1, <2>1, <2>4 DEF Judging!InOrder
 <2>. QED BY <1>6, <1>8, <2>2, <2>3, <2>4
<1>. QED BY <1>9, <1>10, <1>11

\* A floor rises with what it is laid under, and is above nothing of warning or worse.
LEMMA FloorBands ==
    ASSUME NEW A, A \subseteq 0 .. 3, NEW B, B \subseteq 0 .. 3
    PROVE  /\ Judging!_Floor(A, B) \in 0 .. 3
           /\ \A b \in A \union B : b >= 2 => b <= Judging!_Floor(A, B)
<1>. DEFINE S == {Judging!_above_info(b) : b \in A \union B}
<1>1. \A b \in A \union B : Judging!_above_info(b) \in 0 .. 3 /\ (b >= 2 => Judging!_above_info(b) = b)
  BY DEF Judging!_above_info, Judging!Warning
<1>2. S \subseteq 0 .. 3 /\ \A b \in A \union B : b >= 2 => b \in S
  BY <1>1
<1>3. Judging!_Floor(A, B) = Judging!_worst(S)
  BY Zenon DEF Judging!_Floor
<1>. HIDE DEF S
<1>. QED BY <1>2, <1>3, WorstBand

LEMMA FloorOrdered ==
    ASSUME NEW A, A \subseteq 0 .. 3, NEW B, B \subseteq 0 .. 3, NEW C, C \subseteq 0 .. 3, NEW D, D \subseteq 0 .. 3,
           \A a \in A : \E c \in C : a <= c, \A b \in B : \E d \in D : b <= d
    PROVE  Judging!_Floor(A, B) <= Judging!_Floor(C, D)
<1>. DEFINE S == {Judging!_above_info(b) : b \in A \union B}
            T == {Judging!_above_info(b) : b \in C \union D}
<1>1. \A b \in 0 .. 3 : Judging!_above_info(b) \in 0 .. 3
  BY DEF Judging!_above_info
<1>2. \A a \in 0 .. 3, b \in 0 .. 3 : a <= b => Judging!_above_info(a) <= Judging!_above_info(b)
  BY DEF Judging!_above_info, Judging!Warning
<1>3. S \subseteq 0 .. 3 /\ T \subseteq 0 .. 3
  BY <1>1
<1>4. \A x \in S : \E y \in T : x <= y
 <2>1. \A b \in A \union B : \E d \in C \union D : b <= d
   OBVIOUS
 <2>. SUFFICES ASSUME NEW b \in A \union B PROVE \E y \in T : Judging!_above_info(b) <= y
   OBVIOUS
 <2>2. PICK d \in C \union D : b <= d
   BY <2>1
 <2>3. Judging!_above_info(b) <= Judging!_above_info(d) /\ Judging!_above_info(d) \in T
   BY <1>2, <2>2
 <2>. QED BY <2>3
<1>5. Judging!_Floor(A, B) = Judging!_worst(S) /\ Judging!_Floor(C, D) = Judging!_worst(T)
  BY Zenon DEF Judging!_Floor
<1>. HIDE DEF S, T
<1>. QED BY <1>3, <1>4, <1>5, WorstOrdered

\* Whatever was found, said and missed, its verdict is one the contract accepts.
LEMMA ComposedIsAccepted ==
    ASSUME Judging!BandsAssumption, VerdictInv, NEW kept \in SUBSET Judging!_impacted
    PROVE  Judging!consistent_bands(Judging!compose(Judging!_impacted, kept))
<1>. DEFINE K == Judging!_device_severities
            F == Judging!Floored
            A == Judging!_contribution
            base == IF Judging!coverage = "complete" THEN 0 ELSE 1
            known == {k.peak : k \in K}
            said == {s.peak : s \in F}
            knownNow == {k.current : k \in K}
            saidNow == {s.current : s \in F}
            heights == {base, Judging!_Floor(known, said)} \union {a.peak : a \in A}
            heightsNow == {base, Judging!_Floor(knownNow, saidNow)} \union {a.current : a \in A}
            v == Judging!compose(Judging!_impacted, kept)
<1>1. /\ v.peak = Judging!_worst(heights) /\ v.current = Judging!_worst(heightsNow)
      /\ v.coverage = Judging!coverage /\ v.devices = kept
 <2>. DEFINE c == IF \E a \in A : a.peak = Judging!_worst(heights) THEN "medium" ELSE "low"
 <2>1. v = [peak |-> Judging!_worst(heights), current |-> Judging!_worst(heightsNow), coverage |-> Judging!coverage,
            confidence |-> c, devices |-> kept,
             omitted |-> Judging!Cardinality(Judging!_impacted \ kept)]
   BY Zenon DEF Judging!compose
 <2>. HIDE DEF heights, heightsNow, c, v
 <2>. QED BY <2>1
<1>2. \A s \in F \union A : Judging!InOrder(s)
  BY VoicesConclude DEF Voices, Judging!Concludes
<1>3. \A k \in K : Judging!InOrder(k)
  BY KnownBands
<1>4. base \in 0 .. 1 /\ (base = 0 => v.coverage = "complete")
  BY <1>1
<1>. HIDE DEF K, F, A, base, v
<1>5. /\ known \subseteq 0 .. 3 /\ said \subseteq 0 .. 3 /\ knownNow \subseteq 0 .. 3 /\ saidNow \subseteq 0 .. 3
      /\ \A a \in knownNow : \E b \in known : a <= b
      /\ \A a \in saidNow : \E b \in said : a <= b
      /\ \A k \in K : k.peak \in known
      /\ \A s \in F : s.peak \in said
  BY <1>2, <1>3 DEF Judging!InOrder
<1>. HIDE DEF known, said, knownNow, saidNow
<1>6. /\ Judging!_Floor(known, said) \in 0 .. 3 /\ Judging!_Floor(knownNow, saidNow) \in 0 .. 3
      /\ Judging!_Floor(knownNow, saidNow) <= Judging!_Floor(known, said)
      /\ \A b \in known \union said : b >= 2 => b <= Judging!_Floor(known, said)
  BY <1>5, FloorBands, FloorOrdered
<1>7. /\ heights \subseteq 0 .. 3 /\ heightsNow \subseteq 0 .. 3 /\ base \in heightsNow
      /\ Judging!_Floor(known, said) \in heights
      /\ \A a \in A : a.peak \in heights
      /\ \A x \in heightsNow : \E y \in heights : x <= y
 <2>1. \A a \in A : a.peak \in 0 .. 3 /\ a.current \in 0 .. 3 /\ a.current <= a.peak
   BY <1>2 DEF Judging!InOrder
 <2>2. base \in heights /\ base <= base /\ Judging!_Floor(known, said) \in heights /\ \A a \in A : a.peak \in heights
   BY <1>4
 <2>3. \A x \in heightsNow : x = base \/ x = Judging!_Floor(knownNow, saidNow) \/ \E a \in A : x = a.current
   OBVIOUS
 <2>4. heights \subseteq 0 .. 3 /\ heightsNow \subseteq 0 .. 3 /\ base \in heightsNow
   BY <1>4, <1>6, <2>1
 <2>. HIDE DEF heights, heightsNow
 <2>5. \A x \in heightsNow : \E y \in heights : x <= y
   BY <1>6, <2>1, <2>2, <2>3
 <2>. QED BY <2>2, <2>4, <2>5
<1>. HIDE DEF heights, heightsNow
<1>8. /\ v.peak \in 0 .. 3 /\ v.current \in 0 .. 3 /\ v.current <= v.peak /\ base <= v.current
      /\ \A b \in heights : b <= v.peak
  BY <1>1, <1>7, WorstBand, WorstOrdered
<1>9. v.current = 0 => v.coverage = "complete"
  BY <1>4, <1>8
<1>10. ASSUME NEW d \in v.devices
       PROVE  d.current <= d.peak /\ d.peak <= v.peak
 <2>1. PICK k \in K : d = RowOf(k) /\ d.peak >= 2
   BY <1>1, <1>10, ImpactedRows DEF K
 <2>2. /\ Judging!InOrder(d)
       /\ \/ d.peak <= k.peak
          \/ \E s \in Voices : d.peak <= s.peak
   BY <2>1, RowBands DEF K
 <2>3. \A b \in known \union said : b >= 2 => b <= v.peak
  <3>1. Judging!_Floor(known, said) <= v.peak
    BY <1>7, <1>8
  <3>2. \A b \in known \union said : b \in 0 .. 3
    BY <1>5
  <3>. QED BY <1>6, <1>8, <3>1, <3>2
 <2>4. CASE d.peak <= k.peak
  <3>1. k.peak \in known /\ k.peak \in 0 .. 3
    BY <1>5
  <3>2. k.peak <= v.peak
    BY <2>1, <2>2, <2>3, <2>4, <3>1 DEF Judging!InOrder
  <3>. QED BY <1>8, <2>2, <2>4, <3>1, <3>2 DEF Judging!InOrder
 <2>5. CASE \E s \in Voices : d.peak <= s.peak
  <3>1. PICK s \in F \union A : d.peak <= s.peak
    BY <2>5 DEF Voices, F, A
  <3>2. s.peak \in 0 .. 3
    BY <1>2 DEF Judging!InOrder
  <3>3. s.peak <= v.peak
   <4>1. CASE s \in A
     BY <1>7, <1>8, <4>1
   <4>2. CASE s \in F
     BY <1>5, <2>1, <2>2, <2>3, <3>1, <3>2, <4>2 DEF Judging!InOrder
   <4>. QED BY <4>1, <4>2
  <3>. QED BY <1>8, <2>2, <3>1, <3>2, <3>3 DEF Judging!InOrder
 <2>. QED BY <2>2, <2>4, <2>5 DEF Judging!InOrder
<1>11. Judging!consistent_bands(v)
  BY <1>8, <1>9, <1>10 DEF Judging!consistent_bands
<1>. QED BY <1>11 DEF v

LEMMA VerdictInit == Judging!Init => VerdictInv
  BY DEF Judging!Init, VerdictInv

\* The rows are of the findings and those that speak, which composition leaves alone.
Spoken == <<audit, plans, ledger, paired, replayed, failed, rules, agents>>
LEMMA DevicesStay == audit' = audit => Judging!RowDevices' = Judging!RowDevices
  BY DEF Judging!RowDevices, Judging!Rows, Judging!_row_targets

LEMMA AuditStays == [Judging!Next]_(Judging!vars) => audit' = audit
  BY Zenon DEF Judging!Next, Judging!vars, Judging!_planned, Judging!build_ledger, Judging!deployment_phase,
               Judging!monitoring_phase, Judging!_evaluated, Judging!_agent_run, Judging!Compose

LEMMA RowsStay == UNCHANGED Spoken => Judging!_impacted' = Judging!_impacted
  BY DEF Spoken, Judging!_impacted, Judging!Floored, Judging!_contribution, Judging!_device_severities,
         Judging!Measured, Judging!monitoring, Judging!deployment, Judging!_worst, Judging!Folded, Judging!Range

LEMMA PackedStays ==
    ASSUME UNCHANGED Spoken, NEW v, Packed(v)
    PROVE  Packed(v)'
  BY RowsStay, Zenon DEF Packed, Judging!pack, Judging!Fits, Judging!Before

LEMMA EvaluatedKeeps ==
    ASSUME Judging!BandsAssumption, VerdictInv, Judging!_evaluated
    PROVE  VerdictInv'
<1>1. PICK raised \in SUBSET (DOMAIN plans \intersect Failures) :
          \E said \in [DOMAIN plans \ raised -> Judged],
             held \in [DOMAIN plans \ raised -> {"satisfied", "not_exercised", "unsatisfied"}] :
              rules' = [p \in DOMAIN plans \ raised |-> [peak |-> said[p].peak, current |-> said[p].current, devices |-> said[p].devices, status |-> held[p]]]
  BY DEF Judging!_evaluated
<1>2. PICK said \in [DOMAIN plans \ raised -> Judged],
           held \in [DOMAIN plans \ raised -> {"satisfied", "not_exercised", "unsatisfied"}] :
               rules' = [p \in DOMAIN plans \ raised |-> [peak |-> said[p].peak, current |-> said[p].current, devices |-> said[p].devices, status |-> held[p]]]
  BY <1>1
<1>3. ASSUME NEW p \in DOMAIN plans \ raised
      PROVE  Judging!Concludes(rules'[p])
 <2>1. PICK c \in Judged, h \in {"satisfied", "not_exercised", "unsatisfied"} : rules'[p] = [peak |-> c.peak, current |-> c.current, devices |-> c.devices, status |-> h]
   BY <1>2
 <2>2. Judging!Concludes(c)
   BY DEF Judging!BandsAssumption
 <2>3. rules'[p].peak = c.peak /\ rules'[p].current = c.current /\ rules'[p].devices = c.devices
   BY <2>1
 <2>. QED BY <2>2, <2>3 DEF Judging!Concludes, Judging!InOrder
<1>4. DOMAIN rules' = DOMAIN plans \ raised
  BY <1>2
<1>5. /\ step' = "agent" /\ verdict = {} /\ verdict' = verdict /\ replayed' = replayed /\ paired' = paired
      /\ agents' = agents /\ Judging!RowDevices' = Judging!RowDevices
  BY DevicesStay DEF Judging!_evaluated, VerdictInv
<1>. QED BY <1>3, <1>4, <1>5 DEF VerdictInv, Judging!Concludes, Judging!InOrder

LEMMA ComposeKeeps ==
    ASSUME Judging!BandsAssumption, VerdictInv, Judging!Compose
    PROVE  VerdictInv'
<1>. DEFINE rows == Judging!_impacted
            v(kept) == Judging!compose(rows, kept)
<1>1. PICK kept \in SUBSET rows :
          /\ Judging!pack(rows, kept)
          /\ IF Judging!consistent_bands(v(kept)) THEN step' = "succeeded" /\ verdict' = {v(kept)}
             ELSE step' = "failed" /\ UNCHANGED verdict
  BY Zenon DEF Judging!Compose
<1>2. step = "compose" /\ UNCHANGED Spoken /\ audit' = audit
  BY Zenon DEF Judging!Compose, Spoken
<1>3. step' = "succeeded" /\ verdict' = {v(kept)}
  BY <1>1, ComposedIsAccepted, Zenon
<1>4. v(kept).devices = kept /\ v(kept).omitted = Judging!Cardinality(rows \ kept)
 <2>1. \E p, c, e, n : v(kept) = [peak |-> p, current |-> c, coverage |-> e, confidence |-> n, devices |-> kept,
                                 omitted |-> Judging!Cardinality(rows \ kept)]
   BY Zenon DEF Judging!compose
 <2>. HIDE DEF v, rows
 <2>. QED BY <2>1
<1>5. Judging!RowDevices' = Judging!RowDevices
  BY <1>2, DevicesStay
<1>. HIDE DEF v
<1>6. \A w \in verdict' : Packed(w)'
 <2>1. Packed(v(kept))
   BY <1>1, <1>4 DEF Packed
 <2>. QED BY <1>2, <1>3, <2>1, PackedStays
<1>. QED BY <1>2, <1>3, <1>5, <1>6 DEF VerdictInv, Spoken, Judging!Concludes, Judging!InOrder

LEMMA VerdictStep ==
    ASSUME Judging!BandsAssumption
    PROVE  VerdictInv /\ [Judging!Next]_(Judging!vars) => VerdictInv'
<1>. SUFFICES ASSUME VerdictInv, [Judging!Next]_(Judging!vars) PROVE VerdictInv'
  OBVIOUS
<1>0. Judging!RowDevices' = Judging!RowDevices
  BY AuditStays, DevicesStay
<1>1. CASE UNCHANGED Judging!vars
 <2>1. UNCHANGED Spoken /\ UNCHANGED <<step, paired, replayed, rules, agents, verdict>>
   BY <1>1 DEF Judging!vars, Spoken
 <2>2. \A v \in verdict' : Packed(v)'
   BY <2>1, PackedStays DEF VerdictInv
 <2>. QED BY <1>0, <2>1, <2>2 DEF VerdictInv, Judging!Concludes, Judging!InOrder
<1>2. CASE Judging!_planned
  BY <1>0, <1>2 DEF Judging!_planned, VerdictInv, Judging!Concludes, Judging!InOrder
<1>3. CASE Judging!build_ledger
 <2>1. /\ step' = "deployment" /\ verdict = {}
       /\ UNCHANGED <<audit, plans, paired, replayed, failed, rules, agents, verdict>>
  <3>1. /\ step = "ledger" /\ step' = "deployment"
        /\ UNCHANGED <<audit, plans, paired, replayed, failed, rules, agents, verdict>>
    BY <1>3, Zenon DEF Judging!build_ledger
  <3>. QED BY <3>1 DEF VerdictInv
 <2>. QED BY <1>0, <2>1 DEF VerdictInv, Judging!Concludes, Judging!InOrder
<1>4. CASE Judging!deployment_phase
 <2>1. PICK f \in SUBSET Failures, said \in [Judging!RowDevices -> Outcomes] :
           paired' = IF "pairing" \in f THEN <<>> ELSE said
   BY <1>4, Zenon DEF Judging!deployment_phase
 <2>2. DOMAIN paired' \subseteq Judging!RowDevices
   BY <2>1
 <2>3. /\ step' = "monitoring" /\ verdict = {} /\ UNCHANGED <<verdict, replayed, rules, agents>>
   BY <1>4 DEF Judging!deployment_phase, VerdictInv
 <2>. QED BY <1>0, <2>2, <2>3 DEF VerdictInv, Judging!Concludes, Judging!InOrder
<1>5. CASE Judging!monitoring_phase
 <2>1. PICK f \in SUBSET Failures, said \in [Judging!Selected -> Sessions] :
           replayed' = IF "replay" \in f THEN <<>> ELSE said
   BY <1>5, Zenon DEF Judging!monitoring_phase
 <2>2. DOMAIN replayed' \subseteq Judging!Selected /\ \A t \in DOMAIN replayed' : replayed'[t] \in Sessions
  <3>1. CASE "replay" \in f
    BY <2>1, <3>1
  <3>2. CASE "replay" \notin f
    BY <2>1, <3>2
  <3>. QED BY <3>1, <3>2
 <2>3. Judging!Selected \subseteq Judging!RowDevices
   BY Zenon DEF Judging!Selected
 <2>4. step' = "rules" /\ verdict = {} /\ UNCHANGED <<verdict, paired, rules, agents>>
   BY <1>5 DEF Judging!monitoring_phase, VerdictInv
 <2>. QED BY <1>0, <2>2, <2>3, <2>4 DEF VerdictInv, Judging!Concludes, Judging!InOrder
<1>6. CASE Judging!_agent_run
  BY <1>0, <1>6 DEF Judging!_agent_run, VerdictInv, Judging!Concludes, Judging!InOrder
<1>. QED BY <1>1, <1>2, <1>3, <1>4, <1>5, <1>6, EvaluatedKeeps, ComposeKeeps DEF Judging!Next

\* composition.py compose and contracts.py Verdict.consistent_bands: no mixture of
\* findings, failed phases and agent reports composes a verdict its contract refuses.
THEOREM NeverRefused ==
    ASSUME Judging!BandsAssumption
    PROVE  Judging!Spec => []Judging!NeverRefused
<1>1. VerdictInv => Judging!NeverRefused
  BY DEF VerdictInv, Judging!NeverRefused
<1>. QED BY <1>1, VerdictInit, VerdictStep, PTL DEF Judging!Spec

\* What a replay found harmed and recorded has a row that says no less.
LEMMA HarmHasRow ==
    ASSUME Judging!BandsAssumption, VerdictInv, NEW h \in Judging!Harmed
    PROVE  /\ h.peak \in Nat
           /\ \E r \in Judging!_impacted : r.mac = h.mac /\ r.peak >= h.peak /\ r.current >= h.current
<1>1. ASSUME NEW k \in Judging!_device_severities, RowOf(k).peak >= 2
      PROVE  RowOf(k) \in Judging!_impacted
  BY <1>1, ImpactedRows
<1>2. ASSUME NEW t \in Judging!Measured, replayed[t].peak >= 2,
             h = [mac |-> t.mac, peak |-> replayed[t].peak, current |-> replayed[t].current]
      PROVE  h.peak \in Nat /\ \E r \in Judging!_impacted : r.mac = h.mac /\ r.peak >= h.peak /\ r.current >= h.current
 <2>1. h \in Judging!_device_severities
   BY <1>2, Zenon DEF Judging!_device_severities
 <2>2. /\ RowOf(h).mac = h.mac /\ Judging!InOrder(RowOf(h)) /\ Judging!InOrder(h)
       /\ h.peak <= RowOf(h).peak /\ h.current <= RowOf(h).current
   BY <2>1, RowBands, KnownBands
 <2>3. RowOf(h).peak >= 2
   BY <1>2, <2>2 DEF Judging!InOrder
 <2>4. RowOf(h) \in Judging!_impacted
   BY <1>1, <2>1, <2>3
 <2>. QED BY <2>2, <2>4 DEF Judging!InOrder
<1>3. ASSUME NEW t \in DOMAIN paired, "deployment evidence" \notin failed, paired[t] \in {"failed", "recovered"},
             h = [mac |-> t.mac, peak |-> Judging!Warning, current |-> Judging!Deployed(paired[t]).current]
      PROVE  h.peak \in Nat /\ \E r \in Judging!_impacted : r.mac = h.mac /\ r.peak >= h.peak /\ r.current >= h.current
 <2>1. h.mac = t.mac /\ h.peak = 2 /\ h.current = IF paired[t] = "failed" THEN 2 ELSE 0
   BY <1>3 DEF Judging!Deployed, Judging!Warning
 <2>2. PICK k \in Judging!_device_severities : k.mac = t.mac
  <3>. DEFINE k == [mac |-> t.mac, peak |-> replayed[t].peak, current |-> replayed[t].current]
              j == [mac |-> t.mac, peak |-> 0, current |-> 0]
  <3>1. CASE t \in Judging!Measured
   <4>1. k \in Judging!_device_severities
     BY <3>1, Zenon DEF Judging!_device_severities
   <4>. QED BY <4>1
  <3>2. CASE t \notin Judging!Measured
   <4>1. j \in Judging!_device_severities
     BY <3>2, Zenon DEF Judging!_device_severities
   <4>. QED BY <4>1
  <3>. QED BY <3>1, <3>2
 <2>3. /\ Judging!deployment \in Voices /\ t.mac \in DOMAIN Judging!deployment.devices
       /\ Judging!deployment.devices[t.mac] = 2 /\ (paired[t] = "failed" => Judging!deployment.current >= 2)
   BY <1>3, DeploymentConcludes DEF Voices, Judging!Floored
 <2>4. /\ RowOf(k).mac = t.mac /\ RowOf(k).peak >= 2 /\ Judging!InOrder(RowOf(k))
       /\ paired[t] = "failed" => RowOf(k).current >= 2
   BY <2>2, <2>3, RowBands
 <2>5. RowOf(k) \in Judging!_impacted
   BY <1>1, <2>4
 <2>6. RowOf(k).peak >= h.peak /\ RowOf(k).current >= h.current
   BY <2>1, <2>4 DEF Judging!InOrder
 <2>. QED BY <2>1, <2>4, <2>5, <2>6
<1>4. \/ \E t \in Judging!Measured : /\ replayed[t].peak >= 2
                                     /\ h = [mac |-> t.mac, peak |-> replayed[t].peak, current |-> replayed[t].current]
      \/ \E t \in DOMAIN paired : /\ "deployment evidence" \notin failed /\ paired[t] \in {"failed", "recovered"}
                                  /\ h = [mac |-> t.mac, peak |-> Judging!Warning,
                                          current |-> Judging!Deployed(paired[t]).current]
 <2>1. Judging!Warning = 2
   BY DEF Judging!Warning
 <2>. QED BY <2>1, Zenon DEF Judging!Harmed
<1>. QED BY <1>2, <1>3, <1>4

\* The rows are of finitely many known devices.
LEMMA RowsAreKnown ==
    ASSUME Judging!BandsAssumption, Judging!DevicesAssumption, VerdictInv, audit \in Audits
    PROVE  /\ IsFiniteSet(Judging!_impacted)
           /\ \A r \in Judging!_impacted : r \in [mac : DOMAIN Place, peak : 0 .. 3, current : 0 .. 3]
           /\ \A r, s \in Judging!_impacted : r.mac = s.mac => r = s
<1>. DEFINE K == Judging!_device_severities
            D == Judging!RowDevices
            own == {a.device : a \in Judging!ToSet(audit.atoms)}
<1>1. /\ IsFiniteSet(audit.expected) /\ \A t \in audit.expected : t.mac \in DOMAIN Place
      /\ IsFiniteSet(Judging!ToSet(audit.atoms))
      /\ \A a \in Judging!ToSet(audit.atoms) : a.device.mac \in DOMAIN Place \union {"none"}
      /\ \A t, u \in audit.expected \union own : t.mac = u.mac => t.mac = "none" \/ t = u
      /\ "none" \notin DOMAIN Place
  BY Zenon DEF Judging!DevicesAssumption, Judging!IsFiniteSet, IsFiniteSet
<1>2. D \subseteq own \union audit.expected /\ \A t \in D : t.mac \in DOMAIN Place
  BY <1>1 DEF Judging!RowDevices, Judging!Rows, Judging!_row_targets, Judging!None
<1>3. \A t, u \in D : t.mac = u.mac => t = u
 <2>. HIDE DEF own, D
 <2>. QED BY <1>1, <1>2
<1>4. IsFiniteSet(own)
 <2>. DEFINE f == [a \in Judging!ToSet(audit.atoms) |-> a.device]
 <2>1. f \in Surjection(Judging!ToSet(audit.atoms), own)
   BY DEF Surjection
 <2>. HIDE DEF f, own
 <2>. QED BY <1>1, <2>1, FS_Surjection
<1>5. IsFiniteSet(D)
 <2>. HIDE DEF own, D
 <2>1. IsFiniteSet(own \union audit.expected)
   BY <1>1, <1>4, FS_Union
 <2>. QED BY <1>2, <2>1, FS_Subset
<1>6. \A k \in K : (\E t \in D : k.mac = t.mac) /\ Judging!InOrder(k)
  BY KnownBands DEF Judging!_device_severities, Judging!Measured, VerdictInv
<1>7. IsFiniteSet(K)
 <2>. DEFINE M == Judging!Measured
             P == DOMAIN paired \ M
             f == [t \in M |-> [mac |-> t.mac, peak |-> replayed[t].peak, current |-> replayed[t].current]]
             g == [t \in P |-> [mac |-> t.mac, peak |-> 0, current |-> 0]]
             F == {[mac |-> t.mac, peak |-> replayed[t].peak, current |-> replayed[t].current] : t \in M}
             G == {[mac |-> t.mac, peak |-> 0, current |-> 0] : t \in P}
 <2>1. K = F \union G
   BY Zenon DEF Judging!_device_severities
 <2>2. M \subseteq D /\ P \subseteq D
   BY DEF Judging!Measured, VerdictInv
 <2>3. f \in Surjection(M, F) /\ g \in Surjection(P, G)
  <3>. HIDE DEF M, P
  <3>. QED BY DEF Surjection
 <2>. HIDE DEF M, P, f, g, F, G, D, K
 <2>4. IsFiniteSet(M) /\ IsFiniteSet(P)
   BY <1>5, <2>2, FS_Subset
 <2>5. IsFiniteSet(F) /\ IsFiniteSet(G)
   BY <2>3, <2>4, FS_Surjection
 <2>. QED BY <2>1, <2>5, FS_Union
<1>8. ASSUME NEW r \in Judging!_impacted PROVE \E k \in K : r = RowOf(k)
  BY <1>8, ImpactedRows
<1>9. IsFiniteSet(Judging!_impacted)
 <2>. DEFINE all == {RowOf(k) : k \in K}
             f == [k \in K |-> RowOf(k)]
 <2>1. f \in Surjection(K, all)
  <3>. HIDE DEF K
  <3>. QED BY Zenon DEF Surjection
 <2>2. Judging!_impacted \subseteq all
   BY <1>8
 <2>. HIDE DEF f, all, K
 <2>3. IsFiniteSet(all)
   BY <1>7, <2>1, FS_Surjection
 <2>. QED BY <2>2, <2>3, FS_Subset
<1>10. ASSUME NEW r \in Judging!_impacted
      PROVE  r \in [mac : DOMAIN Place, peak : 0 .. 3, current : 0 .. 3]
 <2>1. PICK k \in K : r = RowOf(k)
   BY <1>8
 <2>2. Judging!InOrder(r) /\ r.mac = k.mac
   BY <2>1, RowBands
 <2>3. r = [mac |-> r.mac, peak |-> r.peak, current |-> r.current]
   BY <2>1 DEF RowOf
 <2>4. r.mac \in DOMAIN Place /\ r.peak \in 0 .. 3 /\ r.current \in 0 .. 3
   BY <1>2, <1>6, <2>2 DEF Judging!InOrder
 <2>. QED BY <2>3, <2>4
<1>11. \A k, j \in K : k.mac = j.mac => k = j
 <2>1. ASSUME NEW k \in K
       PROVE  \E t \in D : k = IF t \in Judging!Measured
                               THEN [mac |-> t.mac, peak |-> replayed[t].peak, current |-> replayed[t].current]
                               ELSE [mac |-> t.mac, peak |-> 0, current |-> 0]
   BY <2>1 DEF Judging!_device_severities, Judging!Measured, VerdictInv
 <2>. HIDE DEF K, D
 <2>. QED BY <1>3, <2>1
<1>12. \A r, s \in Judging!_impacted : r.mac = s.mac => r = s
 <2>1. \A k \in K : RowOf(k).mac = k.mac
   BY RowBands
 <2>. HIDE DEF K
 <2>. QED BY <1>8, <1>11, <2>1
<1>. QED BY <1>9, <1>10, <1>12

\* Of some rows one comes last, all the others before it.
LEMMA LastRow ==
    ASSUME Judging!DevicesAssumption, NEW S, IsFiniteSet(S), S # {},
           \A r \in S : r \in [mac : DOMAIN Place, peak : 0 .. 3, current : 0 .. 3]
    PROVE  \E m \in S : \A k \in S : k = m \/ Judging!Before(k, m)
<1>. DEFINE P(r) == {k \in S : Judging!Before(k, r)}
            N == {Cardinality(P(r)) : r \in S}
<1>1. \A r \in S : IsFiniteSet(P(r)) /\ Cardinality(P(r)) \in 0 .. Cardinality(S)
  BY FS_Subset, FS_CardinalityType
<1>2. Cardinality(S) \in Nat /\ N \subseteq 0 .. Cardinality(S) /\ N # {}
  BY <1>1, FS_CardinalityType
<1>3. PICK m \in S : \A k \in S : Cardinality(P(m)) >= Cardinality(P(k))
 <2>1. PICK n \in N : \A x \in N : n >= x
  <3>. HIDE DEF N
  <3>. QED BY <1>2, GreatestOf
 <2>. QED BY <2>1
<1>4. \A r \in S : /\ r.peak \in 0 .. 3 /\ r.current \in 0 .. 3 /\ Place[r.mac] \in Nat
                   /\ \A k \in S : Place[k.mac] = Place[r.mac] => k.mac = r.mac
  BY DEF Judging!DevicesAssumption, Judging!IsInjective
<1>5. ASSUME NEW k \in S, k # m, ~Judging!Before(k, m)
      PROVE  FALSE
 <2>1. Judging!Before(m, k)
  <3>1. k.peak = m.peak /\ k.current = m.current => k.mac # m.mac
    BY <1>5
  <3>. QED BY <1>4, <1>5, <3>1 DEF Judging!Before
 <2>2. P(m) \union {m} \subseteq P(k) /\ m \notin P(m)
   BY <1>4, <2>1 DEF Judging!Before
 <2>. HIDE DEF P
 <2>3. Cardinality(P(m) \union {m}) = Cardinality(P(m)) + 1 /\ Cardinality(P(m) \union {m}) <= Cardinality(P(k))
   BY <1>1, <2>2, FS_AddElement, FS_Subset
 <2>. QED BY <1>1, <1>3, <2>3
<1>. QED BY <1>5

LEMMA CardinalityAlike == \A S : Judging!Cardinality(S) = Cardinality(S)
  BY Zenon DEF Judging!Cardinality, Cardinality

\* composition.py _impacted and evidence.py pack: a device a replay found harmed is
\* named at no less than was found, or counted for want of room; the verdict's list
\* keeps within its budget.
THEOREM HarmIsCounted ==
    ASSUME Judging!BandsAssumption, Judging!DevicesAssumption
    PROVE  Judging!Spec => []Judging!HarmIsCounted
<1>. DEFINE Inv == VerdictInv /\ audit \in Audits
<1>1. Inv => Judging!HarmIsCounted
 <2>. SUFFICES ASSUME VerdictInv, audit \in Audits, NEW v \in verdict
               PROVE  LET unnamed == {h \in Judging!Harmed : \A d \in v.devices : d.mac # h.mac}
                      IN  /\ \A h \in Judging!Harmed \ unnamed :
                                 \E d \in v.devices : d.mac = h.mac /\ d.peak >= h.peak /\ d.current >= h.current
                          /\ Judging!Cardinality({h.mac : h \in unnamed}) <= v.omitted
                          /\ Judging!Fits(v.devices, v.omitted = 0)
                          /\ \A h \in unnamed : \E worse \in SUBSET v.devices :
                                 (\A d \in worse : d.peak >= h.peak) /\ ~Judging!Fits(worse \union {h}, FALSE)
   BY DEF Judging!HarmIsCounted
 <2>. DEFINE rows == Judging!_impacted
             kept == v.devices
             unnamed == {h \in Judging!Harmed : \A d \in v.devices : d.mac # h.mac}
             Tried(r) == {k \in kept : Judging!Before(k, r)} \union {r}
 <2>1. /\ kept \subseteq rows /\ v.omitted = Cardinality(rows \ kept)
       /\ \A r \in rows : r \in kept <=> Judging!Fits(Tried(r), Tried(r) = rows)
   BY CardinalityAlike, Zenon DEF VerdictInv, Packed, Judging!pack
 <2>2. /\ IsFiniteSet(rows)
       /\ \A r \in rows : r \in [mac : DOMAIN Place, peak : 0 .. 3, current : 0 .. 3]
   BY RowsAreKnown
 <2>3. \A h \in Judging!Harmed :
           h.peak \in Nat /\ \E r \in rows : r.mac = h.mac /\ r.peak >= h.peak /\ r.current >= h.current
   BY HarmHasRow
 <2>4. \A r, s \in rows : r.mac = s.mac => r = s
   BY RowsAreKnown
 <2>5. \A U : Judging!Fits(U, TRUE) <=> Bytes[{r.mac : r \in U}] + 0 <= Budget
   BY DEF Judging!Fits
 <2>6. \A U : Judging!Fits(U, FALSE) <=> Bytes[{r.mac : r \in U}] + Digest <= Budget
   BY DEF Judging!Fits
 <2>7. ASSUME NEW U \in SUBSET rows PROVE Judging!Fits(U, FALSE) => Judging!Fits(U, TRUE)
  <3>. DEFINE b == Bytes[{r.mac : r \in U}]
  <3>1. {r.mac : r \in U} \in SUBSET DOMAIN Place
    BY <2>2
  <3>2. b \in Nat /\ Digest \in Nat /\ Budget \in Nat
    BY <3>1 DEF Judging!DevicesAssumption
  <3>3. (Judging!Fits(U, TRUE) <=> b + 0 <= Budget) /\ (Judging!Fits(U, FALSE) <=> b + Digest <= Budget)
    BY <2>5, <2>6
  <3>4. b + Digest <= Budget => b + 0 <= Budget
   <4>. HIDE DEF b
   <4>. QED BY <3>2
  <3>. QED BY <3>3, <3>4, Zenon
 <2>. HIDE DEF rows, kept, Tried
 <2>8. ASSUME NEW h \in unnamed
       PROVE  /\ \E r \in rows \ kept : r.mac = h.mac
              /\ \E worse \in SUBSET kept : (\A d \in worse : d.peak >= h.peak) /\ ~Judging!Fits(worse \union {h}, FALSE)
  <3>1. PICK r \in rows : r.mac = h.mac /\ r.peak >= h.peak
    BY <2>3
  <3>2. r \notin kept
    BY <2>8, <3>1 DEF kept
  <3>3. ~Judging!Fits(Tried(r), FALSE)
   <4>1. Tried(r) \in SUBSET rows
     BY <2>1 DEF Tried
   <4>2. ~Judging!Fits(Tried(r), Tried(r) = rows)
     BY <2>1, <3>2
   <4>3. CASE Tried(r) = rows
    <5>1. ~Judging!Fits(Tried(r), TRUE)
      BY <4>2, <4>3
    <5>. QED BY <2>7, <4>1, <5>1
   <4>4. CASE Tried(r) # rows
    <5>1. (Tried(r) = rows) = FALSE
      BY <4>4
    <5>. QED BY <4>2, <5>1
   <4>. QED BY <4>3, <4>4
  <3>. DEFINE worse == {k \in kept : Judging!Before(k, r)}
  <3>4. {d.mac : d \in worse \union {h}} = {d.mac : d \in Tried(r)}
    BY <3>1 DEF Tried
  <3>5. ~Judging!Fits(worse \union {h}, FALSE)
    BY <2>6, <3>3, <3>4
  <3>6. ASSUME NEW d \in worse PROVE d.peak >= h.peak
   <4>1. d.peak >= r.peak
     BY <2>1, <2>2 DEF Judging!Before
   <4>. QED BY <2>1, <2>2, <2>3, <3>1, <4>1
  <3>. HIDE DEF worse
  <3>7. worse \in SUBSET kept
    BY DEF worse
  <3>. QED BY <3>1, <3>2, <3>5, <3>6, <3>7
 <2>9. ASSUME NEW h \in Judging!Harmed \ unnamed
       PROVE  \E d \in kept : d.mac = h.mac /\ d.peak >= h.peak /\ d.current >= h.current
  <3>1. PICK r \in rows : r.mac = h.mac /\ r.peak >= h.peak /\ r.current >= h.current
    BY <2>3
  <3>2. PICK d \in kept : d.mac = h.mac
    BY <2>9 DEF kept
  <3>3. d = r
    BY <2>1, <2>4, <3>1, <3>2
  <3>. QED BY <3>1, <3>2, <3>3
 <2>. DEFINE macs == {h.mac : h \in unnamed}
             left == {r \in rows \ kept : r.mac \in macs}
             f == [r \in left |-> r.mac]
 <2>. HIDE DEF unnamed
 <2>10. Cardinality(macs) <= v.omitted
  <3>1. f \in Surjection(left, macs)
   <4>1. \A m \in macs : \E r \in left : r.mac = m
     BY <2>8
   <4>. HIDE DEF left, macs
   <4>. QED BY <4>1, <2>8 DEF Surjection, left
  <3>2. IsFiniteSet(rows \ kept)
    BY <2>2, FS_Subset
  <3>3. IsFiniteSet(left) /\ Cardinality(left) <= Cardinality(rows \ kept)
   <4>1. left \in SUBSET (rows \ kept)
     OBVIOUS
   <4>. HIDE DEF left
   <4>. QED BY <3>2, <4>1, FS_Subset
  <3>. HIDE DEF left, macs, f
  <3>4. IsFiniteSet(macs) /\ Cardinality(macs) <= Cardinality(left)
    BY <3>1, <3>3, FS_Surjection
  <3>5. Cardinality(macs) \in Nat /\ Cardinality(left) \in Nat /\ Cardinality(rows \ kept) \in Nat
    BY <3>2, <3>3, <3>4, FS_CardinalityType
  <3>. QED BY <2>1, <3>3, <3>4, <3>5
 <2>11. Judging!Fits(kept, v.omitted = 0)
  <3>1. v.omitted = 0 <=> kept = rows
   <4>1. IsFiniteSet(rows \ kept) /\ (rows \ kept = {} <=> kept = rows)
     BY <2>1, <2>2, FS_Subset
   <4>. QED BY <2>1, <4>1, FS_EmptySet
  <3>2. CASE kept = {}
   <4>1. {r.mac : r \in kept} = {}
     BY <3>2
   <4>2. Bytes[{}] + Digest <= Budget
     BY DEF Judging!DevicesAssumption
   <4>3. Judging!Fits(kept, FALSE)
     BY <2>6, <4>1, <4>2
   <4>4. Judging!Fits(kept, TRUE)
     BY <2>1, <2>7, <4>3
   <4>. QED BY <4>3, <4>4
  <3>3. CASE kept # {}
   <4>1. IsFiniteSet(kept) /\ \A r \in kept : r \in [mac : DOMAIN Place, peak : 0 .. 3, current : 0 .. 3]
     BY <2>1, <2>2, FS_Subset
   <4>2. PICK m \in kept : \A k \in kept : k = m \/ Judging!Before(k, m)
     BY <3>3, <4>1, LastRow
   <4>3. Tried(m) = kept
     BY <4>2 DEF Tried
   <4>4. Judging!Fits(kept, kept = rows)
     BY <2>1, <4>2, <4>3
   <4>5. (kept = rows) = (v.omitted = 0)
     BY <3>1, <2>1
   <4>. QED BY <4>4, <4>5
  <3>. QED BY <3>2, <3>3
 <2>12. Judging!Cardinality(macs) = Cardinality(macs)
   BY CardinalityAlike
 <2>. HIDE DEF macs
 <2>13. Judging!Cardinality(macs) <= v.omitted
   BY <2>10, <2>12
 <2>. QED BY <2>8, <2>9, <2>11, <2>13 DEF kept, macs, unnamed
<1>2. Judging!Init => Inv
  BY VerdictInit DEF Judging!Init
<1>3. Inv /\ [Judging!Next]_(Judging!vars) => Inv'
 <2>. SUFFICES ASSUME Inv, [Judging!Next]_(Judging!vars) PROVE audit' \in Audits
   BY VerdictStep
 <2>. QED BY AuditStays
<1>. QED BY <1>1, <1>2, <1>3, PTL DEF Judging!Spec

\* From the ledger on, it is the one of the change and the plans; a replay that did not
\* raise has looked at every device something was planned for; only plug-ins
\* report; and the verdict's coverage is the ledger's.
LedgerInv ==
    /\ audit \in Audits
    /\ DOMAIN plans \subseteq DOMAIN Plans /\ \A p \in DOMAIN plans : plans[p] \in Plans[p]
    /\ step \in {"plan", "ledger"} \/ ledger = Judging!Obligations
    /\ step \in {"plan", "ledger", "deployment", "monitoring"} \/ "replay" \in failed \/ DOMAIN replayed = Judging!Selected
    /\ DOMAIN rules \subseteq DOMAIN Plans
    /\ verdict # {} => step = "succeeded"
    /\ \A v \in verdict : v.coverage = Judging!coverage

LEMMA LedgerInit == Judging!Init => LedgerInv
  BY DEF Judging!Init, LedgerInv

\* What was planned and changed does not change again.
LEMMA LedgerHolds ==
    ASSUME UNCHANGED <<audit, plans>>
    PROVE  UNCHANGED <<Judging!Obligations, Judging!RowDevices>>
<1>1. UNCHANGED <<Judging!Rows, Judging!RowDevices, Judging!_untargeted>>
  BY DEF Judging!RowDevices, Judging!Rows, Judging!_row_targets, Judging!_untargeted
<1>2. UNCHANGED <<Judging!Claimed, Judging!Exclusions>>
  BY DEF Judging!Claimed, Judging!Exclusions
<1>3. Judging!_number_plan_obligations' = Judging!_number_plan_obligations
  BY <1>2 DEF Judging!_number_plan_obligations, Judging!Planned, Judging!_strictest
<1>4. \A r : Judging!_uncovered(r)' = Judging!_uncovered(r)
  BY <1>2 DEF Judging!_uncovered
<1>. QED BY <1>1, <1>2, <1>3, <1>4, Zenon DEF Judging!Obligations

LEMMA SelectedHolds ==
    ASSUME UNCHANGED <<audit, plans, ledger>>
    PROVE  UNCHANGED Judging!Selected
  BY LedgerHolds, Zenon DEF Judging!Selected

LEMMA CoverageHolds ==
    ASSUME UNCHANGED <<ledger, paired, replayed, failed, rules>>
    PROVE  UNCHANGED Judging!coverage
<1>1. \A o : Judging!Reported(o)' = Judging!Reported(o)
  BY DEF Judging!Reported, Judging!Precondition
<1>2. Judging!with_gaps' = Judging!with_gaps
  BY DEF Judging!with_gaps
<1>. QED BY <1>1, <1>2 DEF Judging!coverage

LEMMA LedgerStep == LedgerInv /\ [Judging!Next]_(Judging!vars) => LedgerInv'
<1>. SUFFICES ASSUME LedgerInv, [Judging!Next]_(Judging!vars) PROVE LedgerInv'
  OBVIOUS
<1>1. CASE UNCHANGED Judging!vars
 <2>1. UNCHANGED <<step, audit, plans, ledger, paired, replayed, failed, rules, agents, verdict>>
   BY <1>1 DEF Judging!vars
 <2>. QED BY <2>1, LedgerHolds, SelectedHolds, CoverageHolds DEF LedgerInv
<1>2. CASE Judging!_planned
 <2>1. /\ step = "plan" /\ step' = "ledger"
       /\ UNCHANGED <<audit, ledger, paired, replayed, failed, rules, agents, verdict>>
   BY <1>2 DEF Judging!_planned
 <2>2. DOMAIN plans' \subseteq DOMAIN Plans /\ \A p \in DOMAIN plans' : plans'[p] \in Plans[p]
   BY <1>2 DEF Judging!_planned
 <2>. QED BY <2>1, <2>2 DEF LedgerInv
<1>3. CASE Judging!build_ledger
 <2>1. /\ step = "ledger" /\ step' = "deployment" /\ ledger' = Judging!Obligations
       /\ UNCHANGED <<audit, plans, paired, replayed, failed, rules, agents, verdict>>
   BY <1>3, Zenon DEF Judging!build_ledger
 <2>. QED BY <2>1, LedgerHolds DEF LedgerInv
<1>4. CASE Judging!deployment_phase
 <2>1. /\ step = "deployment" /\ step' = "monitoring"
       /\ UNCHANGED <<audit, plans, ledger, replayed, rules, agents, verdict>>
   BY <1>4, Zenon DEF Judging!deployment_phase
 <2>. QED BY <2>1, LedgerHolds DEF LedgerInv
<1>5. CASE Judging!monitoring_phase
 <2>1. PICK f \in SUBSET (Failures \intersect {"replay", "monitoring evidence"}), said \in [Judging!Selected -> Sessions] :
           failed' = failed \union f /\ replayed' = IF "replay" \in f THEN <<>> ELSE said
   BY <1>5, Zenon DEF Judging!monitoring_phase
 <2>2. /\ step = "monitoring" /\ step' = "rules"
       /\ UNCHANGED <<audit, plans, ledger, paired, rules, agents, verdict>>
   BY <1>5, Zenon DEF Judging!monitoring_phase
 <2>3. "replay" \in failed' \/ DOMAIN replayed' = Judging!Selected
   BY <2>1
 <2>. QED BY <2>2, <2>3, LedgerHolds, SelectedHolds DEF LedgerInv
<1>6. CASE Judging!_evaluated
 <2>1. /\ step = "rules" /\ step' = "agent"
       /\ UNCHANGED <<audit, plans, ledger, paired, replayed, failed, agents, verdict>>
   BY <1>6, Zenon DEF Judging!_evaluated
 <2>2. DOMAIN rules' \subseteq DOMAIN Plans
   BY <1>6 DEF LedgerInv, Judging!_evaluated
 <2>. QED BY <2>1, <2>2, LedgerHolds, SelectedHolds DEF LedgerInv
<1>7. CASE Judging!_agent_run
 <2>1. /\ step = "agent" /\ step' = "compose"
       /\ UNCHANGED <<audit, plans, ledger, paired, replayed, failed, rules, verdict>>
   BY <1>7, Zenon DEF Judging!_agent_run
 <2>. QED BY <2>1, LedgerHolds, SelectedHolds DEF LedgerInv
<1>8. CASE Judging!Compose
 <2>1. /\ step = "compose" /\ step' \in {"succeeded", "failed"}
       /\ \/ step' = "succeeded" /\ \E kept : verdict' = {Judging!compose(Judging!_impacted, kept)}
          \/ verdict' = verdict
       /\ UNCHANGED <<audit, plans, ledger, paired, replayed, failed, rules, agents>>
   BY <1>8, Zenon DEF Judging!Compose
 <2>2. \A rows, kept : Judging!compose(rows, kept).coverage = Judging!coverage
  <3>. TAKE rows, kept
  <3>. DEFINE v == Judging!compose(rows, kept)
  <3>1. \E p, c, n, o : v = [peak |-> p, current |-> c, coverage |-> Judging!coverage, confidence |-> n,
                           devices |-> kept, omitted |-> o]
    BY Zenon DEF Judging!compose
  <3>. HIDE DEF v
  <3>2. v.coverage = Judging!coverage
    BY <3>1
  <3>. QED BY <3>2 DEF v
 <2>. QED BY <2>1, <2>2, LedgerHolds, SelectedHolds, CoverageHolds DEF LedgerInv
<1>. QED BY <1>1, <1>2, <1>3, <1>4, <1>5, <1>6, <1>7, <1>8 DEF Judging!Next

\* Where coverage is complete no observation is unanswered and every precondition holds.
LEMMA CompleteIsReported ==
    ASSUME Judging!coverage = "complete", NEW o \in Judging!with_gaps
    PROVE  /\ o.role = "observation" => Judging!Reported(o) # "unsatisfied"
           /\ o.role = "precondition" => Judging!Reported(o) = "satisfied"
<1>. DEFINE Of(role) == {Judging!Reported(x) : x \in {y \in Judging!with_gaps : y.role = role}}
<1>1. "unsatisfied" \notin Of("observation") /\ Of("precondition") \ {"satisfied"} = {}
  BY Zenon DEF Judging!coverage
<1>2. Judging!Reported(o) \in Of(o.role)
  OBVIOUS
<1>. QED BY <1>1, <1>2

\* The core's own observations, and its precondition of the change's time, nothing answers.
LEMMA CoreIsUnanswered ==
    ASSUME Judging!PlansAssumption, LedgerInv, NEW target, NEW role, NEW kind \in {"anchor", "input", "rule"}
    PROVE  LET o == Judging!Core(kind, role, target)
           IN  o.role = role /\ Judging!Reported(o) = "unsatisfied"
<1>. DEFINE o == Judging!Core(kind, role, target)
<1>1. o.kind = kind /\ o.owner = "core" /\ o.role = role
  BY DEF Judging!Core, Judging!Obligation
<1>. HIDE DEF o
<1>2. "core" \notin DOMAIN rules
  BY DEF LedgerInv, Judging!PlansAssumption
<1>3. Judging!Reported(o) = "unsatisfied"
  BY <1>1, <1>2 DEF Judging!Reported
<1>. QED BY <1>1, <1>3 DEF o

\* A monitoring obligation that is answered was answered on every device replayed for it.
LEMMA MonitoringIsAnswered ==
    ASSUME NEW o, o.kind = "monitoring", Judging!Reported(o) # "unsatisfied",
           NEW t \in DOMAIN replayed, Judging!reaches(o.target, t)
    PROVE  replayed[t].kind = "done" /\ (replayed[t].empty => o.policy = "not_exercised")
<1>. DEFINE statuses == {Judging!check_status(replayed[u], o.policy) : u \in {x \in DOMAIN replayed : Judging!reaches(o.target, x)}}
<1>1. Judging!Reported(o) = "unsatisfied" \/ Judging!Reported(o) = Judging!_aggregate(statuses)
  BY Zenon DEF Judging!Reported
<1>2. Judging!check_status(replayed[t], o.policy) \in statuses
  OBVIOUS
<1>. HIDE DEF statuses
<1>3. "unsatisfied" \notin statuses
  BY <1>1 DEF Judging!_aggregate
<1>. QED BY <1>2, <1>3 DEF Judging!check_status

\* ledger.py build_ledger and coverage: complete coverage is nothing unseen, the
\* change's time known, no phase failed, every path of every change addressed on every
\* device it applies to, and every observation asked for answered there, under each
\* asking plug-in's own policy, on a device that applied the change.
THEOREM CompleteIsCovered ==
    ASSUME Judging!PlansAssumption
    PROVE  Judging!Spec => []Judging!CompleteIsCovered
<1>1. ASSUME LedgerInv, NEW v \in verdict, v.coverage = "complete"
      PROVE  /\ audit.unseen = 0 /\ audit.anchor # "receipt" /\ failed = {}
             /\ \A a \in Judging!ToSet(audit.atoms) :
                    /\ a.complete /\ Judging!_row_targets(a) # {}
                    /\ \A t \in Judging!_row_targets(a), q \in a.paths : \E p \in DOMAIN plans : \E x \in Judging!Items(p) :
                           /\ x.atom = a.id /\ Judging!reaches(x.target, t)
                           /\ \E prefix \in x.paths : Judging!covers(prefix, q)
             /\ \A p \in DOMAIN plans : \A o \in Judging!ToSet(plans[p].obligations) :
                    \A t \in {u \in Judging!RowDevices : Judging!reaches(o.target, u)} :
                        Judging!Answered(p, o, t) /\ paired[t] \in {"configured", "recovered"}
 <2>1. Judging!coverage = "complete" /\ ledger = Judging!Obligations
   BY <1>1 DEF LedgerInv
 <2>2. Judging!Obligations \subseteq Judging!with_gaps
   BY <2>1, Zenon DEF Judging!with_gaps
 <2>. DEFINE nowhere == Judging!Target(Judging!None, Judging!None)
             input == Judging!Core("input", "observation", nowhere)
             open == {r \in Judging!Rows : ~r.atom.complete \/ Judging!_uncovered(r) # {}}
             reached == {u \in Judging!RowDevices : \E o \in Judging!Claimed : Judging!reaches(o.target, u)}
 <2>3. input \notin Judging!with_gaps
   BY <1>1, <2>1, CompleteIsReported, CoreIsUnanswered
 <2>4. failed = {}
   BY <2>3, Zenon DEF Judging!with_gaps, Judging!Inputs
 <2>5. audit.unseen = 0 /\ Judging!_untargeted = {}
  <3>1. ~(audit.unseen > 0 \/ Judging!_untargeted # {})
    BY <2>2, <2>3, Zenon DEF Judging!Obligations, Judging!Inputs
  <3>2. audit.unseen \in Nat
    BY <1>1 DEF LedgerInv, Judging!PlansAssumption
  <3>. QED BY <3>1, <3>2
 <2>6. audit.anchor # "receipt"
  <3>. DEFINE anchor == Judging!Core("anchor", "precondition", nowhere)
  <3>1. anchor \notin Judging!with_gaps
    BY <1>1, <2>1, CompleteIsReported, CoreIsUnanswered
  <3>. QED BY <2>2, <3>1, Zenon DEF Judging!Obligations
 <2>7. open = {}
  <3>. SUFFICES ASSUME NEW r \in open PROVE FALSE
    OBVIOUS
  <3>. DEFINE o == Judging!Core("rule", "observation", r.target)
  <3>1. o \in Judging!Obligations
    BY Zenon DEF Judging!Obligations
  <3>2. o \in Judging!with_gaps
    BY <2>2, <3>1
  <3>. QED BY <1>1, <2>1, <3>2, CompleteIsReported, CoreIsUnanswered
 <2>8. ASSUME NEW a \in Judging!ToSet(audit.atoms)
       PROVE  /\ a.complete /\ Judging!_row_targets(a) # {}
              /\ \A t \in Judging!_row_targets(a), q \in a.paths : \E p \in DOMAIN plans : \E x \in Judging!Items(p) :
                     /\ x.atom = a.id /\ Judging!reaches(x.target, t)
                     /\ \E prefix \in x.paths : Judging!covers(prefix, q)
  <3>1. Judging!_row_targets(a) # {}
    BY <2>5, Zenon DEF Judging!_untargeted
  <3>2. ASSUME NEW t \in Judging!_row_targets(a)
        PROVE  /\ a.complete
               /\ \A q \in a.paths : \E x \in Judging!Claimed \union Judging!Exclusions :
                      /\ x.atom = a.id /\ Judging!reaches(x.target, t)
                      /\ \E prefix \in x.paths : Judging!covers(prefix, q)
   <4>. DEFINE r == [atom |-> a, target |-> t]
   <4>1. r \in Judging!Rows
     BY DEF Judging!Rows
   <4>2. r.atom = a /\ r.target = t
     OBVIOUS
   <4>. HIDE DEF r
   <4>3. r.atom.complete /\ Judging!_uncovered(r) = {}
     BY <2>7, <4>1
   <4>. QED BY <4>2, <4>3, Zenon DEF Judging!_uncovered
  <3>3. ASSUME NEW x \in Judging!Claimed \union Judging!Exclusions
        PROVE  \E p \in DOMAIN plans : x \in Judging!Items(p)
    BY Zenon DEF Judging!Claimed, Judging!Exclusions, Judging!Items
  <3>. QED BY <3>1, <3>2, <3>3
 <2>9. ASSUME NEW p \in DOMAIN plans, NEW o \in Judging!ToSet(plans[p].obligations),
              NEW t \in Judging!RowDevices, Judging!reaches(o.target, t)
       PROVE  Judging!Answered(p, o, t) /\ paired[t] \in {"configured", "recovered"}
  <3>. DEFINE n == Judging!Obligation(p, o.kind, "observation", o.target, Judging!_strictest(o), o.metric)
              d == Judging!Core("deployment", "precondition", t)
  <3>1. o \in Judging!Claimed /\ n \in Judging!Obligations
   <4>1. o \in Judging!Claimed
     BY DEF Judging!Claimed
   <4>2. n \in Judging!Planned(p)
     BY Zenon DEF Judging!Planned
   <4>. HIDE DEF n
   <4>3. n \in Judging!_number_plan_obligations
     BY <4>2 DEF Judging!_number_plan_obligations
   <4>. QED BY <4>1, <4>3, Zenon DEF Judging!Obligations
  <3>2. d \in Judging!Obligations
    BY <2>9, <3>1, Zenon DEF Judging!Obligations
  <3>3. /\ n.owner = p /\ n.kind = o.kind /\ n.role = "observation" /\ n.target = o.target
        /\ n.policy = Judging!_strictest(o)
        /\ d.kind = "deployment" /\ d.role = "precondition" /\ d.target = t
    BY DEF Judging!Core, Judging!Obligation
  <3>. HIDE DEF n, d
  <3>4. Judging!Reported(n) # "unsatisfied" /\ Judging!Reported(d) = "satisfied"
    BY <2>1, <2>2, <3>1, <3>2, <3>3, CompleteIsReported
  <3>5. paired[t] \in {"configured", "recovered"}
   <4>1. Judging!Reported(d) = "satisfied" => Judging!Precondition(t) = "satisfied"
     BY <3>3 DEF Judging!Reported
   <4>. QED BY <3>4, <4>1 DEF Judging!Precondition
  <3>6. p # "core" /\ o.kind \in {"rule", "monitoring"}
    BY <1>1 DEF LedgerInv, Judging!PlansAssumption
  <3>7. CASE o.kind = "rule"
   <4>1. p \in DOMAIN rules /\ rules[p].status # "unsatisfied"
     BY <3>3, <3>4, <3>7 DEF Judging!Reported
   <4>. QED BY <3>5, <3>7, <4>1 DEF Judging!Answered
  <3>8. CASE o.kind = "monitoring"
   <4>1. t \in Judging!Selected
     BY <2>1, <2>9, <3>1, <3>3, <3>6 DEF Judging!Selected
   <4>2. t \in DOMAIN replayed
     BY <1>1, <2>4, <4>1 DEF LedgerInv
   <4>3. replayed[t].kind = "done" /\ (replayed[t].empty => n.policy = "not_exercised")
     BY <2>9, <3>3, <3>4, <3>8, <4>2, MonitoringIsAnswered
   <4>4. Judging!_strictest(o) = "not_exercised" => o.policy = "not_exercised"
     BY DEF Judging!_strictest
   <4>. QED BY <3>3, <3>5, <3>8, <4>3, <4>4 DEF Judging!Answered
  <3>. QED BY <3>6, <3>7, <3>8
 <2>. QED BY <2>4, <2>5, <2>6, <2>8, <2>9
<1>2. LedgerInv => Judging!CompleteIsCovered
  BY <1>1 DEF Judging!CompleteIsCovered
<1>. QED BY <1>2, LedgerInit, LedgerStep, PTL DEF Judging!Spec

\* What is stored, listed and shown of a change (ChangePicture).
CONSTANTS
    Refs, AuditSite, Messages, Earlier, Home, Scope, Readings, EXCLUDED_OBJECTS, METADATA_FIELDS, TILE_BAND,
    HIGH_CONFIDENCE_SAMPLES, MaxTime, MaxReadings
VARIABLES versions, session, group, settled

Pictured == INSTANCE ChangePicture

LEMMA FieldsAreFinite == ASSUME Pictured!LevelsAssumption PROVE \A r \in Refs : IsFiniteSet(r.fields)
  BY Zenon DEF Pictured!LevelsAssumption, Pictured!IsFiniteSet, IsFiniteSet

GroupFields == {"occurred", "message", "objects", "ids", "sites", "picture"}
\* A group shows what a rebuild makes of its audit's versions and sessions.
Shows(g, vs, ss) ==
    LET objects == Pictured!_project_objects(vs)
        excluded == Pictured!exclusion_reason(objects, g.message)
        clean == IF excluded THEN <<>> ELSE Pictured!validated_sessions(ss)
    IN  /\ g.objects = objects /\ g.ids = DOMAIN clean
        /\ g.picture = IF excluded THEN Pictured!NoPicture ELSE Pictured!Measured(clean, DOMAIN clean # {})

\* What is settled has a group, and its group shows its sources as they are.
PictureInv ==
    /\ DOMAIN session = Devices /\ DOMAIN group = Audits /\ DOMAIN versions = Audits /\ settled \subseteq Audits
    /\ \A d \in Devices : session[d] = {} \/ \E s : session[d] = {s} /\ Pictured!SessionRow(s)
    /\ \A a \in Audits : versions[a] \subseteq Refs
    /\ \A a \in Audits : \A g \in group[a] : DOMAIN g = GroupFields
    /\ \A a \in settled : group[a] # {} /\ \A g \in group[a] : Shows(g, versions[a], Pictured!SessionsOf(Pictured!Linked(a)))

LEMMA PictureInit ==
    ASSUME Pictured!LevelsAssumption
    PROVE  Pictured!Init => PictureInv
<1>. SUFFICES ASSUME Pictured!Init PROVE PictureInv
  OBVIOUS
<1>1. /\ settled = {} /\ versions = [a \in Audits |-> {}] /\ group = [a \in Audits |-> {}]
      /\ session \in [Devices -> {{}} \union {{s} : s \in Earlier}]
  BY DEF Pictured!Init
<1>2. \A d \in Devices : session[d] = {} \/ \E s : session[d] = {s} /\ Pictured!SessionRow(s)
  BY <1>1 DEF Pictured!LevelsAssumption
<1>. QED BY <1>1, <1>2 DEF PictureInv

\* A session without the audits it is linked to.
Plain(ss) == [(CHOOSE s \in ss : TRUE) EXCEPT !.audits = {}]

\* An audit's sessions are the same while neither its links nor what they measured change.
LEMMA SessionsStay ==
    ASSUME PictureInv, DOMAIN session' = Devices, NEW a,
           \A d \in Devices : (\E s \in session'[d] : a \in s.audits) <=> (\E s \in session[d] : a \in s.audits),
           \A d \in Devices : (\E s \in session[d] : a \in s.audits)
               => session'[d] # {} /\ session[d] # {} /\ Plain(session'[d]) = Plain(session[d])
    PROVE  Pictured!SessionsOf(Pictured!Linked(a))' = Pictured!SessionsOf(Pictured!Linked(a))
<1>. DEFINE L == Pictured!Linked(a)
            before == [d \in {x \in L : session[x] # {}} |-> Plain(session[d])]
            after == [d \in {x \in L : session'[x] # {}} |-> Plain(session'[d])]
<1>1. Pictured!Linked(a)' = L
  BY DEF Pictured!Linked
<1>2. Pictured!SessionsOf(L) = before
  BY Zenon DEF Pictured!SessionsOf, Plain
<1>3. Pictured!SessionsOf(Pictured!Linked(a))' = after
  BY <1>1, Zenon DEF Pictured!SessionsOf, Plain
<1>4. \A d \in L : session'[d] # {} /\ session[d] # {} /\ Plain(session'[d]) = Plain(session[d])
  BY DEF Pictured!Linked
<1>. HIDE DEF L
<1>5. before = after
  BY <1>4
<1>. QED BY <1>2, <1>3, <1>5 DEF L

LEMMA PictureStays ==
    ASSUME PictureInv, NEW b \in settled, group'[b] = group[b], versions'[b] = versions[b],
           Pictured!SessionsOf(Pictured!Linked(b))' = Pictured!SessionsOf(Pictured!Linked(b))
    PROVE  /\ group'[b] # {}
           /\ \A g \in group'[b] : Shows(g, versions'[b], Pictured!SessionsOf(Pictured!Linked(b))')
  BY DEF PictureInv

LEMMA UpsertKeepsPicture ==
    ASSUME PictureInv, NEW a \in Audits, Pictured!_upsert_audit_group(a)
    PROVE  PictureInv'
<1>1. PICK message \in Messages :
          group' = [group EXCEPT ![a] = {[occurred |-> now, message |-> message, objects |-> {}, ids |-> {},
                                          sites |-> AuditSite[a], picture |-> Pictured!NoPicture]}]
  BY Zenon DEF Pictured!_upsert_audit_group
<1>2. group[a] = {} /\ UNCHANGED <<now, versions, session, settled>>
  BY DEF Pictured!_upsert_audit_group
<1>3. DOMAIN group' = Audits /\ \A b \in Audits \ {a} : group'[b] = group[b]
  BY <1>1 DEF PictureInv
<1>4. \A b \in Audits : \A g \in group'[b] : DOMAIN g = GroupFields
 <2>1. \A g \in group'[a] : DOMAIN g = GroupFields
  <3>. DEFINE new == [occurred |-> now, message |-> message, objects |-> {}, ids |-> {},
                      sites |-> AuditSite[a], picture |-> Pictured!NoPicture]
  <3>1. DOMAIN new = GroupFields
    BY DEF GroupFields
  <3>2. group'[a] = {new}
    BY <1>1 DEF PictureInv
  <3>. QED BY <3>1, <3>2
 <2>. QED BY <1>3, <2>1 DEF PictureInv
<1>5. ASSUME NEW b \in settled
      PROVE  /\ group'[b] # {}
             /\ \A g \in group'[b] : Shows(g, versions'[b], Pictured!SessionsOf(Pictured!Linked(b))')
 <2>1. b # a /\ b \in Audits
   BY <1>2, <1>5 DEF PictureInv
 <2>2. Pictured!SessionsOf(Pictured!Linked(b))' = Pictured!SessionsOf(Pictured!Linked(b))
   BY <1>2 DEF Pictured!SessionsOf, Pictured!Linked
 <2>. QED BY <1>2, <1>3, <2>1, <2>2, PictureStays
<1>. QED BY <1>2, <1>3, <1>4, <1>5 DEF PictureInv

LEMMA RecordKeepsPicture ==
    ASSUME PictureInv, NEW a \in Audits, Pictured!Record(a)
    PROVE  PictureInv'
<1>1. PICK ref \in Refs : versions' = [versions EXCEPT ![a] = @ \union {ref}]
  BY DEF Pictured!Record
<1>2. settled' = settled \ {a} /\ UNCHANGED <<now, session, group>>
  BY DEF Pictured!Record
<1>3. ASSUME NEW b \in settled'
      PROVE  /\ group'[b] # {}
             /\ \A g \in group'[b] : Shows(g, versions'[b], Pictured!SessionsOf(Pictured!Linked(b))')
 <2>1. b \in settled /\ versions'[b] = versions[b] /\ group'[b] = group[b]
   BY <1>1, <1>2, <1>3 DEF PictureInv
 <2>2. Pictured!SessionsOf(Pictured!Linked(b))' = Pictured!SessionsOf(Pictured!Linked(b))
   BY <1>2 DEF Pictured!SessionsOf, Pictured!Linked
 <2>. QED BY <2>1, <2>2, PictureStays
<1>4. DOMAIN versions' = Audits /\ \A b \in Audits : versions'[b] \subseteq Refs
  BY <1>1 DEF PictureInv
<1>. QED BY <1>2, <1>3, <1>4 DEF PictureInv

\* A step that changes one device's session: what it is linked to stays linked, and
\* what another settled audit sees of it is what it measured.
LEMMA OneSessionChanges ==
    ASSUME PictureInv, NEW d \in Devices, NEW t, Pictured!SessionRow(t), session' = [session EXCEPT ![d] = {t}],
           UNCHANGED <<versions, group>>, settled' \subseteq settled,
           \A b \in settled' : \/ \A s \in session[d] \union {t} : b \notin s.audits
                               \/ \E s : /\ session[d] = {s} /\ b \in s.audits /\ b \in t.audits
                                         /\ [t EXCEPT !.audits = {}] = [s EXCEPT !.audits = {}]
    PROVE  PictureInv'
<1>1. DOMAIN session' = Devices /\ session'[d] = {t} /\ \A x \in Devices \ {d} : session'[x] = session[x]
  BY DEF PictureInv
<1>2. \A x \in Devices : session'[x] = {} \/ \E s : session'[x] = {s} /\ Pictured!SessionRow(s)
  BY <1>1 DEF PictureInv
<1>3. ASSUME NEW b \in settled'
      PROVE  /\ group'[b] # {}
             /\ \A g \in group'[b] : Shows(g, versions'[b], Pictured!SessionsOf(Pictured!Linked(b))')
 <2>1. b \in settled /\ versions'[b] = versions[b] /\ group'[b] = group[b]
   BY <1>3
 <2>2. \A x \in Devices : (\E s \in session'[x] : b \in s.audits) <=> (\E s \in session[x] : b \in s.audits)
   BY <1>1, <1>3
 <2>3. ASSUME NEW x \in Devices, \E s \in session[x] : b \in s.audits
       PROVE  session'[x] # {} /\ session[x] # {} /\ Plain(session'[x]) = Plain(session[x])
  <3>1. CASE x # d
    BY <1>1, <2>3, <3>1
  <3>2. CASE x = d
   <4>1. PICK s : session[d] = {s} /\ [t EXCEPT !.audits = {}] = [s EXCEPT !.audits = {}]
     BY <1>3, <2>3, <3>2
   <4>2. (CHOOSE y \in {t} : TRUE) = t /\ (CHOOSE y \in {s} : TRUE) = s
     OBVIOUS
   <4>3. Plain({t}) = [t EXCEPT !.audits = {}] /\ Plain({s}) = [s EXCEPT !.audits = {}]
     BY <4>2, Zenon DEF Plain
   <4>. QED BY <1>1, <3>2, <4>1, <4>3
  <3>. QED BY <3>1, <3>2
 <2>4. Pictured!SessionsOf(Pictured!Linked(b))' = Pictured!SessionsOf(Pictured!Linked(b))
   BY <1>1, <2>2, <2>3, SessionsStay
 <2>. QED BY <2>1, <2>4, PictureStays
<1>. QED BY <1>1, <1>2, <1>3 DEF PictureInv

LEMMA StoredRow ==
    ASSUME NEW s, Pictured!SessionRow(s)
    PROVE  LET t == Pictured!Stored(s)
           IN  /\ Pictured!SessionRow(t) /\ t.audits = s.audits /\ t.before = s.before /\ t.after = s.after
               /\ t.failed = s.failed /\ t.open = s.open /\ t.site = s.site /\ t.assessed = TRUE
<1>1. PICK x, y : Pictured!Stored(s) = [s EXCEPT !.severity = x, !.assessed = TRUE, !.degraded = y]
  BY DEF Pictured!Stored
<1>. DEFINE t == [s EXCEPT !.severity = x, !.assessed = TRUE, !.degraded = y]
<1>2. DOMAIN t = Pictured!SessionFields
  BY DEF Pictured!SessionRow
<1>3. /\ t.audits = s.audits /\ t.before = s.before /\ t.after = s.after
      /\ t.failed = s.failed /\ t.open = s.open /\ t.site = s.site /\ t.assessed = TRUE
  BY DEF Pictured!SessionRow, Pictured!SessionFields
<1>. HIDE DEF t
<1>4. Pictured!SessionRow(t)
  BY <1>2, <1>3 DEF Pictured!SessionRow
<1>. QED BY <1>1, <1>3, <1>4 DEF t

LEMMA CorrelateKeepsPicture ==
    ASSUME PictureInv, Pictured!LevelsAssumption, NEW d \in Devices, NEW a \in Audits, Pictured!Correlate(d, a)
    PROVE  PictureInv'
<1>1. settled' = settled \ {a} /\ UNCHANGED <<now, versions, group>>
  BY DEF Pictured!Correlate
<1>2. CASE \E s \in session[d] : s.open
 <2>1. session' = [session EXCEPT ![d] = {[s EXCEPT !.audits = @ \union {a}] : s \in @}]
   BY <1>2, Zenon DEF Pictured!Correlate
 <2>2. PICK s : session[d] = {s} /\ Pictured!SessionRow(s)
   BY <1>2 DEF PictureInv
 <2>. DEFINE t == [s EXCEPT !.audits = @ \union {a}]
 <2>3. session' = [session EXCEPT ![d] = {t}]
  <3>. DEFINE joined(x) == [x EXCEPT !.audits = @ \union {a}]
  <3>1. session' = [session EXCEPT ![d] = {joined(x) : x \in session[d]}]
    BY <2>1 DEF PictureInv
  <3>2. joined(s) = t
    OBVIOUS
  <3>. HIDE DEF joined
  <3>3. {joined(x) : x \in session[d]} = {joined(s)}
    BY <2>2
  <3>. QED BY <3>1, <3>2, <3>3, Zenon
 <2>4. Pictured!SessionRow(t) /\ t.audits = s.audits \union {a}
   BY <2>2 DEF Pictured!SessionRow, Pictured!SessionFields
 <2>5. [t EXCEPT !.audits = {}] = [s EXCEPT !.audits = {}]
   BY <2>2 DEF Pictured!SessionRow, Pictured!SessionFields
 <2>. HIDE DEF t
 <2>6. \A b \in settled' : b \in t.audits <=> b \in s.audits
   BY <1>1, <2>4
 <2>. QED BY <1>1, <2>2, <2>3, <2>4, <2>5, <2>6, OneSessionChanges
<1>3. CASE ~\E s \in session[d] : s.open
 <2>1. PICK before \in {{}} \union {{r} : r \in Readings} :
           /\ session[d] = {}
           /\ session' = [session EXCEPT ![d] =
                  {Pictured!Stored([site |-> Home[d], audits |-> {a}, created |-> now, ended |-> MaxTime, open |-> TRUE,
                             before |-> before, after |-> <<>>, failed |-> "none", severity |-> 0, peak |-> 0,
                             degraded |-> FALSE, assessed |-> TRUE])}]
   BY <1>3, Zenon DEF Pictured!Correlate
 <2>. DEFINE s == [site |-> Home[d], audits |-> {a}, created |-> now, ended |-> MaxTime, open |-> TRUE,
                   before |-> before, after |-> <<>>, failed |-> "none", severity |-> 0, peak |-> 0,
                   degraded |-> FALSE, assessed |-> TRUE]
             t == Pictured!Stored(s)
 <2>2. Pictured!SessionRow(s) /\ s.audits = {a}
  <3>1. DOMAIN s = Pictured!SessionFields /\ s.before = before /\ s.after = <<>> /\ s.audits = {a}
    BY DEF Pictured!SessionFields
  <3>2. before \subseteq Pictured!Levels
    BY <2>1 DEF Pictured!LevelsAssumption
  <3>. QED BY <3>1, <3>2 DEF Pictured!SessionRow
 <2>3. Pictured!SessionRow(t) /\ t.audits = {a}
  <3>. HIDE DEF s
  <3>. QED BY <2>2, StoredRow
 <2>4. session' = [session EXCEPT ![d] = {t}]
   BY <2>1, Zenon
 <2>. HIDE DEF s, t
 <2>5. \A b \in settled' : \A x \in session[d] \union {t} : b \notin x.audits
   BY <1>1, <2>1, <2>3
 <2>. QED BY <1>1, <2>3, <2>4, <2>5, OneSessionChanges
<1>. QED BY <1>2, <1>3

\* A session that moved on unsettles every audit it is linked to.
LEMMA SessionMoves ==
    ASSUME PictureInv, NEW d \in Devices, NEW s, session[d] = {s}, NEW moved, Pictured!SessionRow(moved), moved.audits = s.audits,
           session' = [session EXCEPT ![d] = {Pictured!Peaked(x, Pictured!Stored(moved)) : x \in @}],
           settled' = settled \ UNION {x.audits : x \in session[d]}, UNCHANGED <<now, versions, group>>
    PROVE  PictureInv'
<1>. DEFINE t == Pictured!Peaked(s, Pictured!Stored(moved))
<1>1. Pictured!SessionRow(t) /\ t.audits = s.audits
 <2>. DEFINE u == Pictured!Stored(moved)
 <2>1. Pictured!SessionRow(u) /\ u.audits = s.audits
   BY StoredRow
 <2>. HIDE DEF u
 <2>2. Pictured!SessionRow(Pictured!Peaked(s, u)) /\ Pictured!Peaked(s, u).audits = s.audits
   BY <2>1 DEF Pictured!SessionRow, Pictured!SessionFields, Pictured!Peaked
 <2>. QED BY <2>2 DEF u
<1>2. session' = [session EXCEPT ![d] = {t}]
 <2>. DEFINE peaked(x) == Pictured!Peaked(x, Pictured!Stored(moved))
 <2>1. session' = [session EXCEPT ![d] = {peaked(x) : x \in session[d]}]
   BY DEF PictureInv
 <2>2. peaked(s) = t
   OBVIOUS
 <2>. HIDE DEF peaked
 <2>3. {peaked(x) : x \in session[d]} = {peaked(s)}
   OBVIOUS
 <2>. QED BY <2>1, <2>2, <2>3, Zenon
<1>. HIDE DEF t
<1>3. \A b \in settled' : \A x \in session[d] \union {t} : b \notin x.audits
  BY <1>1
<1>. QED BY <1>1, <1>2, <1>3, OneSessionChanges

LEMMA PollKeepsPicture ==
    ASSUME PictureInv, Pictured!LevelsAssumption, NEW d \in Devices, Pictured!Poll(d)
    PROVE  PictureInv'
<1>1. PICK r \in Readings :
          /\ \E s \in session[d] : s.open
          /\ session' = [session EXCEPT ![d] = {Pictured!Peaked(s, Pictured!Stored([s EXCEPT !.after = Append(@, r)])) : s \in @}]
          /\ settled' = settled \ UNION {x.audits : x \in session[d]} /\ UNCHANGED <<now, versions, group>>
  BY DEF Pictured!Poll, Pictured!Change
<1>2. PICK s : session[d] = {s} /\ Pictured!SessionRow(s)
  BY <1>1 DEF PictureInv
<1>. DEFINE moved == [s EXCEPT !.after = Append(@, r)]
<1>3. Pictured!SessionRow(moved) /\ moved.audits = s.audits
 <2>1. DOMAIN moved = Pictured!SessionFields /\ moved.before = s.before /\ moved.after = Append(s.after, r) /\ moved.audits = s.audits
   BY <1>2 DEF Pictured!SessionRow, Pictured!SessionFields
 <2>2. r \in Pictured!Levels
   BY DEF Pictured!LevelsAssumption
 <2>. HIDE DEF moved
 <2>. QED BY <1>2, <2>1, <2>2 DEF Pictured!SessionRow
<1>4. session' = [session EXCEPT ![d] = {Pictured!Peaked(x, Pictured!Stored(moved)) : x \in @}]
  BY <1>1, <1>2 DEF PictureInv
<1>. HIDE DEF moved
<1>. QED BY <1>1, <1>2, <1>3, <1>4, SessionMoves

LEMMA AnswerKeepsPicture ==
    ASSUME PictureInv, NEW d \in Devices, NEW failure, \E s \in session[d] : s.open,
           session' = [session EXCEPT ![d] = {Pictured!Peaked(s, Pictured!Stored([s EXCEPT !.failed = failure])) : s \in @}],
           settled' = settled \ UNION {x.audits : x \in session[d]}, UNCHANGED <<now, versions, group>>
    PROVE  PictureInv'
<1>1. PICK s : session[d] = {s} /\ Pictured!SessionRow(s)
  BY DEF PictureInv
<1>. DEFINE moved == [s EXCEPT !.failed = failure]
<1>2. Pictured!SessionRow(moved) /\ moved.audits = s.audits
  BY <1>1 DEF Pictured!SessionRow, Pictured!SessionFields
<1>3. session' = [session EXCEPT ![d] = {Pictured!Peaked(x, Pictured!Stored(moved)) : x \in @}]
  BY <1>1 DEF PictureInv
<1>. HIDE DEF moved
<1>. QED BY <1>1, <1>2, <1>3, SessionMoves

LEMMA CloseKeepsPicture ==
    ASSUME PictureInv, NEW d \in Devices, Pictured!Close(d)
    PROVE  PictureInv'
<1>1. /\ \E s \in session[d] : s.open
      /\ session' = [session EXCEPT ![d] =
                         {Pictured!Peaked(s, Pictured!Stored([s EXCEPT !.open = FALSE, !.ended = now])) : s \in @}]
      /\ settled' = settled \ UNION {x.audits : x \in session[d]} /\ UNCHANGED <<now, versions, group>>
  BY DEF Pictured!Close, Pictured!Change
<1>2. PICK s : session[d] = {s} /\ Pictured!SessionRow(s)
  BY <1>1 DEF PictureInv
<1>. DEFINE moved == [s EXCEPT !.open = FALSE, !.ended = now]
<1>3. Pictured!SessionRow(moved) /\ moved.audits = s.audits
 <2>1. DOMAIN moved = Pictured!SessionFields /\ moved.before = s.before /\ moved.after = s.after /\ moved.audits = s.audits
   BY <1>2 DEF Pictured!SessionRow, Pictured!SessionFields
 <2>. HIDE DEF moved
 <2>. QED BY <1>2, <2>1 DEF Pictured!SessionRow
<1>4. session' = [session EXCEPT ![d] = {Pictured!Peaked(x, Pictured!Stored(moved)) : x \in @}]
  BY <1>1, <1>2 DEF PictureInv
<1>. HIDE DEF moved
<1>. QED BY <1>1, <1>2, <1>3, <1>4, SessionMoves

LEMMA RebuildKeepsPicture ==
    ASSUME PictureInv, NEW a \in Audits, Pictured!_rebuild_once(a)
    PROVE  PictureInv'
<1>. DEFINE objects == Pictured!_project_objects(versions[a])
            excluded(g) == Pictured!exclusion_reason(objects, g.message)
            ss(g) == IF excluded(g) THEN <<>> ELSE Pictured!validated_sessions(Pictured!SessionsOf(Pictured!Linked(a)))
            picture(g) == IF excluded(g) THEN Pictured!NoPicture ELSE Pictured!Measured(ss(g), DOMAIN ss(g) # {})
            sites(g) == g.sites \union {r.site : r \in {x \in objects : x.site # "org"}}
                                \union {ss(g)[d].site : d \in DOMAIN ss(g)}
<1>1. PICK g \in group[a] :
          group' = [group EXCEPT ![a] = {[g EXCEPT !.objects = objects, !.ids = DOMAIN ss(g), !.picture = picture(g), !.sites = sites(g)]}]
  BY Zenon DEF Pictured!_rebuild_once
<1>2. settled' = settled \union {a} /\ UNCHANGED <<now, versions, session>>
  BY DEF Pictured!_rebuild_once
<1>3. PICK w, x, y, z : /\ w = objects /\ x = DOMAIN ss(g) /\ y = picture(g) /\ z = sites(g)
  OBVIOUS
<1>. DEFINE h == [g EXCEPT !.objects = w, !.ids = x, !.picture = y, !.sites = z]
<1>4. DOMAIN h = GroupFields /\ h.objects = w /\ h.ids = x /\ h.picture = y /\ h.message = g.message
  BY DEF PictureInv, GroupFields
<1>5. group' = [group EXCEPT ![a] = {h}]
  BY <1>1, <1>3, Zenon
<1>. HIDE DEF h
<1>6. Shows(h, versions[a], Pictured!SessionsOf(Pictured!Linked(a)))
  BY <1>3, <1>4, Zenon DEF Shows
<1>7. Pictured!SessionsOf(Pictured!Linked(a))' = Pictured!SessionsOf(Pictured!Linked(a))
  BY <1>2 DEF Pictured!SessionsOf, Pictured!Linked
<1>8. group'[a] = {h} /\ DOMAIN group' = Audits /\ \A b \in Audits \ {a} : group'[b] = group[b]
  BY <1>5 DEF PictureInv
<1>9. ASSUME NEW b \in settled'
      PROVE  /\ group'[b] # {}
             /\ \A k \in group'[b] : Shows(k, versions'[b], Pictured!SessionsOf(Pictured!Linked(b))')
 <2>1. CASE b = a
   BY <1>2, <1>6, <1>7, <1>8, <2>1
 <2>2. CASE b # a
  <3>1. b \in settled /\ b \in Audits
    BY <1>2, <1>9, <2>2 DEF PictureInv
  <3>2. Pictured!SessionsOf(Pictured!Linked(b))' = Pictured!SessionsOf(Pictured!Linked(b))
    BY <1>2 DEF Pictured!SessionsOf, Pictured!Linked
  <3>. QED BY <1>2, <1>8, <2>2, <3>1, <3>2, PictureStays
 <2>. QED BY <2>1, <2>2
<1>10. \A b \in Audits : \A k \in group'[b] : DOMAIN k = GroupFields
  BY <1>4, <1>8 DEF PictureInv
<1>. QED BY <1>2, <1>8, <1>9, <1>10 DEF PictureInv

LEMMA PictureStep ==
    ASSUME Pictured!LevelsAssumption
    PROVE  PictureInv /\ [Pictured!Next]_(Pictured!vars) => PictureInv'
<1>. SUFFICES ASSUME PictureInv, [Pictured!Next]_(Pictured!vars) PROVE PictureInv'
  OBVIOUS
<1>1. CASE UNCHANGED <<versions, session, group, settled>>
 <2>1. \A b : Pictured!SessionsOf(Pictured!Linked(b))' = Pictured!SessionsOf(Pictured!Linked(b))
   BY <1>1 DEF Pictured!SessionsOf, Pictured!Linked
 <2>. QED BY <1>1, <2>1 DEF PictureInv
<1>2. CASE \E a \in Audits : \/ Pictured!_upsert_audit_group(a) \/ Pictured!Record(a) \/ Pictured!_rebuild_once(a)
                             \/ \E d \in Devices : Pictured!Correlate(d, a)
  BY <1>2, UpsertKeepsPicture, RecordKeepsPicture, RebuildKeepsPicture, CorrelateKeepsPicture
<1>3. CASE \E d \in Devices : Pictured!Poll(d) \/ Pictured!Close(d)
  BY <1>3, PollKeepsPicture, CloseKeepsPicture
<1>4. CASE \E d \in Devices : Pictured!Fail(d) \/ Pictured!Succeed(d)
 <2>1. PICK d \in Devices, failure \in {"open", "resolved"} :
           /\ \E s \in session[d] : s.open
           /\ session' = [session EXCEPT ![d] = {Pictured!Peaked(s, Pictured!Stored([s EXCEPT !.failed = failure])) : s \in @}]
           /\ settled' = settled \ UNION {x.audits : x \in session[d]} /\ UNCHANGED <<now, versions, group>>
   BY <1>4 DEF Pictured!Fail, Pictured!Succeed, Pictured!Change
 <2>. QED BY <2>1, AnswerKeepsPicture
<1>5. UNCHANGED <<versions, session, group, settled>> \/ Pictured!Next
  BY DEF Pictured!vars
<1>6. CASE Pictured!Tick
  BY <1>1, <1>6 DEF Pictured!Tick
<1>. QED BY <1>1, <1>2, <1>3, <1>4, <1>5, <1>6, Zenon DEF Pictured!Next

Excluded(g) == Pictured!exclusion_reason(g.objects, g.message)
Clean(a) == Pictured!validated_sessions(Pictured!SessionsOf(Pictured!Linked(a)))

\* The same picture, but for its wording.
Same(p, q) ==
    /\ DOMAIN p = DOMAIN q /\ \A x \in DOMAIN p : x # "assessment" => p[x] = q[x]
    /\ p.severity = q.severity /\ p.recovery = q.recovery

LEMMA CorrectedIsWording ==
    ASSUME NEW ss
    PROVE  Same(Pictured!Corrected(ss), Pictured!Measured(ss, FALSE))
<1>. DEFINE p == Pictured!Measured(ss, FALSE)
            q == [p EXCEPT !.assessment = "not established"]
<1>1. p = [severity |-> p.severity, recovery |-> p.recovery, confidence |-> p.confidence, degraded |-> p.degraded,
           summary |-> p.summary, assessment |-> p.assessment]
 <2>. DEFINE moved == Pictured!measure_movements(ss)
             recovery == Pictured!resolve_recovery_state(ss, moved)
             worst == Pictured!worst_severity({ss[d].severity : d \in DOMAIN ss})
             confidence == Pictured!resolve_baseline_confidence(ss)
             lower == \E d \in DOMAIN ss : ss[d].degraded
             sentence == Pictured!_impact_sentence(moved, recovery)
             assessment == Pictured!build_assessment(moved, recovery, FALSE)
 <2>1. p = [severity |-> worst, recovery |-> recovery, confidence |-> confidence, degraded |-> lower,
            summary |-> sentence, assessment |-> assessment]
   BY Zenon DEF Pictured!Measured, Pictured!MeasuredFrom, Pictured!Picture
 <2>. HIDE DEF p, moved, recovery, worst, confidence, lower, sentence, assessment
 <2>. QED BY <2>1
<1>2. Pictured!Corrected(ss) = p \/ Pictured!Corrected(ss) = q
  BY Zenon DEF Pictured!Corrected
<1>. HIDE DEF p
<1>3. Same(p, p) /\ Same(q, p)
  BY <1>1 DEF Same
<1>. QED BY <1>2, <1>3 DEF p

\* What a row shows of a settled group, and what is stored of it, were both measured
\* from its sessions as they are.
LEMMA PictureRead ==
    ASSUME PictureInv, NEW a \in settled, NEW g \in group[a]
    PROVE  /\ Excluded(g) => Pictured!_summarize(g).picture = Pictured!NoPicture /\ g.picture = Pictured!NoPicture
           /\ ~Excluded(g) => /\ g.ids = {d \in Pictured!Linked(a) : session[d] # {}}
                              /\ \E b \in BOOLEAN : g.picture = Pictured!Measured(Clean(a), b)
                              /\ \E b \in BOOLEAN : Same(Pictured!_summarize(g).picture, Pictured!Measured(Clean(a), b))
<1>. DEFINE ss == Pictured!SessionsOf(Pictured!Linked(a))
            read == IF Excluded(g) THEN <<>> ELSE Pictured!SessionsOf(g.ids)
            picture == IF Excluded(g) THEN Pictured!NoPicture ELSE Pictured!validated_group(g, read)
<1>1. Pictured!_summarize(g).picture = picture
 <2>1. Pictured!_summarize(g) = Pictured!Summary(Excluded(g), picture, read)
   BY Zenon DEF Pictured!_summarize, Excluded
 <2>. DEFINE label == IF Excluded(g) THEN "NOT APPLICABLE" ELSE Pictured!build_impact_label(picture)
             tiles == {m \in Pictured!measure_movements(Pictured!validated_sessions(read)) : m.drop >= TILE_BAND}
 <2>2. Pictured!_summarize(g) = [picture |-> picture, label |-> label, tiles |-> tiles]
   BY <2>1, Zenon DEF Pictured!Summary
 <2>. HIDE DEF picture, read, label, tiles
 <2>. QED BY <2>2
<1>2. Shows(g, versions[a], ss)
  BY Zenon DEF PictureInv
<1>3. /\ g.ids = DOMAIN (IF Excluded(g) THEN <<>> ELSE Clean(a))
      /\ g.picture = IF Excluded(g) THEN Pictured!NoPicture ELSE Pictured!Measured(Clean(a), DOMAIN Clean(a) # {})
 <2>. DEFINE objects == Pictured!_project_objects(versions[a])
             excluded == Pictured!exclusion_reason(objects, g.message)
             clean == IF excluded THEN <<>> ELSE Pictured!validated_sessions(ss)
 <2>1. /\ g.objects = objects /\ g.ids = DOMAIN clean
       /\ g.picture = IF excluded THEN Pictured!NoPicture ELSE Pictured!Measured(clean, DOMAIN clean # {})
   BY <1>2, Zenon DEF Shows
 <2>2. excluded = Excluded(g)
   BY <2>1, Zenon DEF Excluded
 <2>. HIDE DEF objects, excluded, ss
 <2>. QED BY <2>1, <2>2 DEF Clean, ss
<1>4. DOMAIN Clean(a) = {d \in Pictured!Linked(a) : session[d] # {}}
  BY DEF Clean, Pictured!validated_sessions, Pictured!SessionsOf
<1>5. ~Excluded(g) => read = ss
 <2>1. ASSUME ~Excluded(g) PROVE {d \in g.ids : session[d] # {}} = {d \in Pictured!Linked(a) : session[d] # {}}
   BY <1>3, <1>4, <2>1
 <2>. QED BY <2>1, Zenon DEF Pictured!SessionsOf
<1>6. ~Excluded(g) => picture = g.picture \/ picture = Pictured!Corrected(Clean(a))
  BY <1>5, Zenon DEF Pictured!validated_group, Clean
<1>7. (DOMAIN Clean(a) # {}) \in BOOLEAN
  OBVIOUS
<1>. HIDE DEF picture, read
<1>8. ASSUME ~Excluded(g)
      PROVE  \E b \in BOOLEAN : Same(picture, Pictured!Measured(Clean(a), b))
 <2>1. CASE picture = g.picture
  <3>1. \A p : Same(p, p)
    BY DEF Same
  <3>. QED BY <1>3, <1>7, <1>8, <2>1, <3>1
 <2>2. CASE picture = Pictured!Corrected(Clean(a))
   BY <2>2, CorrectedIsWording
 <2>. QED BY <1>6, <1>8, <2>1, <2>2
<1>9. Excluded(g) => picture = Pictured!NoPicture
  BY DEF picture
<1>. QED BY <1>1, <1>3, <1>4, <1>7, <1>8, <1>9

LEMMA ButTheWording ==
    ASSUME NEW e, NEW f, DOMAIN e = DOMAIN f, \A x \in DOMAIN e : x # "assessment" => e[x] = f[x]
    PROVE  [e EXCEPT !.assessment = ""] = [f EXCEPT !.assessment = ""]
  OBVIOUS

\* The window of the monitoring decides the assessment's wording only.
LEMMA WindowIsWording ==
    ASSUME NEW ss, NEW b, NEW c
    PROVE  /\ DOMAIN Pictured!Measured(ss, b) = DOMAIN Pictured!Measured(ss, c)
           /\ \A x \in DOMAIN Pictured!Measured(ss, b) :
                  x # "assessment" => Pictured!Measured(ss, b)[x] = Pictured!Measured(ss, c)[x]
           /\ Pictured!Measured(ss, b).severity = Pictured!Measured(ss, c).severity
           /\ Pictured!Measured(ss, b).recovery = Pictured!Measured(ss, c).recovery
<1>. DEFINE moved == Pictured!measure_movements(ss)
            worst == Pictured!worst_severity({ss[d].severity : d \in DOMAIN ss})
            recovery == Pictured!resolve_recovery_state(ss, moved)
            confidence == Pictured!resolve_baseline_confidence(ss)
            lower == \E d \in DOMAIN ss : ss[d].degraded
            sentence == Pictured!_impact_sentence(moved, recovery)
            word(w) == Pictured!build_assessment(moved, recovery, w)
            said(w) == [severity |-> worst, recovery |-> recovery, confidence |-> confidence, degraded |-> lower,
                        summary |-> sentence, assessment |-> w]
<1>1. Pictured!Measured(ss, b) = said(word(b)) /\ Pictured!Measured(ss, c) = said(word(c))
  BY Zenon DEF Pictured!Measured, Pictured!MeasuredFrom, Pictured!Picture
<1>. HIDE DEF word, moved, worst, recovery, confidence, lower, sentence
<1>2. ASSUME NEW w
      PROVE  /\ DOMAIN said(w) = {"severity", "recovery", "confidence", "degraded", "summary", "assessment"}
             /\ said(w).severity = worst /\ said(w).recovery = recovery /\ said(w).confidence = confidence
             /\ said(w).degraded = lower /\ said(w).summary = sentence
  OBVIOUS
<1>. HIDE DEF said
<1>. QED BY <1>1, <1>2

\* change_groups.py _rebuild_once, _summarize and validated_group: what a row shows
\* of a settled change is what its rebuild stored, but for the assessment.
THEOREM DisplayedIsRebuilt ==
    ASSUME Pictured!LevelsAssumption
    PROVE  Pictured!Spec => []Pictured!DisplayedIsRebuilt
<1>1. PictureInv => Pictured!DisplayedIsRebuilt
 <2>. SUFFICES ASSUME PictureInv, NEW a \in settled, NEW g \in group[a]
               PROVE  [Pictured!_summarize(g).picture EXCEPT !.assessment = ""] = [g.picture EXCEPT !.assessment = ""]
   BY Zenon DEF Pictured!DisplayedIsRebuilt
 <2>1. CASE Excluded(g)
   BY <2>1, PictureRead
 <2>2. CASE ~Excluded(g)
  <3>1. PICK b \in BOOLEAN : g.picture = Pictured!Measured(Clean(a), b)
    BY <2>2, PictureRead
  <3>2. PICK c \in BOOLEAN : Same(Pictured!_summarize(g).picture, Pictured!Measured(Clean(a), c))
    BY <2>2, PictureRead
  <3>3. /\ DOMAIN Pictured!_summarize(g).picture = DOMAIN g.picture
        /\ \A x \in DOMAIN Pictured!_summarize(g).picture :
               x # "assessment" => Pictured!_summarize(g).picture[x] = g.picture[x]
    BY <3>1, <3>2, WindowIsWording DEF Same
  <3>. QED BY <3>3, ButTheWording
 <2>. QED BY <2>1, <2>2
<1>. QED BY <1>1, PictureInit, PictureStep, PTL DEF Pictured!Spec

\* The database excludes what Python excludes.
LEMMA ExcludedAlike ==
    ASSUME NEW objects, objects # {}, NEW message, \A r \in objects : IsFiniteSet(r.fields)
    PROVE  Pictured!excluded_expression(objects) <=> Pictured!exclusion_reason(objects, message)
<1>1. ASSUME NEW r \in objects
      PROVE  Pictured!Cardinality(r.fields) > 0 <=> r.fields # {}
 <2>1. Pictured!Cardinality(r.fields) = Cardinality(r.fields)
   BY Zenon DEF Pictured!Cardinality, Cardinality
 <2>. QED BY <2>1, FS_CardinalityType, FS_EmptySet
<1>. QED BY <1>1 DEF Pictured!excluded_expression, Pictured!exclusion_reason, Pictured!object_exclusion

\* network_impact_policy.py and change_groups.py _build_criteria: the rows a severity
\* filter returns are the rows that show that severity.
THEOREM FilterIsTheRow ==
    ASSUME Pictured!LevelsAssumption
    PROVE  Pictured!Spec => []Pictured!FilterIsTheRow
<1>1. PictureInv => Pictured!FilterIsTheRow
 <2>. SUFFICES ASSUME PictureInv, NEW a \in settled, NEW g \in group[a], Pictured!confirmed_changes(g)
               PROVE  Pictured!FilterReturns(g, Pictured!_summarize(g).picture.severity)
   BY Zenon DEF Pictured!FilterIsTheRow
 <2>. DEFINE shown == Pictured!_summarize(g).picture.severity
 <2>1. Pictured!excluded_expression(g.objects) <=> Excluded(g)
  <3>1. g.objects = Pictured!_project_objects(versions[a])
    BY Zenon DEF PictureInv, Shows
  <3>2. \A r \in g.objects : IsFiniteSet(r.fields)
    BY <3>1, FieldsAreFinite DEF PictureInv, Pictured!_project_objects
  <3>. QED BY <3>2, ExcludedAlike DEF Excluded, Pictured!confirmed_changes
 <2>2. CASE Excluded(g)
  <3>1. shown = 0 /\ g.picture.severity = 0
   <4>1. Pictured!_summarize(g).picture = Pictured!NoPicture /\ g.picture = Pictured!NoPicture
     BY <2>2, PictureRead
   <4>. QED BY <4>1 DEF Pictured!NoPicture
  <3>. HIDE DEF shown
  <3>2. Pictured!FilterReturns(g, shown)
    BY <2>1, <2>2, <3>1 DEF Pictured!FilterReturns, Pictured!build_criteria, Pictured!Info, Pictured!Warning, Pictured!Critical
  <3>. QED BY <3>2 DEF shown
 <2>3. CASE ~Excluded(g)
  <3>1. shown = g.picture.severity
   <4>1. PICK b \in BOOLEAN : g.picture = Pictured!Measured(Clean(a), b)
     BY <2>3, PictureRead
   <4>2. PICK c \in BOOLEAN : Same(Pictured!_summarize(g).picture, Pictured!Measured(Clean(a), c))
     BY <2>3, PictureRead
   <4>3. Pictured!Measured(Clean(a), c).severity = Pictured!Measured(Clean(a), b).severity
     BY WindowIsWording, ZenonT(30)
   <4>. QED BY <4>1, <4>2, <4>3, Zenon DEF Same
  <3>. HIDE DEF shown
  <3>2. Pictured!FilterReturns(g, shown)
    BY <2>1, <2>3, <3>1 DEF Pictured!FilterReturns, Pictured!build_criteria, Pictured!Info, Pictured!Warning, Pictured!Critical
  <3>. QED BY <3>2 DEF shown
 <2>. QED BY <2>2, <2>3
<1>. QED BY <1>1, PictureInit, PictureStep, PTL DEF Pictured!Spec

\* What is read of a session keeps what it measured and whether it is over.
LEMMA ValidatedKeeps ==
    ASSUME NEW s, Pictured!SessionRow(s)
    PROVE  LET t == Pictured!validated_session(s)
           IN  /\ t.open = s.open /\ t.before = s.before /\ t.after = s.after
               /\ t.failed = s.failed \/ s.failed = "answered"
<1>. DEFINE u == Pictured!reconciled_session(s)
<1>1. Pictured!SessionRow(u) /\ u.open = s.open /\ u.before = s.before /\ u.after = s.after
      /\ (u.failed = s.failed \/ s.failed = "answered")
 <2>1. CASE s.failed = "answered"
  <3>. DEFINE v == [s EXCEPT !.failed = "resolved"]
  <3>1. Pictured!SessionRow(v) /\ v.open = s.open /\ v.before = s.before /\ v.after = s.after
    BY DEF Pictured!SessionRow, Pictured!SessionFields
  <3>. HIDE DEF v
  <3>2. u = Pictured!Stored(v)
    BY <2>1 DEF Pictured!reconciled_session, v
  <3>. QED BY <2>1, <3>1, <3>2, StoredRow
 <2>2. CASE s.failed # "answered"
   BY <2>2 DEF Pictured!reconciled_session
 <2>. QED BY <2>1, <2>2
<1>. HIDE DEF u
<1>. DEFINE w == Pictured!Stored(u)
<1>2. \E high : Pictured!validated_session(s) = u \/ Pictured!validated_session(s) = [w EXCEPT !.peak = high]
  BY DEF Pictured!validated_session, u
<1>3. Pictured!SessionRow(w) /\ w.open = u.open /\ w.before = u.before /\ w.after = u.after /\ w.failed = u.failed
  BY <1>1, StoredRow
<1>. HIDE DEF w
<1>4. ASSUME NEW high
      PROVE  LET t == [w EXCEPT !.peak = high]
             IN  t.open = w.open /\ t.before = w.before /\ t.after = w.after /\ t.failed = w.failed
  BY <1>3 DEF Pictured!SessionRow, Pictured!SessionFields
<1>. QED BY <1>1, <1>2, <1>3, <1>4, ZenonT(30)

LEMMA GreatestDrop ==
    ASSUME NEW S, S \subseteq -100 .. 100, S # {}
    PROVE  Pictured!Max(S) \in S /\ \A k \in S : k <= Pictured!Max(S)
<1>. DEFINE T == {x + 100 : x \in S}
<1>1. T \subseteq 0 .. 200 /\ T # {}
 <2>1. \A x \in S : x + 100 \in 0 .. 200
   OBVIOUS
 <2>. QED BY <2>1, ZenonT(30)
<1>2. PICK m \in T : \A k \in T : m >= k
 <2>. HIDE DEF T
 <2>1. 200 \in Nat
   OBVIOUS
 <2>. QED BY <1>1, <2>1, GreatestOf
<1>3. PICK x \in S : m = x + 100
  BY DEF T
<1>4. \A k \in S : x >= k
 <2>. SUFFICES ASSUME NEW k \in S PROVE x >= k
   OBVIOUS
 <2>1. k + 100 \in T
   BY DEF T
 <2>2. x \in Int /\ k \in Int
   OBVIOUS
 <2>. HIDE DEF T
 <2>3. m >= k + 100
   BY <1>2, <2>1
 <2>. QED BY <1>3, <2>2, <2>3
<1>. QED BY <1>4 DEF Pictured!Max

\* A drop of any device is within its family's movement.
LEMMA MovementBounds ==
    ASSUME NEW ss, \A x \in DOMAIN ss : ss[x].before \subseteq Pictured!Levels /\ ss[x].after \in Seq(Pictured!Levels),
           NEW d \in DOMAIN ss, Scope[d] \in {"site", "device"},
           NEW r \in Pictured!Latest(ss[d]), NEW drop \in Pictured!Drops(ss[d], r)
    PROVE  \E m \in Pictured!measure_movements(ss) : m.drop \in Int /\ drop <= m.drop
<1>. DEFINE family == Scope[d]
            id == Pictured!ScopeId(ss, d)
            ids == {i \in {Pictured!ScopeId(ss, x) : x \in DOMAIN ss} : Pictured!_pairs(ss, family, i) # {}}
            drops == [i \in ids |-> Pictured!_pairs(ss, family, i)]
            all == UNION Pictured!Range(drops)
            m == Pictured!_movement(family, drops)
<1>1. drop \in Pictured!_pairs(ss, family, id)
  BY DEF Pictured!_pairs
<1>2. \A i : Pictured!_pairs(ss, family, i) \subseteq -100 .. 100
 <2>1. ASSUME NEW x \in DOMAIN ss, NEW q \in Pictured!Latest(ss[x]), NEW k \in Pictured!Drops(ss[x], q)
       PROVE  k \in -100 .. 100
  <3>1. ss[x].after \in Seq(Pictured!Levels) /\ ss[x].before \subseteq Pictured!Levels
    OBVIOUS
  <3>2. q \in Pictured!Levels
   <4>. DEFINE after == ss[x].after
   <4>1. after \in Seq(Pictured!Levels) /\ after # <<>> /\ q = after[Len(after)]
     BY <3>1 DEF Pictured!Latest
   <4>. HIDE DEF after
   <4>. QED BY <4>1
  <3>3. PICK b \in ss[x].before : k = b - q
    BY DEF Pictured!Drops
  <3>4. b \in 0 .. 100 /\ q \in 0 .. 100
    BY <3>1, <3>2 DEF Pictured!Levels
  <3>. QED BY <3>3, <3>4
 <2>2. ASSUME NEW i, NEW k \in Pictured!_pairs(ss, family, i)
       PROVE  k \in -100 .. 100
  <3>1. PICK x \in DOMAIN ss : k \in UNION {Pictured!Drops(ss[x], q) : q \in Pictured!Latest(ss[x])}
    BY Zenon DEF Pictured!_pairs
  <3>. QED BY <2>1, <3>1
 <2>. QED BY <2>2
<1>3. m \in Pictured!measure_movements(ss)
 <2>1. family \in {f \in {"site", "device"} :
                       \E x \in DOMAIN ss : Pictured!_pairs(ss, f, Pictured!ScopeId(ss, x)) # {}}
   BY <1>1
 <2>2. \A f \in {f \in {"site", "device"} :
                      \E x \in DOMAIN ss : Pictured!_pairs(ss, f, Pictured!ScopeId(ss, x)) # {}} :
           Pictured!_movement(f, [i \in {i \in {Pictured!ScopeId(ss, x) : x \in DOMAIN ss} :
                                             Pictured!_pairs(ss, f, i) # {}} |-> Pictured!_pairs(ss, f, i)])
             \in Pictured!measure_movements(ss)
   BY Zenon DEF Pictured!measure_movements
 <2>. QED BY <2>1, <2>2
<1>4. m.drop = Pictured!Max(all)
  BY DEF Pictured!_movement
<1>5. all \subseteq -100 .. 100 /\ drop \in all
 <2>1. id \in ids
   BY <1>1
 <2>. HIDE DEF id, ids
 <2>. QED BY <1>1, <1>2, <2>1 DEF Pictured!Range
<1>. HIDE DEF m, all
<1>6. Pictured!Max(all) \in all /\ drop <= Pictured!Max(all)
  BY <1>5, GreatestDrop
<1>7. Pictured!Max(all) \in Int
 <2>1. Pictured!Max(all) \in -100 .. 100
   BY <1>5, <1>6, Zenon
 <2>2. \A k \in -100 .. 100 : k \in Int
   OBVIOUS
 <2>. QED BY <2>1, <2>2, Zenon
<1>8. m.drop \in Int /\ drop <= m.drop
  BY <1>4, <1>6, <1>7, Zenon
<1>. QED BY <1>3, <1>8

\* change_groups.py resolve_recovery_state and build_impact_label: a settled change
\* shown as recovered has no session that goes on, no failure that is open and no
\* latest reading below the band, on any of its devices.
THEOREM RecoveredIsUp ==
    ASSUME Pictured!LevelsAssumption
    PROVE  Pictured!Spec => []Pictured!RecoveredIsUp
<1>1. PictureInv => Pictured!RecoveredIsUp
 <2>. SUFFICES ASSUME PictureInv, NEW a \in settled, NEW g \in group[a], Pictured!_summarize(g).label = "RECOVERED",
                      NEW d \in g.ids, NEW s \in session[d]
               PROVE  /\ ~s.open /\ s.failed # "open"
                      /\ \A r \in Pictured!Latest(s) : \A drop \in Pictured!Drops(s, r) : drop < TILE_BAND
   BY Zenon DEF Pictured!RecoveredIsUp
 <2>. DEFINE picture == Pictured!_summarize(g).picture
             clean == Clean(a)
             moved == Pictured!measure_movements(clean)
 <2>1. ~Excluded(g) /\ picture.recovery = "recovered"
  <3>. DEFINE read == IF Excluded(g) THEN <<>> ELSE Pictured!SessionsOf(g.ids)
              p == IF Excluded(g) THEN Pictured!NoPicture ELSE Pictured!validated_group(g, read)
              label == IF Excluded(g) THEN "NOT APPLICABLE" ELSE Pictured!build_impact_label(p)
              tiles == {m \in Pictured!measure_movements(Pictured!validated_sessions(read)) : m.drop >= TILE_BAND}
  <3>1. Pictured!_summarize(g) = [picture |-> p, label |-> label, tiles |-> tiles]
    BY Zenon DEF Pictured!_summarize, Pictured!Summary, Excluded
  <3>. HIDE DEF p, tiles, read, label
  <3>2. p = picture /\ label = "RECOVERED"
    BY <3>1
  <3>. HIDE DEF picture
  <3>. QED BY <3>2 DEF Pictured!build_impact_label, label
 <2>2. picture.recovery = Pictured!resolve_recovery_state(clean, moved)
  <3>1. PICK b \in BOOLEAN : Same(picture, Pictured!Measured(clean, b))
    BY <2>1, PictureRead
  <3>. HIDE DEF picture, clean, moved
  <3>2. Pictured!Measured(clean, b).recovery = Pictured!resolve_recovery_state(clean, moved)
    BY DEF Pictured!Measured, Pictured!MeasuredFrom, Pictured!Picture, moved
  <3>. QED BY <3>1, <3>2 DEF Same
 <2>3. /\ \A x \in DOMAIN clean : ~clean[x].open /\ clean[x].failed \notin {"open", "answered"}
       /\ \A m \in moved : ~(m.drop >= TILE_BAND)
  <3>. HIDE DEF picture, clean, moved
  <3>. QED BY <2>1, <2>2 DEF Pictured!resolve_recovery_state
 <2>4. /\ DOMAIN clean = g.ids /\ g.ids = {x \in Pictured!Linked(a) : session[x] # {}} /\ g.ids \subseteq Devices
       /\ \A x \in g.ids : clean[x] = Pictured!validated_session(Plain(session[x]))
  <3>1. g.ids = {x \in Pictured!Linked(a) : session[x] # {}}
    BY <2>1, PictureRead
  <3>. QED BY <3>1 DEF Clean, Pictured!validated_sessions, Pictured!SessionsOf, Plain, Pictured!Linked
 <2>5. ASSUME NEW x \in g.ids
       PROVE  \E t : /\ session[x] = {t} /\ Pictured!SessionRow(t)
                     /\ clean[x].open = t.open /\ clean[x].before = t.before /\ clean[x].after = t.after
                     /\ clean[x].failed = t.failed \/ t.failed = "answered"
  <3>1. PICK t : session[x] = {t} /\ Pictured!SessionRow(t)
    BY <2>4 DEF PictureInv
  <3>2. (CHOOSE y \in {t} : TRUE) = t
    OBVIOUS
  <3>3. Plain(session[x]) = [t EXCEPT !.audits = {}]
    BY <3>1, <3>2, Zenon DEF Plain
  <3>. DEFINE q == [t EXCEPT !.audits = {}]
  <3>4. Pictured!SessionRow(q) /\ q.open = t.open /\ q.before = t.before /\ q.after = t.after /\ q.failed = t.failed
    BY <3>1 DEF Pictured!SessionRow, Pictured!SessionFields
  <3>. HIDE DEF q
  <3>5. clean[x] = Pictured!validated_session(q)
    BY <2>4, <3>3, Zenon DEF q
  <3>. QED BY <3>1, <3>4, <3>5, ValidatedKeeps
 <2>6. /\ clean[d].open = s.open /\ clean[d].before = s.before /\ clean[d].after = s.after
       /\ clean[d].failed = s.failed \/ s.failed = "answered"
   BY <2>5
 <2>7. ASSUME NEW r \in Pictured!Latest(s), NEW drop \in Pictured!Drops(s, r)
       PROVE  drop < TILE_BAND
  <3>1. r \in Pictured!Latest(clean[d]) /\ drop \in Pictured!Drops(clean[d], r)
    BY <2>6, <2>7 DEF Pictured!Latest, Pictured!Drops, Pictured!Usable
  <3>2. \A x \in DOMAIN clean : clean[x].before \subseteq Pictured!Levels /\ clean[x].after \in Seq(Pictured!Levels)
    BY <2>4, <2>5 DEF Pictured!SessionRow
  <3>3. Scope[d] \in {"site", "device"} /\ TILE_BAND \in Int
    BY <2>4 DEF Pictured!LevelsAssumption
  <3>. HIDE DEF clean
  <3>4. PICK m \in Pictured!measure_movements(clean) : m.drop \in Int /\ drop <= m.drop
    BY <2>4, <3>1, <3>2, <3>3, MovementBounds
  <3>5. drop \in Int
   <4>1. s.before \subseteq Pictured!Levels /\ s.after \in Seq(Pictured!Levels)
     BY <2>5 DEF Pictured!SessionRow
   <4>2. r \in Pictured!Levels
     BY <2>7, <4>1 DEF Pictured!Latest
   <4>3. PICK b \in s.before : drop = b - r
     BY <2>7 DEF Pictured!Drops
   <4>4. b \in 0 .. 100 /\ r \in 0 .. 100
     BY <4>1, <4>2 DEF Pictured!Levels
   <4>. QED BY <4>3, <4>4
  <3>. QED BY <2>3, <3>3, <3>4, <3>5
 <2>8. ~s.open /\ s.failed # "open"
   BY <2>3, <2>4, <2>6
 <2>. QED BY <2>7, <2>8
<1>. QED BY <1>1, PictureInit, PictureStep, PTL DEF Pictured!Spec

\* What the Guardian loads of an audit (AuditChanges).
CONSTANTS Configurations, MAX_AUDIT_VERSIONS, MaxVersions
VARIABLES gone

Audited == INSTANCE AuditChanges

\* Finitely many objects, numbered in the order of their ids; the cap is a number.
LEMMA AuditedAreFinite == ASSUME Audited!AuditAssumption PROVE IsFiniteSet(Objects)
  BY Zenon DEF Audited!AuditAssumption, Audited!IsFiniteSet, IsFiniteSet

AuditVersion ==
    [audit : Audits, configuration : Configurations, is_deleted : BOOLEAN, incarnation : Nat,
     changed_fields : SUBSET UNION {DOMAIN c : c \in Configurations}]

\* Only what is live is deleted, as it stood, and a change of what is live records
\* the attributes in which it differs from the version before.
Chained(h) ==
    \A v \in DOMAIN h :
        /\ v = 1 \/ h[v - 1].is_deleted => ~h[v].is_deleted
        /\ v # 1 /\ ~h[v - 1].is_deleted =>
               IF h[v].is_deleted THEN h[v].configuration = h[v - 1].configuration
               ELSE h[v].changed_fields = Audited!Differ(h[v - 1].configuration, h[v].configuration)

AuditInv == history \in [Objects -> Seq(AuditVersion)] /\ \A o \in Objects : Chained(history[o])

LEMMA AuditInit == Audited!Init => AuditInv
<1>. SUFFICES ASSUME Audited!Init PROVE AuditInv
  OBVIOUS
<1>1. history = [o \in Objects |-> <<>>]
  BY DEF Audited!Init
<1>. QED BY <1>1 DEF AuditInv, Chained

LEMMA AppendChained ==
    ASSUME NEW h \in Seq(AuditVersion), Chained(h), NEW x \in AuditVersion,
           h = <<>> \/ h[Len(h)].is_deleted => ~x.is_deleted,
           h # <<>> /\ ~h[Len(h)].is_deleted =>
               IF x.is_deleted THEN x.configuration = h[Len(h)].configuration
               ELSE x.changed_fields = Audited!Differ(h[Len(h)].configuration, x.configuration)
    PROVE  Append(h, x) \in Seq(AuditVersion) /\ Chained(Append(h, x))
<1>. DEFINE g == Append(h, x)
<1>1. /\ g \in Seq(AuditVersion) /\ DOMAIN g = 1 .. Len(h) + 1 /\ DOMAIN h = 1 .. Len(h) /\ Len(h) \in Nat
      /\ \A v \in 1 .. Len(h) : g[v] = h[v]
      /\ g[Len(h) + 1] = x
  OBVIOUS
<1>. HIDE DEF g
<1>2. ASSUME NEW v \in DOMAIN g
      PROVE  /\ v = 1 \/ g[v - 1].is_deleted => ~g[v].is_deleted
             /\ v # 1 /\ ~g[v - 1].is_deleted =>
                    IF g[v].is_deleted THEN g[v].configuration = g[v - 1].configuration
                    ELSE g[v].changed_fields = Audited!Differ(g[v - 1].configuration, g[v].configuration)
 <2>1. CASE v \in 1 .. Len(h)
  <3>1. v = 1 \/ v - 1 \in 1 .. Len(h)
    BY <2>1
  <3>2. g[v] = h[v] /\ (v = 1 \/ g[v - 1] = h[v - 1])
    BY <1>1, <2>1, <3>1
  <3>. QED BY <1>1, <2>1, <3>2 DEF Chained
 <2>2. CASE v = Len(h) + 1
  <3>1. g[v] = x /\ (v = 1 <=> h = <<>>) /\ (v # 1 => v - 1 = Len(h) /\ g[v - 1] = h[Len(h)])
    BY <1>1, <2>2
  <3>. QED BY <3>1
 <2>. QED BY <1>1, <2>1, <2>2
<1>. QED BY <1>1, <1>2 DEF Chained, g

LEMMA AuditStep == AuditInv /\ [Audited!Next]_(Audited!vars) => AuditInv'
<1>. SUFFICES ASSUME AuditInv, [Audited!Next]_(Audited!vars) PROVE AuditInv'
  OBVIOUS
<1>. DEFINE Keeps(x, o) ==
         /\ x \in AuditVersion
         /\ history[o] = <<>> \/ history[o][Len(history[o])].is_deleted => ~x.is_deleted
         /\ history[o] # <<>> /\ ~history[o][Len(history[o])].is_deleted =>
                IF x.is_deleted THEN x.configuration = history[o][Len(history[o])].configuration
                ELSE x.changed_fields = Audited!Differ(history[o][Len(history[o])].configuration, x.configuration)
<1>1. ASSUME NEW o \in Objects, NEW x, Keeps(x, o), Audited!Record(o, x)
      PROVE  AuditInv'
 <2>1. history' = [history EXCEPT ![o] = Append(history[o], x)]
   BY <1>1 DEF Audited!Record
 <2>2. Append(history[o], x) \in Seq(AuditVersion) /\ Chained(Append(history[o], x))
   BY <1>1, AppendChained DEF AuditInv
 <2>3. history' \in [Objects -> Seq(AuditVersion)]
   BY <2>1, <2>2 DEF AuditInv
 <2>4. \A p \in Objects : history'[p] = history[p] \/ history'[p] = Append(history[o], x)
   BY <2>1 DEF AuditInv
 <2>5. \A p \in Objects : Chained(history'[p])
   BY <2>2, <2>4 DEF AuditInv
 <2>. QED BY <2>3, <2>5 DEF AuditInv, Chained, Audited!Differ
<1>2. CASE UNCHANGED Audited!vars
  BY <1>2 DEF AuditInv, Chained, Audited!vars, Audited!Differ
<1>3. ASSUME NEW o \in Objects, NEW a \in Audits, Audited!Capture(o, a)
      PROVE  AuditInv'
 <2>1. PICK c \in Configurations :
           IF Audited!Live(o)
           THEN Audited!Record(o, Audited!Version(a, c, FALSE, Audited!Latest(o).incarnation,
                                                  Audited!Differ(Audited!Latest(o).configuration, c)))
           ELSE Audited!Record(o, Audited!Version(a, c, FALSE, Len(history[o]) + 1, {}))
   BY <1>3, Zenon DEF Audited!Capture
 <2>2. history[o] \in Seq(AuditVersion) /\ Len(history[o]) \in Nat
   BY DEF AuditInv
 <2>3. CASE Audited!Live(o)
  <3>. DEFINE last == history[o][Len(history[o])]
              fields == Audited!Differ(last.configuration, c)
              x == [audit |-> a, configuration |-> c, is_deleted |-> FALSE, incarnation |-> last.incarnation,
                    changed_fields |-> fields]
  <3>1. Audited!Record(o, x)
    BY <2>1, <2>3, Zenon DEF Audited!Version, Audited!Latest
  <3>2. history[o] # <<>> /\ ~last.is_deleted /\ last \in AuditVersion
    BY <2>2, <2>3 DEF Audited!Live, Audited!Latest
  <3>3. fields \subseteq UNION {DOMAIN d : d \in Configurations}
    BY <3>2 DEF Audited!Differ, AuditVersion
  <3>. HIDE DEF fields
  <3>4. x \in AuditVersion
    BY <3>2, <3>3 DEF AuditVersion
  <3>5. ~x.is_deleted /\ x.changed_fields = Audited!Differ(last.configuration, x.configuration)
    BY DEF fields
  <3>. HIDE DEF x
  <3>. QED BY <1>1, <3>1, <3>2, <3>4, <3>5
 <2>4. CASE ~Audited!Live(o)
  <3>. DEFINE x == [audit |-> a, configuration |-> c, is_deleted |-> FALSE,
                    incarnation |-> Len(history[o]) + 1, changed_fields |-> {}]
  <3>1. Audited!Record(o, x)
    BY <2>1, <2>4, Zenon DEF Audited!Version
  <3>2. history[o] = <<>> \/ history[o][Len(history[o])].is_deleted
    BY <2>4 DEF Audited!Live, Audited!Latest
  <3>3. x \in AuditVersion /\ ~x.is_deleted
    BY <2>2 DEF AuditVersion
  <3>. HIDE DEF x
  <3>. QED BY <1>1, <3>1, <3>2, <3>3
 <2>. QED BY <2>3, <2>4
<1>4. ASSUME NEW o \in Objects, NEW a \in Audits, Audited!Delete(o, a)
      PROVE  AuditInv'
 <2>. DEFINE last == history[o][Len(history[o])]
             x == [audit |-> a, configuration |-> last.configuration, is_deleted |-> TRUE,
                   incarnation |-> last.incarnation, changed_fields |-> {}]
 <2>1. Audited!Live(o) /\ Audited!Record(o, x)
   BY <1>4, Zenon DEF Audited!Delete, Audited!Version, Audited!Latest
 <2>2. history[o] \in Seq(AuditVersion) /\ history[o] # <<>> /\ ~last.is_deleted
   BY <2>1 DEF AuditInv, Audited!Live, Audited!Latest
 <2>3. last \in AuditVersion
   BY <2>2
 <2>4. x \in AuditVersion /\ x.is_deleted /\ x.configuration = last.configuration
   BY <2>3 DEF AuditVersion
 <2>. HIDE DEF x
 <2>. QED BY <1>1, <2>1, <2>2, <2>4
<1>. QED BY <1>2, <1>3, <1>4 DEF Audited!Next

\* In a finite set in which things precede each other, each of two has the fewer
\* before it, and every number less than how many there are is of one.
LEMMA FewerBefore ==
    ASSUME NEW S, IsFiniteSet(S), NEW R, NEW x \in S, NEW y \in S,
           \A a, b, c \in S : <<a, b>> \in R /\ <<b, c>> \in R => <<a, c>> \in R,
           <<x, y>> \in R, <<x, x>> \notin R
    PROVE  Cardinality({z \in S : <<z, x>> \in R}) < Cardinality({z \in S : <<z, y>> \in R})
<1>. DEFINE A == {z \in S : <<z, x>> \in R}
            B == {z \in S : <<z, y>> \in R}
<1>1. A \subseteq B /\ x \in B /\ x \notin A /\ B \subseteq S
  OBVIOUS
<1>. HIDE DEF A, B
<1>2. IsFiniteSet(B)
  BY <1>1, FS_Subset
<1>3. IsFiniteSet(A) /\ Cardinality(A) <= Cardinality(B) /\ (Cardinality(B) = Cardinality(A) => A = B)
  BY <1>1, <1>2, FS_Subset
<1>4. Cardinality(A) \in Nat /\ Cardinality(B) \in Nat
  BY <1>2, <1>3, FS_CardinalityType
<1>. QED BY <1>1, <1>3, <1>4 DEF A, B

LEMMA EveryPlace ==
    ASSUME NEW S, IsFiniteSet(S), NEW R,
           \A a \in S : <<a, a>> \notin R,
           \A a, b, c \in S : <<a, b>> \in R /\ <<b, c>> \in R => <<a, c>> \in R,
           \A a, b \in S : a = b \/ <<a, b>> \in R \/ <<b, a>> \in R,
           NEW k \in Nat, k < Cardinality(S)
    PROVE  \E r \in S : Cardinality({z \in S : <<z, r>> \in R}) = k
<1>. DEFINE before(r) == Cardinality({z \in S : <<z, r>> \in R})
            n == Cardinality(S)
            T == 0 .. n - 1
            f == [r \in S |-> before(r)]
<1>1. n \in Nat
  BY FS_CardinalityType
<1>2. IsFiniteSet(T) /\ Cardinality(T) = n
 <2>. HIDE DEF n
 <2>1. 0 \in Int /\ n - 1 \in Int
   BY <1>1
 <2>. QED BY <1>1, <2>1, FS_Interval
<1>3. ASSUME NEW r \in S
      PROVE  before(r) \in T
 <2>. DEFINE B == {z \in S : <<z, r>> \in R}
 <2>1. B \subseteq S /\ r \notin B
   OBVIOUS
 <2>. HIDE DEF B
 <2>2. IsFiniteSet(B) /\ Cardinality(B) <= n /\ (n = Cardinality(B) => S = B)
   BY <2>1, FS_Subset
 <2>3. Cardinality(B) \in Nat
   BY <2>2, FS_CardinalityType
 <2>. HIDE DEF n
 <2>4. Cardinality(B) \in 0 .. n - 1
   BY <1>1, <2>1, <2>2, <2>3
 <2>. QED BY <2>4 DEF B
<1>4. ASSUME NEW a \in S, NEW b \in S, before(a) = before(b)
      PROVE  a = b
 <2>1. before(a) \in T /\ before(b) \in T
   BY <1>3
 <2>2. CASE <<a, b>> \in R
  <3>1. before(a) < before(b)
   <4>. HIDE DEF n, T, f
   <4>1. <<a, a>> \notin R
     OBVIOUS
   <4>2. Cardinality({z \in S : <<z, a>> \in R}) < Cardinality({z \in S : <<z, b>> \in R})
     BY <2>2, <4>1, FewerBefore
   <4>. QED BY <4>2
  <3>. HIDE DEF before, n
  <3>. QED BY <1>1, <1>4, <2>1, <3>1
 <2>3. CASE <<b, a>> \in R
  <3>1. before(b) < before(a)
   <4>. HIDE DEF n, T, f
   <4>1. <<b, b>> \notin R
     OBVIOUS
   <4>2. Cardinality({z \in S : <<z, b>> \in R}) < Cardinality({z \in S : <<z, a>> \in R})
     BY <2>3, <4>1, FewerBefore
   <4>. QED BY <4>2
  <3>. HIDE DEF before, n
  <3>. QED BY <1>1, <1>4, <2>1, <3>1
 <2>. QED BY <2>2, <2>3
<1>. HIDE DEF before, T
<1>5. f \in Injection(S, T)
  BY <1>3, <1>4 DEF Injection, IsInjective
<1>6. f \in Surjection(S, T)
  BY <1>2, <1>5, FS_Injection
<1>7. k \in T
  BY <1>1 DEF T
<1>8. PICK r \in S : f[r] = k
  BY <1>6, <1>7 DEF Surjection
<1>. QED BY <1>8 DEF before

LEMMA CountsAlike == \A S : Audited!Cardinality(S) = Cardinality(S)
  BY Zenon DEF Audited!Cardinality, Cardinality

LEMMA RowsOf ==
    ASSUME Audited!AuditAssumption, AuditInv
    PROVE  /\ \A r : r \in Audited!Rows <=> \E o \in Objects : \E v \in Audited!Own(o) : r = <<o, v>>
           /\ \A o \in Objects : Audited!Own(o) \subseteq DOMAIN history[o] /\ DOMAIN history[o] = 1 .. Len(history[o])
                                 /\ Len(history[o]) \in Nat
           /\ IsFiniteSet(Audited!Rows)
<1>1. \A o \in Objects : Audited!Own(o) \subseteq DOMAIN history[o] /\ DOMAIN history[o] = 1 .. Len(history[o])
                         /\ Len(history[o]) \in Nat
  BY DEF AuditInv, Audited!Own
<1>. DEFINE of(o) == {o} \X Audited!Own(o)
            all == {of(o) : o \in Objects}
<1>2. Audited!Rows = UNION all
  BY Zenon DEF Audited!Rows, Audited!Own
<1>3. \A T \in all : IsFiniteSet(T)
 <2>1. ASSUME NEW o \in Objects
       PROVE  IsFiniteSet(of(o))
  <3>1. IsFiniteSet(1 .. Len(history[o]))
   <4>1. 1 \in Int /\ Len(history[o]) \in Int
     BY <1>1
   <4>. QED BY <4>1, FS_Interval
  <3>2. IsFiniteSet(Audited!Own(o))
    BY <1>1, <3>1, FS_Subset
  <3>. QED BY <3>2, FS_Singleton, FS_Product
 <2>. HIDE DEF of
 <2>. QED BY <2>1
<1>4. IsFiniteSet(all)
 <2>. HIDE DEF of
 <2>. DEFINE f == [o \in Objects |-> of(o)]
 <2>1. f \in Surjection(Objects, all)
   BY DEF Surjection
 <2>. QED BY <2>1, AuditedAreFinite, FS_Surjection
<1>5. IsFiniteSet(UNION all)
  BY <1>3, <1>4, FS_UNION
<1>6. \A r : r \in UNION all <=> \E o \in Objects : \E v \in Audited!Own(o) : r = <<o, v>>
  OBVIOUS
<1>. QED BY <1>1, <1>2, <1>5, <1>6

\* The rows are in the order of their objects, and of one object of its versions.
LEMMA RowsInOrder ==
    ASSUME Audited!AuditAssumption, AuditInv
    PROVE  LET before == {p \in Audited!Rows \X Audited!Rows : Audited!Precedes(p[1], p[2])}
           IN  /\ \A a \in Audited!Rows : <<a, a>> \notin before
               /\ \A a, b, c \in Audited!Rows : <<a, b>> \in before /\ <<b, c>> \in before => <<a, c>> \in before
               /\ \A a, b \in Audited!Rows : a = b \/ <<a, b>> \in before \/ <<b, a>> \in before
               /\ \A a, b \in Audited!Rows : <<a, b>> \in before <=> Audited!Precedes(a, b)
               /\ \A r \in Audited!Rows :
                      Audited!Place(r) = Cardinality({x \in Audited!Rows : <<x, r>> \in before})
<1>. DEFINE before == {p \in Audited!Rows \X Audited!Rows : Audited!Precedes(p[1], p[2])}
<1>1. \A a, b \in Audited!Rows : <<a, b>> \in before <=> Audited!Precedes(a, b)
  OBVIOUS
<1>2. \A a \in Audited!Rows : a = <<a[1], a[2]>> /\ a[1] \in Int /\ a[2] \in Int
  BY RowsOf DEF Audited!AuditAssumption
<1>. HIDE DEF before
<1>3. \A a \in Audited!Rows : <<a, a>> \notin before
  BY <1>1, <1>2 DEF Audited!Precedes
<1>4. ASSUME NEW a \in Audited!Rows, NEW b \in Audited!Rows, NEW c \in Audited!Rows,
             <<a, b>> \in before, <<b, c>> \in before
      PROVE  <<a, c>> \in before
 <2>1. Audited!Precedes(a, b) /\ Audited!Precedes(b, c)
   BY <1>1, <1>4
 <2>2. Audited!Precedes(a, c)
   BY <1>2, <2>1 DEF Audited!Precedes
 <2>. QED BY <1>1, <2>2
<1>5. ASSUME NEW a \in Audited!Rows, NEW b \in Audited!Rows
      PROVE  a = b \/ <<a, b>> \in before \/ <<b, a>> \in before
 <2>1. a = b \/ Audited!Precedes(a, b) \/ Audited!Precedes(b, a)
   BY <1>2 DEF Audited!Precedes
 <2>. QED BY <1>1, <2>1
<1>6. ASSUME NEW r \in Audited!Rows
      PROVE  Audited!Place(r) = Cardinality({x \in Audited!Rows : <<x, r>> \in before})
 <2>1. {x \in Audited!Rows : <<x, r>> \in before} = {x \in Audited!Rows : Audited!Precedes(x, r)}
   BY <1>1
 <2>. QED BY <2>1, CountsAlike, Zenon DEF Audited!Place
<1>. QED BY <1>1, <1>3, <1>4, <1>5, <1>6 DEF before

\* What is loaded of an object is all that the audit wrote of it, or nothing.
LEMMA LoadedWhole ==
    ASSUME Audited!AuditAssumption, AuditInv, NEW o \in Objects
    PROVE  /\ Audited!Spans(o) # {} => Audited!Spans(o) = Audited!Own(o)
           /\ Audited!Own(o) # {} /\ Audited!Spans(o) = {} => Audited!Capped
<1>. DEFINE rows == Audited!Rows
            before == {p \in rows \X rows : Audited!Precedes(p[1], p[2])}
            over == CHOOSE r \in rows : Audited!Place(r) = MAX_AUDIT_VERSIONS
            n == Cardinality(rows)
<1>1. /\ \A a \in rows : <<a, a>> \notin before
      /\ \A a, b, c \in rows : <<a, b>> \in before /\ <<b, c>> \in before => <<a, c>> \in before
      /\ \A a, b \in rows : a = b \/ <<a, b>> \in before \/ <<b, a>> \in before
      /\ \A a, b \in rows : <<a, b>> \in before <=> Audited!Precedes(a, b)
      /\ \A r \in rows : Audited!Place(r) = Cardinality({x \in rows : <<x, r>> \in before})
  BY RowsInOrder
<1>2. /\ IsFiniteSet(rows)
      /\ \A r : r \in rows <=> \E p \in Objects : \E v \in Audited!Own(p) : r = <<p, v>>
  BY RowsOf
<1>3. Audited!Spans(o) = {v \in Audited!Own(o) : <<o, v>> \in Audited!_audit_versions}
 <2>1. Audited!_audit_versions \subseteq rows
   BY DEF Audited!_audit_versions
 <2>2. \A r \in Audited!_audit_versions : r[1] = o => r = <<o, r[2]>> /\ r[2] \in Audited!Own(o)
   BY <1>2, <2>1
 <2>. QED BY <2>2 DEF Audited!Spans
<1>4. CASE ~Audited!Capped
 <2>1. \A v \in Audited!Own(o) : <<o, v>> \in Audited!_audit_versions
   BY <1>2, <1>4 DEF Audited!_audit_versions
 <2>. QED BY <1>3, <2>1
<1>5. CASE Audited!Capped
 <2>1. n \in Nat /\ MAX_AUDIT_VERSIONS < n /\ MAX_AUDIT_VERSIONS \in Nat
   BY <1>2, <1>5, CountsAlike, FS_CardinalityType DEF Audited!Capped, Audited!AuditAssumption
 <2>2. \E r \in rows : Cardinality({x \in rows : <<x, r>> \in before}) = MAX_AUDIT_VERSIONS
  <3>. HIDE DEF before, rows
  <3>. QED BY <1>1, <1>2, <2>1, EveryPlace DEF n
 <2>3. over \in rows /\ Audited!Place(over) = MAX_AUDIT_VERSIONS
  <3>. HIDE DEF before
  <3>1. \E r \in rows : Audited!Place(r) = MAX_AUDIT_VERSIONS
    BY <1>1, <2>2
  <3>. QED BY <3>1
 <2>4. Audited!_audit_versions = {r \in rows : Audited!Place(r) < MAX_AUDIT_VERSIONS /\ r[1] # over[1]}
   BY <1>5, Zenon DEF Audited!_audit_versions
 <2>. HIDE DEF over, before, rows, n
 <2>5. ASSUME NEW a \in rows, NEW b \in rows, Audited!Precedes(a, b)
       PROVE  Audited!Place(a) < Audited!Place(b)
  <3>1. <<a, b>> \in before /\ <<a, a>> \notin before
    BY <1>1, <2>5
  <3>2. Cardinality({z \in rows : <<z, a>> \in before}) < Cardinality({z \in rows : <<z, b>> \in before})
    BY <1>1, <1>2, <3>1, FewerBefore
  <3>. QED BY <1>1, <3>2
 <2>6. \A r \in rows : Audited!Place(r) \in Nat
  <3>1. ASSUME NEW r \in rows
        PROVE  Audited!Place(r) \in Nat
   <4>. DEFINE B == {x \in rows : <<x, r>> \in before}
   <4>1. B \subseteq rows
     OBVIOUS
   <4>. HIDE DEF B
   <4>2. IsFiniteSet(B)
     BY <1>2, <4>1, FS_Subset
   <4>3. Cardinality(B) \in Nat
     BY <4>2, FS_CardinalityType
   <4>. QED BY <1>1, <4>3 DEF B
  <3>. QED BY <3>1
 <2>7. ASSUME NEW v \in Audited!Own(o), <<o, v>> \in Audited!_audit_versions, NEW w \in Audited!Own(o)
       PROVE  <<o, w>> \in Audited!_audit_versions
  <3>1. <<o, v>> \in rows /\ <<o, w>> \in rows /\ Audited!Place(<<o, v>>) < MAX_AUDIT_VERSIONS /\ o # over[1]
    BY <1>2, <2>4, <2>7
  <3>2. o \in Int /\ over[1] \in Int
    BY <1>2, <2>3 DEF Audited!AuditAssumption
  <3>3. ~Audited!Precedes(over, <<o, v>>)
    BY <2>3, <2>5, <2>6, <3>1
  <3>4. o < over[1]
    BY <3>1, <3>2, <3>3 DEF Audited!Precedes
  <3>5. Audited!Precedes(<<o, w>>, over)
    BY <3>4 DEF Audited!Precedes
  <3>6. Audited!Place(<<o, w>>) < MAX_AUDIT_VERSIONS
    BY <2>3, <2>5, <3>1, <3>5
  <3>. QED BY <2>4, <3>1, <3>6
 <2>. QED BY <1>3, <1>5, <2>7
<1>. QED BY <1>4, <1>5

LEMMA OwnEnds ==
    ASSUME Audited!AuditAssumption, AuditInv, NEW o \in Objects, Audited!Own(o) # {}
    PROVE  /\ Audited!Min(Audited!Own(o)) \in Audited!Own(o) /\ Audited!Max(Audited!Own(o)) \in Audited!Own(o)
           /\ \A v \in Audited!Own(o) : Audited!Min(Audited!Own(o)) <= v /\ v <= Audited!Max(Audited!Own(o))
<1>. DEFINE own == Audited!Own(o)
<1>1. own \subseteq 1 .. Len(history[o]) /\ Len(history[o]) \in Nat
  BY RowsOf
<1>. HIDE DEF own
<1>2. own # {} /\ own \subseteq 0 .. Len(history[o]) /\ own \subseteq Nat
  BY <1>1 DEF own
<1>3. \E m \in own : \A k \in own : m >= k
  BY <1>1, <1>2, GreatestOf
<1>4. \E m \in own : \A k \in own : k >= m
  BY <1>2, LeastOf
<1>5. \E m \in own : \A k \in own : m <= k
  BY <1>2, <1>4
<1>6. Audited!Max(own) \in own /\ \A k \in own : Audited!Max(own) >= k
  BY <1>3 DEF Audited!Max
<1>7. Audited!Min(own) \in own /\ \A k \in own : Audited!Min(own) <= k
  BY <1>5 DEF Audited!Min
<1>. QED BY <1>2, <1>6, <1>7 DEF own

LEMMA ChangesLoaded ==
    ASSUME Audited!AuditAssumption, AuditInv
    PROVE  /\ \A c \in Audited!_object_changes :
                  LET o == c.object
                      own == Audited!Own(o)
                  IN  /\ o \in Objects \ gone /\ Audited!Spans(o) # {} /\ Audited!Spans(o) = own
                      /\ c.before = Audited!Before(o, Audited!Min(own))
                      /\ c.after = Audited!Shown(history[o][Audited!Max(own)])
           /\ \A o \in Objects \ gone : Audited!Spans(o) # {} => \E c \in Audited!_object_changes : c.object = o
<1>1. ASSUME NEW c \in Audited!_object_changes
      PROVE  LET o == c.object
                 own == Audited!Own(o)
             IN  /\ o \in Objects \ gone /\ Audited!Spans(o) # {} /\ Audited!Spans(o) = own
                 /\ c.before = Audited!Before(o, Audited!Min(own))
                 /\ c.after = Audited!Shown(history[o][Audited!Max(own)])
 <2>1. PICK o \in {x \in Objects \ gone : Audited!Spans(x) # {}} :
           /\ c.object = o
           /\ c.before = IF Audited!priors(o) = {} THEN Audited!Nothing
                         ELSE (CHOOSE p \in Audited!priors(o) : TRUE).configuration
           /\ c.after = Audited!Shown(history[o][Audited!Max(Audited!Spans(o))])
   BY DEF Audited!_object_changes
 <2>2. Audited!Spans(o) = Audited!Own(o)
   BY <2>1, LoadedWhole
 <2>. DEFINE first == Audited!Min(Audited!Own(o))
             p == history[o][first - 1]
 <2>3. Audited!priors(o) = IF first = 1 THEN {} ELSE {q \in {p} : ~q.is_deleted}
   BY <2>2, Zenon DEF Audited!priors
 <2>. HIDE DEF first, p
 <2>4. (IF Audited!priors(o) = {} THEN Audited!Nothing ELSE (CHOOSE q \in Audited!priors(o) : TRUE).configuration)
           = IF first = 1 THEN Audited!Nothing ELSE Audited!Shown(p)
  <3>1. CASE first = 1 \/ p.is_deleted
   <4>1. Audited!priors(o) = {}
     BY <2>3, <3>1
   <4>. QED BY <3>1, <4>1 DEF Audited!Shown
  <3>2. CASE first # 1 /\ ~p.is_deleted
   <4>1. Audited!priors(o) = {p}
     BY <2>3, <3>2
   <4>2. (CHOOSE q \in {p} : TRUE) = p
     OBVIOUS
   <4>. QED BY <3>2, <4>1, <4>2 DEF Audited!Shown
  <3>. QED BY <3>1, <3>2
 <2>5. c.before = Audited!Before(o, first)
   BY <2>1, <2>4 DEF Audited!Before, p
 <2>. QED BY <2>1, <2>2, <2>5 DEF first
<1>2. ASSUME NEW o \in Objects \ gone, Audited!Spans(o) # {}
      PROVE  \E c \in Audited!_object_changes : c.object = o
 <2>. DEFINE before == IF Audited!priors(o) = {} THEN Audited!Nothing
                       ELSE (CHOOSE p \in Audited!priors(o) : TRUE).configuration
             after == Audited!Shown(history[o][Audited!Max(Audited!Spans(o))])
             mist_id == IF Audited!single(o) THEN {history[o][Audited!Max(Audited!Spans(o))].incarnation} ELSE {}
             c == [object |-> o, before |-> before, after |-> after, mist_id |-> mist_id]
 <2>1. c \in Audited!_object_changes
   BY <1>2, Zenon DEF Audited!_object_changes
 <2>. HIDE DEF before, after, mist_id
 <2>2. c.object = o
   OBVIOUS
 <2>. QED BY <2>1, <2>2
<1>. QED BY <1>1, <1>2

\* services/guardian.py _object_changes: what the Guardian is shown of an object is
\* the change from what stood before the audit's first version of it to what its last
\* one left, whatever the cap on versions dropped and whoever wrote in between.
THEOREM ChangesAreWhole ==
    ASSUME Audited!AuditAssumption
    PROVE  Audited!Spec => []Audited!NetIsWhole
<1>1. AuditInv => Audited!NetIsWhole
  BY ChangesLoaded DEF Audited!NetIsWhole
<1>. QED BY <1>1, AuditInit, AuditStep, PTL DEF Audited!Spec

\* Among live versions, an attribute that came or went is recorded as changed.
LEMMA WalkRecords ==
    ASSUME NEW h \in Seq(AuditVersion), Chained(h), NEW a \in DOMAIN h, NEW b \in DOMAIN h, a <= b,
           \A u \in a .. b : ~h[u].is_deleted, NEW k,
           ~(k \in DOMAIN h[a].configuration <=> k \in DOMAIN h[b].configuration)
    PROVE  \E u \in a + 1 .. b : k \in h[u].changed_fields
<1>. DEFINE D == {u \in a .. b : ~(k \in DOMAIN h[u].configuration <=> k \in DOMAIN h[a].configuration)}
<1>1. a \in Nat /\ b \in Nat /\ a >= 1 /\ DOMAIN h = 1 .. Len(h) /\ Len(h) \in Nat
  OBVIOUS
<1>2. D \subseteq Nat /\ b \in D
  BY <1>1
<1>3. PICK u \in D : \A w \in D : w >= u
  BY <1>2, LeastOf
<1>4. u \in a .. b /\ u # a /\ ~(k \in DOMAIN h[u].configuration <=> k \in DOMAIN h[a].configuration)
  OBVIOUS
<1>5. u - 1 \in a .. b /\ u - 1 \notin D /\ u \in DOMAIN h /\ u # 1 /\ u \in a + 1 .. b
  BY <1>1, <1>3, <1>4
<1>6. k \in DOMAIN h[u - 1].configuration <=> k \in DOMAIN h[a].configuration
  BY <1>5
<1>7. ~h[u].is_deleted /\ ~h[u - 1].is_deleted
  BY <1>4, <1>5
<1>8. h[u].changed_fields = Audited!Differ(h[u - 1].configuration, h[u].configuration)
  BY <1>5, <1>7 DEF Chained
<1>9. k \in Audited!Differ(h[u - 1].configuration, h[u].configuration)
  BY <1>4, <1>6 DEF Audited!Differ
<1>. QED BY <1>5, <1>8, <1>9

\* Of an object the audit neither only passed through, nor recreated, nor shared with
\* another as it created or deleted it: what it touched is net or recorded.
LEMMA TouchedIsRecorded ==
    ASSUME Audited!AuditAssumption, AuditInv, NEW o \in Objects, Audited!Own(o) # {},
           ~Audited!Recreated(o), ~Audited!Interleaved(o), ~Audited!Passing(o),
           NEW v \in Audited!Own(o),
           NEW k \in Audited!Differ(Audited!Before(o, v), Audited!Shown(history[o][v]))
    PROVE  \/ k \in Audited!Differ(Audited!Before(o, Audited!Min(Audited!Own(o))),
                                   Audited!Shown(history[o][Audited!Max(Audited!Own(o))]))
           \/ \E u \in Audited!Own(o) : k \in history[o][u].changed_fields
<1>. DEFINE h == history[o]
            own == Audited!Own(o)
            first == Audited!Min(own)
            last == Audited!Max(own)
            before == Audited!Before(o, first)
            after == Audited!Shown(h[last])
<1>1. /\ h \in Seq(AuditVersion) /\ Chained(h) /\ own \subseteq DOMAIN h
      /\ DOMAIN h = 1 .. Len(h) /\ Len(h) \in Nat
  BY RowsOf DEF AuditInv
<1>2. first \in own /\ last \in own /\ \A w \in own : first <= w /\ w <= last
  BY OwnEnds
<1>3. \A w \in DOMAIN h : Audited!Created(o, w) => ~h[w].is_deleted
  BY <1>1 DEF Chained, Audited!Created
<1>4. \A w, x \in own : w < x /\ h[w].is_deleted => h[x].is_deleted
  BY DEF Audited!Recreated
<1>5. Audited!Created(o, first) => ~h[last].is_deleted
  BY DEF Audited!Passing
<1>6. first .. last = own \/ \A w \in own : ~Audited!Created(o, w) /\ ~h[w].is_deleted
  BY DEF Audited!Interleaved
<1>7. \A w : Audited!Created(o, w) => Audited!Before(o, w) = Audited!Nothing
  BY DEF Audited!Created, Audited!Before, Audited!Shown
<1>8. \A w : ~Audited!Created(o, w) => Audited!Before(o, w) = h[w - 1].configuration /\ w # 1 /\ ~h[w - 1].is_deleted
  BY DEF Audited!Created, Audited!Before, Audited!Shown
<1>9. \A w : (h[w].is_deleted => Audited!Shown(h[w]) = Audited!Nothing)
             /\ (~h[w].is_deleted => Audited!Shown(h[w]) = h[w].configuration)
  BY DEF Audited!Shown
<1>10. DOMAIN Audited!Nothing = {}
  BY DEF Audited!Nothing
<1>11. \A c : Audited!Differ(Audited!Nothing, c) = DOMAIN c /\ Audited!Differ(c, Audited!Nothing) = DOMAIN c
  BY <1>10 DEF Audited!Differ
<1>12. k \in Audited!Differ(Audited!Before(o, v), Audited!Shown(h[v])) /\ v \in own
  OBVIOUS
<1>. SUFFICES k \in Audited!Differ(before, after) \/ \E u \in own : k \in h[u].changed_fields
  OBVIOUS
<1>. HIDE DEF h, own, first, last, before, after
<1>13. CASE ~Audited!Created(o, v) /\ ~h[v].is_deleted
 <2>1. h[v].changed_fields = Audited!Differ(h[v - 1].configuration, h[v].configuration)
   BY <1>1, <1>8, <1>12, <1>13 DEF Chained
 <2>. QED BY <1>8, <1>9, <1>12, <1>13, <2>1
<1>14. CASE Audited!Created(o, v)
 <2>1. own = first .. last
   BY <1>6, <1>12, <1>14
 <2>2. v = first
  <3>1. SUFFICES ASSUME v # first PROVE FALSE
    OBVIOUS
  <3>2. v - 1 \in own /\ v - 1 < v /\ v # 1
    BY <1>1, <1>2, <1>12, <2>1, <3>1
  <3>3. h[v - 1].is_deleted
    BY <1>14, <3>2 DEF Audited!Created, h
  <3>. QED BY <1>1, <1>3, <1>4, <1>12, <1>14, <3>2, <3>3
 <2>3. \A u \in first .. last : ~h[u].is_deleted
  <3>1. ~h[last].is_deleted
    BY <1>5, <1>14, <2>2
  <3>. QED BY <1>1, <1>2, <1>4, <2>1, <3>1
 <2>4. k \in DOMAIN h[first].configuration
   BY <1>7, <1>9, <1>11, <1>12, <1>14, <2>1, <2>2, <2>3
 <2>5. before = Audited!Nothing /\ after = h[last].configuration
   BY <1>2, <1>7, <1>9, <1>14, <2>1, <2>2, <2>3 DEF before, after
 <2>6. CASE k \in DOMAIN h[last].configuration
   BY <1>11, <2>5, <2>6
 <2>7. CASE k \notin DOMAIN h[last].configuration
  <3>1. first \in DOMAIN h /\ last \in DOMAIN h /\ first <= last
    BY <1>1, <1>2
  <3>2. \E u \in first + 1 .. last : k \in h[u].changed_fields
    BY <1>1, <2>3, <2>4, <2>7, <3>1, WalkRecords
  <3>. QED BY <1>1, <2>1, <3>1, <3>2
 <2>. QED BY <2>6, <2>7
<1>15. CASE ~Audited!Created(o, v) /\ h[v].is_deleted
 <2>1. own = first .. last
   BY <1>6, <1>12, <1>15
 <2>2. v = last
  <3>1. SUFFICES ASSUME v # last PROVE FALSE
    OBVIOUS
  <3>2. v + 1 \in own /\ v < v + 1 /\ v + 1 # 1 /\ (v + 1) - 1 = v
    BY <1>1, <1>2, <1>12, <2>1, <3>1
  <3>3. Audited!Created(o, v + 1)
    BY <1>15, <3>2 DEF Audited!Created, h
  <3>. QED BY <1>1, <1>3, <1>4, <1>12, <1>15, <3>2, <3>3
 <2>3. ~Audited!Created(o, first)
   BY <1>5, <1>15, <2>2
 <2>4. \A u \in first .. last : u # last => ~h[u].is_deleted
  <3>1. SUFFICES ASSUME NEW u \in first .. last, u # last, h[u].is_deleted PROVE FALSE
    OBVIOUS
  <3>2. u + 1 \in own /\ u \in own /\ u < u + 1 /\ u + 1 # 1 /\ (u + 1) - 1 = u
    BY <1>1, <1>2, <2>1, <3>1
  <3>3. Audited!Created(o, u + 1)
    BY <3>1, <3>2 DEF Audited!Created, h
  <3>. QED BY <1>1, <1>3, <1>4, <3>1, <3>2, <3>3
 <2>5. k \in DOMAIN h[last - 1].configuration
   BY <1>8, <1>9, <1>11, <1>12, <1>15, <2>2
 <2>6. before = h[first - 1].configuration /\ after = Audited!Nothing /\ first # 1 /\ ~h[first - 1].is_deleted
   BY <1>8, <1>9, <1>15, <2>2, <2>3 DEF before, after
 <2>7. CASE k \in DOMAIN h[first - 1].configuration
   BY <1>11, <2>6, <2>7
 <2>8. CASE k \notin DOMAIN h[first - 1].configuration
  <3>1. first - 1 \in DOMAIN h /\ last - 1 \in DOMAIN h /\ first - 1 <= last - 1 /\ first \in Nat /\ last \in Nat
    BY <1>1, <1>2, <2>6
  <3>2. \A u \in first - 1 .. last - 1 : ~h[u].is_deleted
   <4>1. ASSUME NEW u \in first - 1 .. last - 1
         PROVE  u = first - 1 \/ (u \in first .. last /\ u # last)
     BY <3>1
   <4>. QED BY <2>4, <2>6, <4>1
  <3>3. \E u \in (first - 1) + 1 .. last - 1 : k \in h[u].changed_fields
   <4>. DEFINE x == first - 1
               y == last - 1
   <4>1. x \in DOMAIN h /\ y \in DOMAIN h /\ x <= y /\ (\A u \in x .. y : ~h[u].is_deleted)
         /\ k \notin DOMAIN h[x].configuration /\ k \in DOMAIN h[y].configuration
     BY <2>5, <2>8, <3>1, <3>2
   <4>. HIDE DEF x, y
   <4>2. \E u \in x + 1 .. y : k \in h[u].changed_fields
     BY <1>1, <4>1, WalkRecords
   <4>. QED BY <4>2 DEF x, y
  <3>4. \A u \in (first - 1) + 1 .. last - 1 : u \in first .. last
    BY <3>1
  <3>. QED BY <2>1, <3>3, <3>4
 <2>. QED BY <2>7, <2>8
<1>. QED BY <1>13, <1>14, <1>15

LEMMA ElidedIsTold ==
    ASSUME Audited!AuditAssumption, AuditInv, NEW o \in Objects, Audited!Own(o) # {},
           ~Audited!Recreated(o), ~Audited!Interleaved(o)
    PROVE  Audited!Accounted(o)
<1>1. CASE Audited!Spans(o) = {}
 <2>1. "versions" \in Audited!gaps
   BY <1>1, LoadedWhole DEF Audited!gaps
 <2>2. ~\E c \in Audited!_object_changes : c.object = o
   BY <1>1, ChangesLoaded
 <2>. QED BY <2>1, <2>2 DEF Audited!Accounted
<1>2. CASE Audited!Spans(o) # {} /\ o \in gone
 <2>1. "unidentified" \in Audited!gaps
   BY <1>2 DEF Audited!gaps, Audited!unidentified
 <2>2. ~\E c \in Audited!_object_changes : c.object = o
   BY <1>2, ChangesLoaded
 <2>. QED BY <2>1, <2>2 DEF Audited!Accounted
<1>3. CASE Audited!Spans(o) # {} /\ o \notin gone
 <2>1. PICK c \in Audited!_object_changes : c.object = o
   BY <1>3, ChangesLoaded
 <2>. DEFINE own == Audited!Own(o)
             before == Audited!Before(o, Audited!Min(own))
             after == Audited!Shown(history[o][Audited!Max(own)])
             changed_ == UNION {history[o][v].changed_fields : v \in own}
             unseen == Audited!_unseen_inputs(c)
 <2>2. Audited!Spans(o) = own /\ c.before = before /\ c.after = after
   BY <2>1, ChangesLoaded
 <2>3. Audited!Atoms(c) = Audited!Differ(before, after)
   BY <2>2, Zenon DEF Audited!Atoms
 <2>4. /\ Audited!superseded(o).versions = Audited!Cardinality(own)
       /\ Audited!superseded(o).attributes = changed_
  <3>1. Audited!superseded(o) = [versions |-> Audited!Cardinality(own), attributes |-> changed_]
    BY <2>2, Zenon DEF Audited!superseded
  <3>. HIDE DEF own, changed_
  <3>. QED BY <3>1
 <2>5. unseen = IF Audited!Cardinality(own) = 1 THEN {}
                ELSE IF changed_ \ Audited!Atoms(c) # {} THEN changed_ \ Audited!Atoms(c)
                ELSE IF Audited!Atoms(c) = {} THEN {"whole"} ELSE {}
  <3>. HIDE DEF own, changed_
  <3>. QED BY <2>1, <2>4, Zenon DEF Audited!_unseen_inputs
 <2>6. /\ Audited!Min(own) \in own /\ Audited!Max(own) \in own
   BY OwnEnds
 <2>7. CASE Audited!Cardinality(own) = 1
  <3>1. IsFiniteSet(own)
   <4>1. 1 \in Int /\ Len(history[o]) \in Int /\ own \subseteq 1 .. Len(history[o])
     BY RowsOf
   <4>2. IsFiniteSet(1 .. Len(history[o]))
     BY <4>1, FS_Interval
   <4>. QED BY <4>1, <4>2, FS_Subset
  <3>2. PICK v : own = {v}
    BY <2>7, <3>1, CountsAlike, FS_Singleton
  <3>3. Audited!Min(own) = v /\ Audited!Max(own) = v
    BY <2>6, <3>2
  <3>4. Audited!Touched(o) = Audited!Differ(Audited!Before(o, v), Audited!Shown(history[o][v]))
    BY <3>2 DEF Audited!Touched
  <3>5. Audited!Touched(o) \subseteq Audited!Atoms(c)
    BY <2>3, <3>3, <3>4
  <3>. QED BY <2>1, <3>5 DEF Audited!Accounted
 <2>8. CASE Audited!Cardinality(own) # 1 /\ Audited!Passing(o)
  <3>1. before = Audited!Nothing /\ after = Audited!Nothing
    BY <2>8 DEF Audited!Passing, Audited!Created, Audited!Before, Audited!Shown
  <3>2. Audited!Atoms(c) = {}
    BY <2>3, <3>1 DEF Audited!Differ, Audited!Nothing
  <3>. HIDE DEF own, changed_, unseen
  <3>3. unseen # {}
    BY <2>5, <2>8, <3>2
  <3>. QED BY <2>1, <2>8, <3>3 DEF Audited!Accounted, unseen
 <2>9. CASE Audited!Cardinality(own) # 1 /\ ~Audited!Passing(o)
  <3>1. \A v \in own : Audited!Differ(Audited!Before(o, v), Audited!Shown(history[o][v]))
                           \subseteq Audited!Atoms(c) \union changed_
    BY <2>3, <2>9, TouchedIsRecorded
  <3>2. Audited!Touched(o) \subseteq Audited!Atoms(c) \union changed_
    BY <3>1 DEF Audited!Touched
  <3>. HIDE DEF own, changed_, unseen
  <3>3. Audited!Touched(o) \subseteq Audited!Atoms(c) \union unseen
    BY <2>5, <2>9, <3>2
  <3>. QED BY <2>1, <3>3 DEF Audited!Accounted, unseen
 <2>. QED BY <2>7, <2>8, <2>9
<1>. QED BY <1>1, <1>2, <1>3

\* services/guardian.py load_attempt_inputs and _unseen_inputs: every object of the
\* audit is loaded, or a gap tells that it was not; of a loaded one, every attribute
\* the audit touched is in the net change or named in a gap, unless the audit created
\* it again, shared its creation or deletion with another writer, or both created and
\* deleted it, and then a gap tells that there was something.
THEOREM ElisionsAreTold ==
    ASSUME Audited!AuditAssumption
    PROVE  Audited!Spec => []Audited!NothingElided
<1>1. AuditInv => Audited!NothingElided
  BY ElidedIsTold DEF Audited!NothingElided
<1>. QED BY <1>1, AuditInit, AuditStep, PTL DEF Audited!Spec

\* Choosing what to restore (RestorePoint).
CONSTANTS Names, MistIds, Fold, Order, Needles, SCOPE_LIMIT, Limit
VARIABLES logical

Choosing == INSTANCE RestorePoint

\* Finitely many objects; their ids and the ranks they are sorted by are numbers; no
\* Mist id reads as the absence of one.
LEMMA StoredAreFinite == ASSUME Choosing!RanksAssumption PROVE IsFiniteSet(Objects)
  BY Zenon DEF Choosing!RanksAssumption, Choosing!IsFiniteSet, IsFiniteSet

PointDoc == [mist : MistIds, site : MistIds \union {"none"}, name : Names, deleted : BOOLEAN]
PointVersion == [at : Nat, deleted : BOOLEAN]

\* An object has one row, and no version before it has it; none is of the future.
PointInv ==
    /\ now \in Nat
    /\ logical \in [Objects -> SUBSET PointDoc]
    /\ \A o \in Objects : logical[o] = {} \/ \E d \in PointDoc : logical[o] = {d}
    /\ history \in [Objects -> Seq(PointVersion)]
    /\ \A o \in Objects : \A v \in DOMAIN history[o] : history[o][v].at <= now
    /\ \A o \in Objects : logical[o] = {} => history[o] = <<>>

LEMMA PointInit == Choosing!Init => PointInv
<1>. SUFFICES ASSUME Choosing!Init PROVE PointInv
  OBVIOUS
<1>1. now = 0 /\ logical = [o \in Objects |-> {}] /\ history = [o \in Objects |-> <<>>]
  BY DEF Choosing!Init
<1>2. \A o \in Objects : history[o] = <<>> /\ logical[o] = {}
  BY <1>1
<1>3. history \in [Objects -> Seq(PointVersion)]
  BY <1>1
<1>. QED BY <1>1, <1>2, <1>3 DEF PointInv

LEMMA OneDoc ==
    ASSUME PointInv, NEW o \in Choosing!Stored
    PROVE  o \in Objects /\ Choosing!Doc(o) \in PointDoc /\ logical[o] = {Choosing!Doc(o)}
<1>1. o \in Objects /\ logical[o] # {}
  BY DEF Choosing!Stored
<1>2. PICK d \in PointDoc : logical[o] = {d}
  BY <1>1 DEF PointInv
<1>3. Choosing!Doc(o) = d
  BY <1>2 DEF Choosing!Doc
<1>. QED BY <1>1, <1>2, <1>3

LEMMA RecordedKeepsPoints ==
    ASSUME PointInv, NEW o \in Objects, NEW d \in PointDoc, NEW b \in BOOLEAN,
           logical' = [logical EXCEPT ![o] = {d}], Choosing!Recorded(o, b)
    PROVE  /\ PointInv'
           /\ now' = now
           /\ history' = [history EXCEPT ![o] = Append(history[o], [at |-> now, deleted |-> b])]
<1>. DEFINE x == [at |-> now, deleted |-> b]
<1>1. now' = now /\ history' = [history EXCEPT ![o] = Append(history[o], x)]
  BY DEF Choosing!Recorded
<1>2. x \in PointVersion /\ x.at = now
  BY DEF PointInv, PointVersion
<1>. HIDE DEF x
<1>3. /\ history[o] \in Seq(PointVersion) /\ Append(history[o], x) \in Seq(PointVersion)
      /\ \A v \in DOMAIN Append(history[o], x) :
             Append(history[o], x)[v] = x \/ (v \in DOMAIN history[o] /\ Append(history[o], x)[v] = history[o][v])
  BY <1>2 DEF PointInv
<1>4. history' \in [Objects -> Seq(PointVersion)]
  BY <1>1, <1>3 DEF PointInv
<1>5. \A p \in Objects : \A v \in DOMAIN history'[p] : history'[p][v].at <= now
 <2>. SUFFICES ASSUME NEW p \in Objects, NEW v \in DOMAIN history'[p] PROVE history'[p][v].at <= now
   OBVIOUS
 <2>1. CASE p = o
  <3>1. history'[p] = Append(history[o], x)
    BY <1>1, <2>1 DEF PointInv
  <3>. QED BY <1>2, <1>3, <3>1 DEF PointInv
 <2>2. CASE p # o
  <3>1. history'[p] = history[p]
    BY <1>1, <2>2 DEF PointInv
  <3>. QED BY <3>1 DEF PointInv
 <2>. QED BY <2>1, <2>2
<1>6. /\ logical' \in [Objects -> SUBSET PointDoc]
      /\ \A p \in Objects : logical'[p] = {} \/ \E e \in PointDoc : logical'[p] = {e}
  BY DEF PointInv
<1>7. \A p \in Objects : logical'[p] = {} => history'[p] = <<>>
 <2>. SUFFICES ASSUME NEW p \in Objects, logical'[p] = {} PROVE history'[p] = <<>>
   OBVIOUS
 <2>1. p # o
   BY DEF PointInv
 <2>2. logical'[p] = logical[p] /\ history'[p] = history[p]
   BY <1>1, <2>1 DEF PointInv
 <2>. QED BY <2>2 DEF PointInv
<1>. QED BY <1>1, <1>4, <1>5, <1>6, <1>7 DEF PointInv, x

\* A step lets time pass, or records a version of an object that has a row then.
LEMMA PointMoves ==
    ASSUME PointInv, [Choosing!Next]_(Choosing!vars)
    PROVE  /\ PointInv'
           /\ \/ UNCHANGED <<logical, history>>
              \/ \E o \in Objects : \E d \in PointDoc : \E b \in BOOLEAN :
                     /\ logical' = [logical EXCEPT ![o] = {d}]
                     /\ history' = [history EXCEPT ![o] = Append(history[o], [at |-> now, deleted |-> b])]
<1>1. CASE UNCHANGED Choosing!vars
  BY <1>1 DEF PointInv, Choosing!vars
<1>2. CASE Choosing!Tick
 <2>1. now' = now + 1 /\ UNCHANGED <<logical, history>>
   BY <1>2 DEF Choosing!Tick
 <2>2. \A o \in Objects : \A v \in DOMAIN history[o] : history[o][v].at \in Nat
  <3>1. \A o \in Objects : \A v \in DOMAIN history[o] : history[o][v] \in PointVersion
    BY DEF PointInv
  <3>. QED BY <3>1 DEF PointVersion
 <2>. QED BY <2>1, <2>2 DEF PointInv
<1>3. ASSUME NEW o \in Objects, Choosing!Capture(o)
      PROVE  \E d \in PointDoc : \E b \in BOOLEAN :
                 logical' = [logical EXCEPT ![o] = {d}] /\ Choosing!Recorded(o, b)
 <2>1. PICK mist \in IF logical[o] # {} /\ ~Choosing!Doc(o).deleted THEN {Choosing!Doc(o).mist} ELSE Choosing!Unused,
            name \in Names,
            site \in IF o.scope = "site" THEN {Choosing!Doc(s).mist : s \in Choosing!Sites} ELSE {"none"} :
                logical' = [logical EXCEPT ![o] = {[mist |-> mist, site |-> site, name |-> name, deleted |-> FALSE]}]
   BY <1>3 DEF Choosing!Capture, Choosing!None
 <2>2. Choosing!Recorded(o, FALSE)
   BY <1>3 DEF Choosing!Capture
 <2>3. mist \in MistIds
  <3>1. CASE logical[o] # {} /\ ~Choosing!Doc(o).deleted
   <4>1. o \in Choosing!Stored /\ mist = Choosing!Doc(o).mist
     BY <3>1 DEF Choosing!Stored
   <4>. QED BY <4>1, OneDoc DEF PointDoc
  <3>2. CASE ~(logical[o] # {} /\ ~Choosing!Doc(o).deleted)
    BY <3>2 DEF Choosing!Unused
  <3>. QED BY <3>1, <3>2
 <2>4. site \in MistIds \union {"none"}
  <3>1. \A s \in Choosing!Sites : Choosing!Doc(s).mist \in MistIds
    BY OneDoc DEF Choosing!Sites, PointDoc
  <3>. QED BY <3>1
 <2>. DEFINE d == [mist |-> mist, site |-> site, name |-> name, deleted |-> FALSE]
 <2>5. d \in PointDoc
   BY <2>3, <2>4 DEF PointDoc
 <2>. QED BY <2>1, <2>2, <2>5
<1>4. ASSUME NEW o \in Objects, Choosing!Delete(o)
      PROVE  \E d \in PointDoc : \E b \in BOOLEAN :
                 logical' = [logical EXCEPT ![o] = {d}] /\ Choosing!Recorded(o, b)
 <2>1. logical[o] # {} /\ Choosing!Recorded(o, TRUE)
   BY <1>4 DEF Choosing!Delete
 <2>. DEFINE gone_(d) == [d EXCEPT !.deleted = TRUE]
 <2>2. logical' = [logical EXCEPT ![o] = {gone_(d) : d \in logical[o]}]
   BY <1>4, Zenon DEF Choosing!Delete
 <2>3. PICK d \in PointDoc : logical[o] = {d}
   BY <2>1 DEF PointInv
 <2>4. gone_(d) \in PointDoc
   BY DEF PointDoc
 <2>. HIDE DEF gone_
 <2>5. {gone_(e) : e \in {d}} = {gone_(d)}
   OBVIOUS
 <2>6. logical' = [logical EXCEPT ![o] = {gone_(d)}]
   BY <2>2, <2>3, <2>5
 <2>. QED BY <2>1, <2>4, <2>6
<1>5. ASSUME NEW o \in Objects, NEW d \in PointDoc, NEW b \in BOOLEAN,
             logical' = [logical EXCEPT ![o] = {d}], Choosing!Recorded(o, b)
      PROVE  PointInv' /\ history' = [history EXCEPT ![o] = Append(history[o], [at |-> now, deleted |-> b])]
  BY <1>5, RecordedKeepsPoints
<1>6. CASE \E o \in Objects : \E d \in PointDoc : \E b \in BOOLEAN :
               logical' = [logical EXCEPT ![o] = {d}] /\ Choosing!Recorded(o, b)
  BY <1>5, <1>6, Zenon
<1>7. CASE Choosing!Next /\ ~Choosing!Tick
  BY <1>3, <1>4, <1>6, <1>7, Zenon DEF Choosing!Next
<1>8. CASE Choosing!Tick
  BY <1>2, <1>8 DEF Choosing!Tick
<1>9. CASE UNCHANGED Choosing!vars
  BY <1>1, <1>9 DEF Choosing!vars
<1>. QED BY <1>7, <1>8, <1>9

LEMMA PointStep == PointInv /\ [Choosing!Next]_(Choosing!vars) => PointInv'
  BY PointMoves

LEMMA VersionAt ==
    ASSUME PointInv, NEW o \in Objects, NEW at
    PROVE  /\ Choosing!version_at(o, at) \in Nat
           /\ Choosing!version_at(o, at) # 0 => Choosing!version_at(o, at) \in DOMAIN history[o]
                                                /\ history[o][Choosing!version_at(o, at)].at <= at
           /\ (\A v \in DOMAIN history[o] : ~(history[o][v].at <= at)) => Choosing!version_at(o, at) = 0
<1>. DEFINE S == {0} \union {v \in DOMAIN history[o] : history[o][v].at <= at}
            n == Len(history[o])
<1>1. n \in Nat /\ S \subseteq 0 .. n /\ S # {}
  BY DEF PointInv
<1>2. Choosing!version_at(o, at) = Choosing!Max(S)
  BY Zenon DEF Choosing!version_at
<1>3. S \ {0} \subseteq DOMAIN history[o] /\ \A v \in S \ {0} : history[o][v].at <= at
  OBVIOUS
<1>4. (\A v \in DOMAIN history[o] : ~(history[o][v].at <= at)) => S = {0}
  OBVIOUS
<1>. HIDE DEF S, n
<1>5. \E m \in S : \A k \in S : m >= k
  BY <1>1, GreatestOf
<1>6. Choosing!Max(S) \in S
  BY <1>5 DEF Choosing!Max
<1>7. \A k \in S : k \in Nat
  BY <1>1
<1>. DEFINE m == Choosing!Max(S)
<1>. HIDE DEF m
<1>8. m \in S /\ m = Choosing!version_at(o, at)
  BY <1>2, <1>6 DEF m
<1>9. m # 0 => m \in DOMAIN history[o] /\ history[o][m].at <= at
  BY <1>3, <1>8, Zenon
<1>10. (\A v \in DOMAIN history[o] : ~(history[o][v].at <= at)) => m = 0
  BY <1>4, <1>8, Zenon
<1>. QED BY <1>7, <1>8, <1>9, <1>10, Zenon

\* Within the limit, all that is in scope is read.
LEMMA AllInScope ==
    ASSUME Choosing!RanksAssumption, PointInv, Cardinality(Choosing!Stored) <= SCOPE_LIMIT, NEW site
    PROVE  Choosing!scope_objects(site)
               = {o \in Choosing!Stored : site = {} \/ Choosing!Doc(o).site \in site}
<1>. DEFINE found == {o \in Choosing!Stored : site = {} \/ Choosing!Doc(o).site \in site}
            key(o) == <<Order[o.type], Order[Choosing!Doc(o).name], o.id>>
            before(o) == {p \in found : Choosing!By(key(p), key(o))}
<1>1. Choosing!scope_objects(site) = {o \in found : Choosing!Cardinality(before(o)) < SCOPE_LIMIT}
  BY Zenon DEF Choosing!scope_objects
<1>2. IsFiniteSet(Choosing!Stored) /\ found \subseteq Choosing!Stored
  BY StoredAreFinite, FS_Subset DEF Choosing!Stored
<1>3. \A o \in found : o \notin before(o)
 <2>. SUFFICES ASSUME NEW o \in found PROVE ~Choosing!By(key(o), key(o))
   OBVIOUS
 <2>1. o \in Objects /\ Choosing!Doc(o).name \in Names
   BY <1>2, OneDoc DEF PointDoc
 <2>2. \A i \in 1 .. 3 : key(o)[i] \in Int
   BY <2>1 DEF Choosing!RanksAssumption
 <2>3. DOMAIN key(o) = 1 .. 3
   OBVIOUS
 <2>. HIDE DEF key
 <2>. QED BY <2>2, <2>3 DEF Choosing!By
<1>4. \A o \in found : before(o) \subseteq found
  OBVIOUS
<1>. HIDE DEF before, found
<1>5. ASSUME NEW o \in found
      PROVE  Choosing!Cardinality(before(o)) < SCOPE_LIMIT
 <2>1. IsFiniteSet(found) /\ Cardinality(found) <= Cardinality(Choosing!Stored)
   BY <1>2, FS_Subset
 <2>2. IsFiniteSet(before(o)) /\ Cardinality(before(o)) <= Cardinality(found)
       /\ (Cardinality(found) = Cardinality(before(o)) => found = before(o))
   BY <1>4, <2>1, FS_Subset
 <2>3. Cardinality(before(o)) \in Nat /\ Cardinality(found) \in Nat /\ Cardinality(Choosing!Stored) \in Nat
   BY <1>2, <2>1, <2>2, FS_CardinalityType
 <2>4. Cardinality(before(o)) # Cardinality(found)
   BY <1>3, <2>2
 <2>5. Cardinality(before(o)) < SCOPE_LIMIT
   BY <2>1, <2>2, <2>3, <2>4 DEF Choosing!RanksAssumption
 <2>6. Choosing!Cardinality(before(o)) = Cardinality(before(o))
   BY Zenon DEF Choosing!Cardinality, Cardinality
 <2>. QED BY <2>5, <2>6
<1>. QED BY <1>1, <1>5 DEF found

LEMMA AllAreRead ==
    Choosing!RanksAssumption /\ PointInv /\ Choosing!Cardinality(Choosing!Stored) <= SCOPE_LIMIT
        => Choosing!scope_objects({}) = Choosing!Stored
<1>1. Choosing!Cardinality(Choosing!Stored) = Cardinality(Choosing!Stored)
  BY Zenon DEF Choosing!Cardinality, Cardinality
<1>2. {o \in Choosing!Stored : {} = {} \/ Choosing!Doc(o).site \in {}} = Choosing!Stored
  OBVIOUS
<1>. QED BY <1>1, <1>2, AllInScope

LEMMA AllAreReadNext ==
    (Choosing!RanksAssumption /\ PointInv /\ Choosing!Cardinality(Choosing!Stored) <= SCOPE_LIMIT
        => Choosing!scope_objects({}) = Choosing!Stored)'
  BY AllAreRead, PTL

LEMMA ViewsAgree ==
    ASSUME Choosing!RanksAssumption, PointInv, Cardinality(Choosing!Stored) <= SCOPE_LIMIT, NEW at
    PROVE  /\ \A o \in Objects :
                  Choosing!object_at(o, at) =
                      Choosing!Max({0} \union {i.version : i \in {x \in Choosing!state_at({}, at) : x.object = o}})
           /\ \A s \in Choosing!Sites :
                  Choosing!state_at({Choosing!Doc(s).mist}, at) =
                      {i \in Choosing!state_at({}, at) : Choosing!Doc(i.object).site = Choosing!Doc(s).mist}
<1>. DEFINE at_(o) == Choosing!version_at(o, at)
            there(o) == at_(o) # 0 /\ ~history[o][at_(o)].deleted
            item(o) == [object |-> o, version |-> at_(o)]
            all == {item(o) : o \in {x \in Choosing!Stored : there(x)}}
<1>1. ASSUME NEW S
      PROVE  Choosing!versions_at(S, at) = {item(o) : o \in {x \in S : there(x)}}
  BY Zenon DEF Choosing!versions_at
<1>2. Choosing!scope_objects({}) = Choosing!Stored
 <2>1. {o \in Choosing!Stored : {} = {} \/ Choosing!Doc(o).site \in {}} = Choosing!Stored
   OBVIOUS
 <2>. QED BY <2>1, AllInScope
<1>3. Choosing!state_at({}, at) = all
  BY <1>1, <1>2, Zenon DEF Choosing!state_at
<1>4. ASSUME NEW o \in Objects
      PROVE  Choosing!object_at(o, at) = Choosing!Max({0} \union {i.version : i \in {x \in all : x.object = o}})
 <2>. DEFINE S == {0} \union {i.version : i \in {x \in all : x.object = o}}
             v == IF o \in Choosing!Stored /\ there(o) THEN at_(o) ELSE 0
 <2>1. S = {0, v}
  <3>1. \A p : item(p).object = p /\ item(p).version = at_(p)
    OBVIOUS
  <3>. HIDE DEF item
  <3>2. {x \in all : x.object = o} = IF o \in Choosing!Stored /\ there(o) THEN {item(o)} ELSE {}
   <4>. HIDE DEF there
   <4>. QED BY <3>1
  <3>. HIDE DEF all, there, at_
  <3>3. CASE o \in Choosing!Stored /\ there(o)
   <4>1. {x \in all : x.object = o} = {item(o)} /\ v = item(o).version
     BY <3>1, <3>2, <3>3
   <4>. QED BY <4>1
  <3>4. CASE ~(o \in Choosing!Stored /\ there(o))
   <4>1. {x \in all : x.object = o} = {} /\ v = 0
     BY <3>2, <3>4
   <4>. QED BY <4>1
  <3>. QED BY <3>3, <3>4
 <2>2. v \in Nat
   BY VersionAt
 <2>3. Choosing!object_at(o, at) = v
   BY <1>4 DEF Choosing!object_at, Choosing!Stored
 <2>. HIDE DEF S, v
 <2>4. v \in S /\ \A y \in S : v >= y
   BY <2>1, <2>2
 <2>5. \A x \in S : (\A y \in S : x >= y) => x = v
   BY <2>1, <2>2
 <2>6. Choosing!Max(S) = v
   BY <2>4, <2>5 DEF Choosing!Max
 <2>. QED BY <2>3, <2>6 DEF S
<1>5. ASSUME NEW s \in Choosing!Sites
      PROVE  Choosing!state_at({Choosing!Doc(s).mist}, at) =
                 {i \in all : Choosing!Doc(i.object).site = Choosing!Doc(s).mist}
 <2>. DEFINE m == Choosing!Doc(s).mist
             scoped == {o \in Choosing!Stored : Choosing!Doc(o).site = m}
 <2>1. Choosing!scope_objects({m}) = scoped
  <3>1. {o \in Choosing!Stored : {m} = {} \/ Choosing!Doc(o).site \in {m}} = scoped
    OBVIOUS
  <3>. QED BY <3>1, AllInScope
 <2>2. Choosing!state_at({m}, at) = {item(o) : o \in {x \in scoped : there(x)}}
   BY <1>1, <2>1, Zenon DEF Choosing!state_at
 <2>3. \A p : item(p).object = p
   OBVIOUS
 <2>. HIDE DEF item, there, m
 <2>4. {item(o) : o \in {x \in scoped : there(x)}} = {i \in all : Choosing!Doc(i.object).site = m}
   BY <2>3
 <2>. QED BY <2>2, <2>4 DEF m
<1>. QED BY <1>3, <1>4, <1>5

\* services/point_in_time.py: the state of the organization at an instant holds an
\* object at the version the object's own view gives it, and the state of a site is
\* its part of it, as long as no more objects are stored than a read of a scope takes.
THEOREM ViewsOfThePastAgree ==
    ASSUME Choosing!RanksAssumption
    PROVE  Choosing!Spec => []Choosing!EndpointsAgree
<1>1. PointInv => Choosing!EndpointsAgree
 <2>1. Choosing!Cardinality(Choosing!Stored) = Cardinality(Choosing!Stored)
   BY Zenon DEF Choosing!Cardinality, Cardinality
 <2>. QED BY <2>1, ViewsAgree DEF Choosing!EndpointsAgree
<1>. QED BY <1>1, PointInit, PointStep, PTL DEF Choosing!Spec

\* A version recorded now changes no answer about what was before now.
LEMMA PastOf ==
    ASSUME PointInv, NEW o \in Objects, NEW d \in PointDoc, NEW b \in BOOLEAN, NEW at \in Nat, at < now,
           logical' = [logical EXCEPT ![o] = {d}],
           history' = [history EXCEPT ![o] = Append(history[o], [at |-> now, deleted |-> b])]
    PROVE  /\ Choosing!Stored' = Choosing!Stored \union {o}
           /\ \A p \in Objects :
                  LET v == Choosing!version_at(p, at)
                  IN  /\ Choosing!version_at(p, at)' = v
                      /\ v # 0 => history'[p][v] = history[p][v]
                      /\ p \notin Choosing!Stored => v = 0
<1>. DEFINE x == [at |-> now, deleted |-> b]
<1>1. x.at = now /\ history' = [history EXCEPT ![o] = Append(history[o], x)]
  OBVIOUS
<1>. HIDE DEF x
<1>2. Choosing!Stored' = Choosing!Stored \union {o}
  BY DEF PointInv, Choosing!Stored
<1>3. ASSUME NEW p \in Objects
      PROVE  /\ {v \in DOMAIN history'[p] : history'[p][v].at <= at} = {v \in DOMAIN history[p] : history[p][v].at <= at}
             /\ \A v \in DOMAIN history[p] : history'[p][v] = history[p][v]
 <2>1. CASE p = o
  <3>1. history'[p] = Append(history[p], x) /\ history[p] \in Seq(PointVersion)
    BY <1>1, <2>1 DEF PointInv
  <3>2. /\ DOMAIN history[p] = 1 .. Len(history[p]) /\ Len(history[p]) \in Nat
        /\ DOMAIN history'[p] = 1 .. Len(history[p]) + 1
        /\ \A v \in 1 .. Len(history[p]) : history'[p][v] = history[p][v]
        /\ history'[p][Len(history[p]) + 1] = x
    BY <3>1
  <3>3. ~(x.at <= at)
    BY <1>1 DEF PointInv
  <3>4. \A v \in DOMAIN history'[p] : v \in 1 .. Len(history[p]) \/ v = Len(history[p]) + 1
    BY <3>2
  <3>5. \A v \in DOMAIN history[p] : v \in DOMAIN history'[p]
    BY <3>2
  <3>. QED BY <3>2, <3>3, <3>4, <3>5
 <2>2. CASE p # o
  <3>1. history'[p] = history[p]
    BY <1>1, <2>2 DEF PointInv
  <3>. QED BY <3>1
 <2>. QED BY <2>1, <2>2
<1>4. ASSUME NEW p \in Objects
      PROVE  LET v == Choosing!version_at(p, at)
             IN  /\ Choosing!version_at(p, at)' = v
                 /\ v # 0 => history'[p][v] = history[p][v]
                 /\ p \notin Choosing!Stored => v = 0
 <2>. DEFINE v == Choosing!version_at(p, at)
 <2>1. Choosing!version_at(p, at)' = v
   BY <1>3, Zenon DEF Choosing!version_at
 <2>2. v # 0 => v \in DOMAIN history[p]
   BY VersionAt
 <2>3. p \notin Choosing!Stored => DOMAIN history[p] = {}
   BY DEF PointInv, Choosing!Stored
 <2>. HIDE DEF v
 <2>4. v # 0 => history'[p][v] = history[p][v]
   BY <1>3, <2>2
 <2>5. p \notin Choosing!Stored => v = 0
   BY <2>2, <2>3
 <2>. QED BY <2>1, <2>4, <2>5 DEF v
<1>. QED BY <1>2, <1>4

\* services/point_in_time.py: what is recorded later, a deletion or a recreation under
\* another Mist id included, changes neither which objects existed at a past instant
\* nor at which version.
THEOREM ThePastIsSettled ==
    ASSUME Choosing!RanksAssumption
    PROVE  Choosing!Spec => Choosing!PastIsSettled
<1>1. PointInv /\ [Choosing!Next]_(Choosing!vars) => [Choosing!KeepsThePast]_(Choosing!vars)
 <2>. SUFFICES ASSUME PointInv, [Choosing!Next]_(Choosing!vars),
                      (Choosing!Cardinality(Choosing!Stored) <= SCOPE_LIMIT)', NEW at \in 0 .. now' - 1, at < now
               PROVE  Choosing!state_at({}, at)' = Choosing!state_at({}, at)
   BY Zenon DEF Choosing!KeepsThePast
 <2>1. PointInv'
   BY PointStep
 <2>2. at \in Nat
   OBVIOUS
 <2>3. Choosing!scope_objects({})' = Choosing!Stored'
   BY <2>1, AllAreReadNext
 <2>4. CASE UNCHANGED <<logical, history>>
   BY <2>4 DEF Choosing!state_at, Choosing!versions_at, Choosing!version_at, Choosing!scope_objects,
               Choosing!Stored, Choosing!Doc, Choosing!By
 <2>5. ASSUME NEW o \in Objects, NEW d \in PointDoc, NEW b \in BOOLEAN,
              logical' = [logical EXCEPT ![o] = {d}],
              history' = [history EXCEPT ![o] = Append(history[o], [at |-> now, deleted |-> b])]
       PROVE  Choosing!state_at({}, at)' = Choosing!state_at({}, at)
  <3>1. /\ Choosing!Stored' = Choosing!Stored \union {o}
        /\ \A p \in Objects :
               LET v == Choosing!version_at(p, at)
               IN  /\ Choosing!version_at(p, at)' = v
                   /\ v # 0 => history'[p][v] = history[p][v]
                   /\ p \notin Choosing!Stored => v = 0
    BY <2>2, <2>5, PastOf
  <3>2. Choosing!Stored' \subseteq Objects /\ Choosing!Stored \subseteq Choosing!Stored'
    BY <3>1 DEF Choosing!Stored
  <3>3. Choosing!scope_objects({}) = Choosing!Stored
   <4>1. IsFiniteSet(Choosing!Stored') /\ Cardinality(Choosing!Stored) <= Cardinality(Choosing!Stored')
     BY <3>2, StoredAreFinite, FS_Subset
   <4>2. Choosing!Cardinality(Choosing!Stored) = Cardinality(Choosing!Stored)
     BY Zenon DEF Choosing!Cardinality, Cardinality
   <4>3. Choosing!Cardinality(Choosing!Stored)' = Cardinality(Choosing!Stored')
     BY Zenon DEF Choosing!Cardinality, Cardinality
   <4>4. Cardinality(Choosing!Stored') <= SCOPE_LIMIT
     BY <4>3
   <4>5. Cardinality(Choosing!Stored) \in Nat /\ Cardinality(Choosing!Stored') \in Nat
     BY <3>2, <4>1, FS_Subset, FS_CardinalityType
   <4>6. Cardinality(Choosing!Stored) <= SCOPE_LIMIT
     BY <4>1, <4>4, <4>5 DEF Choosing!RanksAssumption
   <4>. QED BY <4>2, <4>6, AllAreRead
  <3>. DEFINE item(p) == [object |-> p, version |-> Choosing!version_at(p, at)]
              was == {p \in Choosing!Stored : Choosing!version_at(p, at) # 0
                                              /\ ~history[p][Choosing!version_at(p, at)].deleted}
              is == {p \in Choosing!Stored' : Choosing!version_at(p, at)' # 0
                                              /\ ~history'[p][Choosing!version_at(p, at)'].deleted}
  <3>4. was = is
    BY <3>1, <3>2
  <3>5. Choosing!state_at({}, at) = {item(p) : p \in was}
    BY <3>3, Zenon DEF Choosing!state_at, Choosing!versions_at
  <3>6. Choosing!state_at({}, at)' = {[object |-> p, version |-> Choosing!version_at(p, at)'] : p \in is}
    BY <2>3, Zenon DEF Choosing!state_at, Choosing!versions_at
  <3>7. \A p \in is : [object |-> p, version |-> Choosing!version_at(p, at)'] = item(p)
    BY <3>1, <3>2
  <3>. HIDE DEF is, was, item
  <3>8. {[object |-> p, version |-> Choosing!version_at(p, at)'] : p \in is} = {item(p) : p \in is}
    BY <3>7, Zenon
  <3>. QED BY <3>4, <3>5, <3>6, <3>8
 <2>. QED BY <2>4, <2>5, PointMoves
<1>. QED BY <1>1, PointInit, PointStep, PTL DEF Choosing!Spec, Choosing!PastIsSettled

\* Both searches describe the same objects, each in rows of its own.
Restorable == {o \in Choosing!Stored : Choosing!restorable_versions(o) # {}}
Lookup(o) ==
    [object |-> o, name |-> Choosing!Doc(o).name, site |-> Choosing!Doc(o).site,
     newest |-> {v \in DOMAIN history[o] : ~history[o][v].deleted
                                           /\ \A w \in v + 1 .. Len(history[o]) : history[o][w].deleted},
     site_name |-> {Choosing!Doc(s).name : s \in {x \in Choosing!Sites :
                        ~Choosing!Doc(x).deleted /\ Choosing!Doc(x).mist = Choosing!Doc(o).site}}]

\* The newest version that is no tombstone is the one no later one is.
LEMMA NewestVersion ==
    ASSUME PointInv, NEW o \in Objects
    PROVE  LET live == Choosing!restorable_versions(o)
               newest == {v \in DOMAIN history[o] : ~history[o][v].deleted
                              /\ \A w \in v + 1 .. Len(history[o]) : history[o][w].deleted}
           IN  newest = IF live = {} THEN {} ELSE {Choosing!Max(live)}
<1>. DEFINE h == history[o]
            live == Choosing!restorable_versions(o)
            newest == {v \in DOMAIN h : ~h[v].deleted /\ \A w \in v + 1 .. Len(h) : h[w].deleted}
<1>1. DOMAIN h = 1 .. Len(h) /\ Len(h) \in Nat
  BY DEF PointInv
<1>2. live = {v \in DOMAIN h : ~h[v].deleted}
  BY DEF Choosing!restorable_versions
<1>. SUFFICES newest = IF live = {} THEN {} ELSE {Choosing!Max(live)}
  OBVIOUS
<1>. HIDE DEF h, live
<1>3. CASE live = {}
  BY <1>2, <1>3
<1>4. CASE live # {}
 <2>1. live \subseteq 0 .. Len(h)
   BY <1>1, <1>2
 <2>2. \E m \in live : \A k \in live : m >= k
   BY <1>1, <1>4, <2>1, GreatestOf
 <2>. DEFINE m == Choosing!Max(live)
 <2>3. m \in live /\ \A k \in live : m >= k
   BY <2>2 DEF Choosing!Max
 <2>. HIDE DEF m
 <2>4. m \in newest
  <3>1. \A w \in m + 1 .. Len(h) : w \in DOMAIN h /\ w \notin live
    BY <1>1, <2>1, <2>3
  <3>. QED BY <1>2, <2>3, <3>1
 <2>5. \A v \in newest : v = m
  <3>. SUFFICES ASSUME NEW v \in newest PROVE v = m
    OBVIOUS
  <3>1. v \in live /\ m >= v
    BY <1>2, <2>3
  <3>2. ~h[m].deleted /\ m \in 1 .. Len(h) /\ v \in 1 .. Len(h)
    BY <1>1, <1>2, <2>3, <3>1
  <3>. QED BY <1>1, <3>1, <3>2
 <2>6. newest = {m}
  <3>. HIDE DEF newest
  <3>. QED BY <2>4, <2>5
 <2>. QED BY <1>4, <2>6 DEF m
<1>. QED BY <1>3, <1>4

LEMMA LookupFields ==
    \A o : /\ Lookup(o).object = o /\ Lookup(o).name = Choosing!Doc(o).name
           /\ Lookup(o).site = Choosing!Doc(o).site
  BY DEF Lookup

\* A row of the aggregation is shaped into what the reference makes of the object.
LEMMA TargetsAlike ==
    ASSUME Choosing!RanksAssumption, PointInv, NEW o \in Choosing!Stored
    PROVE  /\ Lookup(o).newest # {} <=> o \in Restorable
           /\ Lookup(o).site_name = Choosing!Target(o).site_name
           /\ o \in Restorable => Choosing!_target(Lookup(o)) = Choosing!Target(o)
<1>. DEFINE live == Choosing!restorable_versions(o)
            newest == {v \in DOMAIN history[o] : ~history[o][v].deleted
                           /\ \A w \in v + 1 .. Len(history[o]) : history[o][w].deleted}
            named == {Choosing!Doc(s).name : s \in {x \in Choosing!Sites :
                          ~Choosing!Doc(x).deleted /\ Choosing!Doc(x).mist = Choosing!Doc(o).site}}
            name == IF Choosing!Doc(o).site = "none" THEN {} ELSE Choosing!SiteName(Choosing!Doc(o).site)
<1>1. o \in Objects /\ newest = IF live = {} THEN {} ELSE {Choosing!Max(live)}
  BY OneDoc, NewestVersion
<1>2. named = name
 <2>1. CASE Choosing!Doc(o).site = "none"
  <3>1. \A x \in Choosing!Sites : Choosing!Doc(x).mist # "none"
    BY OneDoc DEF Choosing!RanksAssumption, Choosing!Sites, PointDoc
  <3>2. {x \in Choosing!Sites : ~Choosing!Doc(x).deleted /\ Choosing!Doc(x).mist = Choosing!Doc(o).site} = {}
    BY <2>1, <3>1
  <3>3. named = {}
    BY <3>2
  <3>. QED BY <2>1, <3>3
 <2>2. CASE Choosing!Doc(o).site # "none"
  <3>. DEFINE site == Choosing!Doc(o).site
  <3>1. Choosing!SiteName(site) =
            {Choosing!Doc(s).name : s \in {x \in Choosing!Sites : Choosing!Doc(x).mist = site /\ ~Choosing!Doc(x).deleted}}
    BY Zenon DEF Choosing!SiteName
  <3>2. {x \in Choosing!Sites : Choosing!Doc(x).mist = site /\ ~Choosing!Doc(x).deleted}
            = {x \in Choosing!Sites : ~Choosing!Doc(x).deleted /\ Choosing!Doc(x).mist = site}
    OBVIOUS
  <3>3. named = Choosing!SiteName(site)
    BY <3>1, <3>2, Zenon
  <3>. QED BY <2>2, <3>3
 <2>. QED BY <2>1, <2>2
<1>3. Lookup(o) = [object |-> o, name |-> Choosing!Doc(o).name, site |-> Choosing!Doc(o).site,
                   newest |-> newest, site_name |-> named]
  BY Zenon DEF Lookup
<1>4. Choosing!Target(o) = [object |-> o, version |-> Choosing!Max(live), name |-> Choosing!Doc(o).name,
                            site |-> Choosing!Doc(o).site, site_name |-> name]
  BY Zenon DEF Choosing!Target, Choosing!None
<1>5. o \in Restorable <=> live # {}
  BY DEF Restorable
<1>. HIDE DEF live, newest, named, name
<1>6. Lookup(o).newest = newest /\ Lookup(o).site_name = named
  BY <1>3
<1>7. Choosing!Target(o).site_name = name
  BY <1>4
<1>8. ASSUME o \in Restorable
      PROVE  Choosing!_target(Lookup(o)) = Choosing!Target(o)
 <2>1. (CHOOSE v \in newest : TRUE) = Choosing!Max(live)
  <3>1. newest = {Choosing!Max(live)}
    BY <1>1, <1>5, <1>8
  <3>. QED BY <3>1
 <2>2. Choosing!_target(Lookup(o)) =
           [object |-> Lookup(o).object, version |-> CHOOSE v \in Lookup(o).newest : TRUE, name |-> Lookup(o).name,
            site |-> Lookup(o).site, site_name |-> Lookup(o).site_name]
   BY Zenon DEF Choosing!_target
 <2>3. /\ Lookup(o).object = o /\ Lookup(o).name = Choosing!Doc(o).name /\ Lookup(o).site = Choosing!Doc(o).site
       /\ (CHOOSE v \in Lookup(o).newest : TRUE) = Choosing!Max(live) /\ Lookup(o).site_name = name
   BY <1>2, <1>6, <2>1, LookupFields
 <2>. QED BY <1>4, <2>2, <2>3, Zenon
<1>. QED BY <1>1, <1>2, <1>5, <1>6, <1>7, <1>8

LEMMA TargetFields ==
    \A o : /\ Choosing!Target(o).object = o /\ Choosing!Target(o).name = Choosing!Doc(o).name
           /\ Choosing!Target(o).site = Choosing!Doc(o).site
  BY DEF Choosing!Target

\* What a search asks of an object, less the filters the facets leave out.
Asked(q, o) ==
    /\ q.scope = "all" \/ o.scope = q.scope
    /\ q.q = {} \/ \E n \in q.q : Choosing!Doc(o).name \in Needles[n] \/ o.type \in Needles[n]
InSite(q) == {o \in Restorable : Asked(q, o) /\ (q.site # {} => Choosing!Doc(o).site \in q.site)}
OfType(q) == {o \in Restorable : Asked(q, o) /\ (q.type # {} => o.type \in q.type)}

LEMMA PipelineRows ==
    ASSUME Choosing!RanksAssumption, PointInv, NEW q
    PROVE  /\ Choosing!_pipeline(q).site = {Lookup(o) : o \in InSite(q)}
           /\ Choosing!_pipeline(q).type = {Lookup(o) : o \in OfType(q)}
<1>1. Choosing!_lookups = {Lookup(o) : o \in Choosing!Stored}
  BY Zenon DEF Choosing!_lookups, Lookup
<1>2. Choosing!_unwound = {Lookup(o) : o \in Restorable}
 <2>1. Choosing!_unwound = {r \in Choosing!_lookups : r.newest # {}}
   BY Zenon DEF Choosing!_unwound
 <2>2. Restorable \subseteq Choosing!Stored
   BY DEF Restorable
 <2>. QED BY <1>1, <2>1, <2>2, TargetsAlike
<1>3. \A o : Choosing!_common_match(q, Lookup(o)) <=> Asked(q, o)
  BY LookupFields DEF Choosing!_common_match, Asked
<1>. DEFINE site == {r \in Choosing!_unwound : Choosing!_common_match(q, r) /\ (q.site # {} => r.site \in q.site)}
            type == {r \in Choosing!_unwound : Choosing!_common_match(q, r) /\ (q.type # {} => r.object.type \in q.type)}
<1>4. site = {Lookup(o) : o \in InSite(q)}
  BY <1>2, <1>3, LookupFields DEF InSite
<1>5. type = {Lookup(o) : o \in OfType(q)}
  BY <1>2, <1>3, LookupFields DEF OfType
<1>6. Choosing!_pipeline(q) = [site |-> site, type |-> type]
  BY Zenon DEF Choosing!_pipeline
<1>. HIDE DEF site, type
<1>7. Choosing!_pipeline(q).site = site /\ Choosing!_pipeline(q).type = type
  BY <1>6
<1>. QED BY <1>4, <1>5, <1>7

LEMMA FilteredRows ==
    ASSUME NEW q
    PROVE  LET targets == {Choosing!Target(o) : o \in Restorable}
           IN  /\ Choosing!_filter(targets, q, FALSE, TRUE) = {Choosing!Target(o) : o \in InSite(q)}
               /\ Choosing!_filter(targets, q, TRUE, FALSE) = {Choosing!Target(o) : o \in OfType(q)}
               /\ Choosing!_filter(targets, q, TRUE, TRUE) = {Choosing!Target(o) : o \in InSite(q) \intersect OfType(q)}
<1>1. \A o : (q.scope \in {"all", Choosing!Target(o).object.scope} /\ Choosing!Found(q, Choosing!Target(o)))
                <=> Asked(q, o)
  BY TargetFields DEF Choosing!Found, Asked
<1>. DEFINE targets == {Choosing!Target(o) : o \in Restorable}
<1>2. Choosing!_filter(targets, q, FALSE, TRUE) = {Choosing!Target(o) : o \in InSite(q)}
  BY <1>1, TargetFields DEF Choosing!_filter, InSite
<1>3. Choosing!_filter(targets, q, TRUE, FALSE) = {Choosing!Target(o) : o \in OfType(q)}
  BY <1>1, TargetFields DEF Choosing!_filter, OfType
<1>4. Choosing!_filter(targets, q, TRUE, TRUE) = {Choosing!Target(o) : o \in InSite(q) \intersect OfType(q)}
  BY <1>1, TargetFields DEF Choosing!_filter, InSite, OfType
<1>. QED BY <1>2, <1>3, <1>4

\* As many rows as objects, of either kind.
LEMMA CountsOfRows ==
    ASSUME Choosing!RanksAssumption, NEW S, S \subseteq Choosing!Stored, NEW type
    PROVE  Choosing!Cardinality({r \in {Lookup(o) : o \in S} : r.object.type = type})
               = Choosing!Cardinality({t \in {Choosing!Target(o) : o \in S} : t.object.type = type})
<1>. DEFINE T == {o \in S : o.type = type}
            rows == {Lookup(o) : o \in T}
            targets == {Choosing!Target(o) : o \in T}
<1>1. IsFiniteSet(T)
  BY StoredAreFinite, FS_Subset DEF Choosing!Stored
<1>2. {r \in {Lookup(o) : o \in S} : r.object.type = type} = rows
  BY LookupFields
<1>3. {t \in {Choosing!Target(o) : o \in S} : t.object.type = type} = targets
  BY TargetFields
<1>4. ExistsBijection(T, rows)
 <2>. DEFINE f == [o \in T |-> Lookup(o)]
 <2>1. f \in Bijection(T, rows)
   BY LookupFields DEF Bijection, Injection, Surjection, IsInjective
 <2>. QED BY <2>1 DEF ExistsBijection
<1>5. ExistsBijection(T, targets)
 <2>. DEFINE f == [o \in T |-> Choosing!Target(o)]
 <2>1. f \in Bijection(T, targets)
   BY TargetFields DEF Bijection, Injection, Surjection, IsInjective
 <2>. QED BY <2>1 DEF ExistsBijection
<1>. HIDE DEF T, rows, targets
<1>6. Cardinality(rows) = Cardinality(targets)
  BY <1>1, <1>4, <1>5, FS_Bijection
<1>7. \A X : Choosing!Cardinality(X) = Cardinality(X)
  BY Zenon DEF Choosing!Cardinality, Cardinality
<1>. QED BY <1>2, <1>3, <1>6, <1>7

LEMMA PagesAlike ==
    ASSUME Choosing!RanksAssumption, PointInv, NEW q
    PROVE  {Choosing!_target(r) : r \in Choosing!_pipeline(q).site \intersect Choosing!_pipeline(q).type}
               = Choosing!_filter({Choosing!Target(o) : o \in Restorable}, q, TRUE, TRUE)
<1>. DEFINE both == InSite(q) \intersect OfType(q)
<1>1. Choosing!_pipeline(q).site \intersect Choosing!_pipeline(q).type = {Lookup(o) : o \in both}
  BY PipelineRows, LookupFields
<1>2. \A o \in both : Choosing!_target(Lookup(o)) = Choosing!Target(o)
  BY TargetsAlike DEF InSite, Restorable
<1>. HIDE DEF both
<1>3. {Choosing!_target(r) : r \in {Lookup(o) : o \in both}} = {Choosing!Target(o) : o \in both}
  BY <1>2
<1>. QED BY <1>1, <1>3, FilteredRows DEF both

LEMMA TypesAlike ==
    ASSUME Choosing!RanksAssumption, PointInv, NEW q
    PROVE  LET site == Choosing!_pipeline(q).site
               targets == Choosing!_filter({Choosing!Target(o) : o \in Restorable}, q, FALSE, TRUE)
               counted(type) == Choosing!Cardinality({r \in site : r.object.type = type})
               counts == [type \in {t.object.type : t \in targets} |->
                              Choosing!Cardinality({t \in targets : t.object.type = type})]
           IN  {<<r.object.type, counted(r.object.type)>> : r \in site}
                   = {<<type, counts[type]>> : type \in DOMAIN counts}
<1>. DEFINE S == InSite(q)
            site == Choosing!_pipeline(q).site
            targets == Choosing!_filter({Choosing!Target(o) : o \in Restorable}, q, FALSE, TRUE)
            counted(type) == Choosing!Cardinality({r \in site : r.object.type = type})
            counting(type) == Choosing!Cardinality({t \in targets : t.object.type = type})
            counts == [type \in {t.object.type : t \in targets} |-> counting(type)]
<1>1. site = {Lookup(o) : o \in S} /\ targets = {Choosing!Target(o) : o \in S}
  BY PipelineRows, FilteredRows
<1>2. S \subseteq Choosing!Stored
  BY DEF InSite, Restorable
<1>. HIDE DEF site, targets, S
<1>3. ASSUME NEW type
      PROVE  counted(type) = counting(type)
 <2>. HIDE DEF counted, counting
 <2>1. counted(type) = Choosing!Cardinality({r \in {Lookup(o) : o \in S} : r.object.type = type})
   BY <1>1, Zenon DEF counted
 <2>2. counting(type) = Choosing!Cardinality({t \in {Choosing!Target(o) : o \in S} : t.object.type = type})
   BY <1>1, Zenon DEF counting
 <2>3. Choosing!Cardinality({r \in {Lookup(o) : o \in S} : r.object.type = type})
           = Choosing!Cardinality({t \in {Choosing!Target(o) : o \in S} : t.object.type = type})
   BY <1>2, CountsOfRows, ZenonT(30)
 <2>. HIDE DEF Choosing!Cardinality
 <2>. QED BY <2>1, <2>2, <2>3, Zenon
<1>. HIDE DEF counted, counting
<1>4. {<<r.object.type, counted(r.object.type)>> : r \in site} = {<<o.type, counting(o.type)>> : o \in S}
 <2>1. \A o : Lookup(o).object = o
   BY LookupFields
 <2>. QED BY <1>1, <1>3, <2>1
<1>5. {t.object.type : t \in targets} = {o.type : o \in S}
 <2>1. \A o : Choosing!Target(o).object = o
   BY TargetFields
 <2>. QED BY <1>1, <2>1
<1>6. {<<type, counts[type]>> : type \in DOMAIN counts} = {<<o.type, counting(o.type)>> : o \in S}
 <2>1. DOMAIN counts = {o.type : o \in S} /\ \A type \in DOMAIN counts : counts[type] = counting(type)
   BY <1>5
 <2>. HIDE DEF counts
 <2>. QED BY <2>1
<1>. QED BY <1>4, <1>6 DEF counted, counting, site, targets

LEMMA SitesAlike ==
    ASSUME Choosing!RanksAssumption, PointInv, NEW q
    PROVE  LET type == Choosing!_pipeline(q).type
               targets == Choosing!_filter({Choosing!Target(o) : o \in Restorable}, q, TRUE, FALSE)
           IN  {<<r.site, IF r.site_name = {} THEN r.site ELSE CHOOSE n \in r.site_name : TRUE>> :
                    r \in {x \in type : x.site # "none"}}
                   = {<<t.site, IF t.site_name = {} THEN t.site ELSE CHOOSE n \in t.site_name : TRUE>> :
                          t \in {x \in targets : x.site # "none"}}
<1>. DEFINE S == OfType(q)
            type == Choosing!_pipeline(q).type
            targets == Choosing!_filter({Choosing!Target(o) : o \in Restorable}, q, TRUE, FALSE)
            shown(r) == <<r.site, IF r.site_name = {} THEN r.site ELSE CHOOSE n \in r.site_name : TRUE>>
<1>1. type = {Lookup(o) : o \in S} /\ targets = {Choosing!Target(o) : o \in S}
  BY PipelineRows, FilteredRows
<1>2. \A o \in S : shown(Lookup(o)) = shown(Choosing!Target(o)) /\ Lookup(o).site = Choosing!Target(o).site
 <2>. SUFFICES ASSUME NEW o \in S
               PROVE  shown(Lookup(o)) = shown(Choosing!Target(o)) /\ Lookup(o).site = Choosing!Target(o).site
   OBVIOUS
 <2>1. Lookup(o).site_name = Choosing!Target(o).site_name
   BY TargetsAlike DEF OfType, Restorable
 <2>2. Lookup(o).site = Choosing!Target(o).site
   BY LookupFields, TargetFields
 <2>. DEFINE a == Lookup(o)
             b == Choosing!Target(o)
 <2>3. a.site_name = b.site_name /\ a.site = b.site
   BY <2>1, <2>2
 <2>. HIDE DEF a, b
 <2>4. shown(a) = shown(b)
  <3>. DEFINE label(n, k) == IF n = {} THEN k ELSE CHOOSE x \in n : TRUE
  <3>1. \A r : shown(r) = <<r.site, label(r.site_name, r.site)>>
    OBVIOUS
  <3>. HIDE DEF label, shown
  <3>. QED BY <2>3, <3>1
 <2>. QED BY <2>4, <2>2, Zenon DEF a, b
<1>. HIDE DEF shown, S, type, targets
<1>3. {shown(r) : r \in {x \in type : x.site # "none"}} = {shown(t) : t \in {x \in targets : x.site # "none"}}
  BY <1>1, <1>2
<1>. QED BY <1>3 DEF shown, type, targets

\* services/restore_targets.py: the aggregation a deployment runs answers every search
\* as the reference does that specifies it: the same page in the same order, the same
\* total, the same counts of types, and the same sites.
THEOREM TheSearchesAgree ==
    ASSUME Choosing!RanksAssumption
    PROVE  Choosing!Spec => []Choosing!SearchesAgree
<1>1. PointInv => Choosing!SearchesAgree
 <2>. SUFFICES ASSUME PointInv, NEW q \in Choosing!Queries
               PROVE  Choosing!MongoSearch(q) = Choosing!InMemorySearch(q)
   BY Zenon DEF Choosing!SearchesAgree
 <2>. DEFINE site == Choosing!_pipeline(q).site
             type == Choosing!_pipeline(q).type
             found == {Choosing!Target(o) : o \in Restorable}
             listed == {Choosing!_target(r) : r \in site \intersect type}
             page == Choosing!Sorted([t \in listed |-> Choosing!InPage(t)])
             counted(k) == Choosing!Cardinality({r \in site : r.object.type = k})
             types == {<<r.object.type, counted(r.object.type)>> : r \in site}
             sites == {<<r.site, IF r.site_name = {} THEN r.site ELSE CHOOSE n \in r.site_name : TRUE>> :
                           r \in {x \in type : x.site # "none"}}
             matched == Choosing!_filter(found, q, TRUE, TRUE)
             ordered == Choosing!Sorted([t \in matched |-> Choosing!InPage(t)])
 <2>1. Choosing!MongoSearch(q) =
           [items |-> Choosing!Head_(SubSeq(page, q.skip + 1, Len(page)), Limit), total |-> Len(page),
            types |-> Choosing!Sorted([row \in types |-> Choosing!ByCount(row)]),
            sites |-> Choosing!Sorted([row \in sites |-> Choosing!ByName(row)])]
   BY Zenon DEF Choosing!MongoSearch, Choosing!None
 <2>2. Choosing!InMemorySearch(q) =
           [items |-> Choosing!Head_(SubSeq(ordered, q.skip + 1, Len(ordered)), Limit), total |-> Len(ordered),
            types |-> Choosing!_type_facets(Choosing!_filter(found, q, FALSE, TRUE)),
            sites |-> Choosing!_site_facets(Choosing!_filter(found, q, TRUE, FALSE))]
  <3>1. found = {Choosing!Target(o) : o \in {x \in Choosing!Stored : Choosing!restorable_versions(x) # {}}}
    BY Zenon DEF Restorable
  <3>. QED BY <3>1, Zenon DEF Choosing!InMemorySearch
 <2>3. page = ordered
  <3>1. listed = matched
    BY PagesAlike
  <3>. HIDE DEF listed, matched
  <3>. QED BY <3>1
 <2>4. Choosing!_type_facets(Choosing!_filter(found, q, FALSE, TRUE))
           = Choosing!Sorted([row \in types |-> Choosing!ByCount(row)])
  <3>. DEFINE targets == Choosing!_filter(found, q, FALSE, TRUE)
              counts == [k \in {t.object.type : t \in targets} |->
                             Choosing!Cardinality({t \in targets : t.object.type = k})]
              rows == {<<k, counts[k]>> : k \in DOMAIN counts}
  <3>1. types = rows
    BY TypesAlike, Zenon
  <3>2. Choosing!_type_facets(targets) = Choosing!Sorted([row \in rows |-> Choosing!ByCount(row)])
    BY Zenon DEF Choosing!_type_facets
  <3>. HIDE DEF types, rows
  <3>. QED BY <3>1, <3>2
 <2>5. Choosing!_site_facets(Choosing!_filter(found, q, TRUE, FALSE))
           = Choosing!Sorted([row \in sites |-> Choosing!ByName(row)])
  <3>. DEFINE targets == Choosing!_filter(found, q, TRUE, FALSE)
              rows == {<<t.site, IF t.site_name = {} THEN t.site ELSE CHOOSE n \in t.site_name : TRUE>> :
                           t \in {x \in targets : x.site # "none"}}
  <3>1. sites = rows
    BY SitesAlike, Zenon
  <3>2. Choosing!_site_facets(targets) = Choosing!Sorted([row \in rows |-> Choosing!ByName(row)])
    BY Zenon DEF Choosing!_site_facets, Choosing!None
  <3>. HIDE DEF sites, rows
  <3>. QED BY <3>1, <3>2
 <2>. HIDE DEF page, ordered, types, sites
 <2>. QED BY <2>1, <2>2, <2>3, <2>4, <2>5, Zenon
<1>. QED BY <1>1, PointInit, PointStep, PTL DEF Choosing!Spec

=============================================================================
