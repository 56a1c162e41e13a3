--------------------------- MODULE DeviceFollowups ---------------------------
\* What monitoring says of a device's condition as captures come in after a
\* change (services/device_impact.py, monitoring.py _compare_due_states).  A
\* capture may lack a whole source, a row, or a field; a finding is made when a
\* capture shows harm against the baseline and must stand until a capture shows
\* the recovery.  The device is one powered switch port that was up, one peer,
\* one WLAN, one radio that had clients, and the device's own gauges.
EXTENDS Integers, Sequences, FiniteSets, FiniteSetsExt

CONSTANTS
    Captures,     \* the captures a follow-up may return, the baseline among them
    Baseline,
    MaxFollowups

VARIABLES followups, initial, current, recovered
vars == <<followups, initial, current, recovered>>

\* A capture: a source that is not available is {}, a row that is missing is
\* {"absent"}, otherwise the row's fields, each {} where the capture omits it.
Sources == {"device", "wlans", "ports", "radios", "peers"}
available(o) == {s \in Sources : o[s] # {}}
Row(o, source) == IF o[source] = {} THEN {} ELSE o[source] \ {[absent |-> TRUE]}
Absent(o, source) == o[source] = {[absent |-> TRUE]}
Shows(o, source, field, value) == \E r \in Row(o, source) : r[field] = {value}
Value(o, source, field) == UNION {r[field] : r \in Row(o, source)}
CapturesAssumption == \A c \in Captures : \A s \in Sources : \A q, r \in Row(c, s) : q = r

finding_source(kind) ==
    CASE kind \in {"port_down", "poe_power_lost", "interface_errors"} -> "ports"
      [] kind = "ssid_removed" -> "wlans"
      [] kind \in {"radio_missing", "radio_wlans_reduced"} -> "radios"
      [] kind = "peer_down" -> "peers"
      [] OTHER -> "device"
Incremental == {"device_restarted", "interface_errors"}

------------------------
\* compare_device_states: harm, only where both collections are complete.
_rise(before, after) == \E x \in before, y \in after : y > x
_fall(before, after) == \E x \in before, y \in after : y < x
_powered(before) == Shows(before, "ports", "poe", TRUE) /\ Shows(before, "ports", "up", TRUE)
_ports(before, after) ==
    {k \in {"poe_power_lost"} : _powered(before) /\ Shows(after, "ports", "poe", FALSE)}
    \union {k \in {"port_down"} : /\ ~(_powered(before) /\ Shows(after, "ports", "poe", FALSE))
                                  /\ Shows(before, "ports", "up", TRUE)
                                  /\ Absent(after, "ports") \/ Shows(after, "ports", "up", FALSE)}
    \union {k \in {"interface_errors"} :
               _rise(Value(before, "ports", "errors"), Value(after, "ports", "errors"))}
_device_findings(before, after) ==
    {k \in {"device_disconnected"} : Shows(before, "device", "connected", TRUE)
                                     /\ Shows(after, "device", "connected", FALSE)}
    \union {k \in {"device_restarted"} : _fall(Value(before, "device", "uptime"), Value(after, "device", "uptime"))}
    \union {k \in {"cpu_util"} : _rise(Value(before, "device", "cpu"), Value(after, "device", "cpu"))}
_wlans(before, after) ==
    {k \in {"ssid_removed"} : /\ Row(before, "wlans") # {} /\ ~Shows(before, "wlans", "enabled", FALSE)
                              /\ Absent(after, "wlans") \/ Shows(after, "wlans", "enabled", FALSE)}
_peers(before, after) ==
    {k \in {"peer_down"} : /\ Shows(before, "peers", "up", TRUE)
                           /\ Absent(after, "peers") \/ Shows(after, "peers", "up", FALSE)}
_radios(before, after) ==
    {k \in {"radio_missing"} : Row(before, "radios") # {} /\ Absent(after, "radios")}
    \union {k \in {"radio_wlans_reduced"} :
               _fall(Value(before, "radios", "num_wlans"), Value(after, "radios", "num_wlans"))}
compare_device_states(before, after) ==
    LET common == available(before) \intersect available(after)
    IN  {k \in _ports(before, after) \union _device_findings(before, after) \union _wlans(before, after)
               \union _peers(before, after) \union _radios(before, after) : finding_source(k) \in common}

------------------------
\* refresh_device_findings: a missing field is no recovery.
Field(kind) == CASE kind = "device_restarted" -> "uptime" [] kind = "interface_errors" -> "errors"
                 [] kind = "cpu_util" -> "cpu" [] kind = "radio_wlans_reduced" -> "num_wlans"
_interval_measured(kind, previous, latest) ==
    \E p \in previous : \A o \in {p, latest} : Value(o, finding_source(kind), Field(kind)) # {}
_measurement_present(kind, latest) ==
    IF kind \in {"ssid_removed", "radio_missing"} THEN Row(latest, finding_source(kind)) # {}
    ELSE Value(latest, finding_source(kind), Field(kind)) # {}
_recovery_observedSlip(kind, latest, previous) == kind \notin compare_device_states(Baseline, latest)
_recovery_observedStale(kind, latest, previous) ==
    \E o \in previous : kind \notin compare_device_states(Baseline, o)
_recovery_observed(kind, latest, previous) ==
    CASE kind \in Incremental -> _interval_measured(kind, previous, latest)
      [] kind = "poe_power_lost" -> Shows(latest, "ports", "up", TRUE) /\ Shows(latest, "ports", "poe", TRUE)
      [] kind \in {"port_down", "peer_down"} -> Shows(latest, finding_source(kind), "up", TRUE)
      [] kind = "device_disconnected" -> Shows(latest, "device", "connected", TRUE)
      [] OTHER -> _measurement_present(kind, latest)

refresh_device_findings(latest, previous, before) ==
    LET found == compare_device_states(Baseline, latest)
        now == IF before = {} THEN found
               ELSE (found \ Incremental)
                    \union UNION {compare_device_states(p, latest) \intersect Incremental : p \in before}
        common == available(Baseline) \intersect available(latest)
    IN  now \union {k \in previous : finding_source(k) \notin common \/ ~_recovery_observed(k, latest, before)}

\* _compare_due_states, with the capture a due follow-up returned.
Init == followups = <<>> /\ initial = {} /\ current = {} /\ recovered = FALSE
_compare_due_states(capture) ==
    LET before == IF followups = <<>> THEN {} ELSE {followups[Len(followups)]}
        now == refresh_device_findings(capture, current, before)
    IN  /\ Len(followups) < MaxFollowups
        /\ followups' = Append(followups, capture)
        /\ initial' = IF followups = <<>> THEN compare_device_states(Baseline, capture) ELSE initial
        /\ current' = now
        /\ recovered' = IF now # {} THEN FALSE ELSE recovered \/ current # {}
Next == \E capture \in Captures : _compare_due_states(capture)
Spec == Init /\ [][Next]_vars

------------------------
\* Properties, against the whole history of captures.
\* What a capture shows harmed, and what it shows well: the port's link, its
\* power, the peer and the device's own connection.
Shown == [link |-> <<"ports", "up">>, power |-> <<"ports", "poe">>,
          peer |-> <<"peers", "up">>, device |-> <<"device", "connected">>]
Harmed(o) ==
    {x \in DOMAIN Shown : \/ Shows(o, Shown[x][1], Shown[x][2], FALSE)
                          \/ x \in {"link", "peer"} /\ Absent(o, Shown[x][1])}
Well(o) ==
    {x \in DOMAIN Shown : /\ Shows(o, Shown[x][1], Shown[x][2], TRUE)
                          /\ x = "power" => Shows(o, "ports", "up", TRUE)}
Reported(x) ==
    \E k \in current \ Incremental : finding_source(k) = Shown[x][1] /\ k \notin {"cpu_util"}

\* Harm a capture showed stays reported until a later capture shows that very
\* thing well again: a capture that failed, lacks the row or omits the field
\* clears nothing, nor does another harm on the same port in its place.
HarmOutlivesSilence ==
    \A i \in DOMAIN followups : \A x \in Harmed(followups[i]) \intersect Well(Baseline) :
        Reported(x) \/ \E j \in i + 1 .. Len(followups) : x \in Well(followups[j])

\* And nothing is reported of a source the last capture shows well throughout.
WellIsCleared ==
    followups # <<>> =>
        \A x \in {"peer", "device"} \union {y \in {"link"} : "power" \in Well(followups[Len(followups)])} :
            x \in Well(followups[Len(followups)]) => ~Reported(x)
=============================================================================
