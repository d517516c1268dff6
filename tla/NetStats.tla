------------------------------ MODULE NetStats ------------------------------
(***************************************************************************)
(* Net::collect() of linux/btop_collect.cpp and the keys of the net box    *)
(* that work on what it collected (btop_input.cpp).                        *)
(*                                                                         *)
(* The kernel's byte counters only grow, until the interface goes away or  *)
(* its driver restarts them; collect() reads them now and then and keeps,  *)
(* for each interface and direction, a total that survives restarts and    *)
(* that the user can zero.  A counter that cannot be read counts as zero,  *)
(* which collect() takes for a restart.  Speeds, the history and the scale *)
(* of the graphs, and addresses are left out: nothing below depends on     *)
(* them.  The 64-bit sums do not wrap here, as the guard in the code        *)
(* supposes (that guard, a sum of two unsigned numbers compared with the   *)
(* largest one, is never true).                                            *)
(***************************************************************************)
EXTENDS Integers, FiniteSets, Sequences

CONSTANTS
  IfaceOrder,  \* every interface there can be, in the order of getifaddrs()
  Permanent,   \* the interfaces that never go away: the loopback
  ConfigIface, \* net_iface
  NoIface,     \* the empty string
  Busy,        \* the <<interface, direction>> pairs that carry bytes
  MaxSent,     \* bound on the bytes an interface carries in both directions
  MaxAgain     \* bound on those that failed readings make count again

Dirs == {"download", "upload"}   \* NetDir
Ifaces == {IfaceOrder[n] : n \in DOMAIN IfaceOrder}
Links == Ifaces \X Dirs

ASSUME IfaceAssumption ==
  /\ IfaceOrder \in Seq(STRING)
  /\ Permanent \subseteq Ifaces /\ Permanent # {}
  /\ NoIface \notin Ifaces
ASSUME SentAssumption == MaxSent \in Nat /\ MaxAgain \in Nat /\ Busy \subseteq Links

VARIABLES
  live,          \* interfaces the kernel has
  counter,       \* rx_bytes, tx_bytes
  sent,          \* bytes carried since the interface came up
  interfaces,    \* Net::interfaces, as a set, and the keys of current_net
  stat,          \* the net_stat of the interfaces
  selectedIface, \* selected_iface
  errors,        \* errors
  collected,     \* collect() has succeeded before
  again          \* history variable: the bytes that failed readings made
                 \* collect() count a second time

netVars == <<live, counter, sent, interfaces, stat, selectedIface, errors, collected, again>>
kernel == <<live, counter, sent>>
program == <<interfaces, stat, selectedIface, errors, collected, again>>

Stats == [last : Nat, rollover : Nat, offset : Nat, total : Nat]
Zero == [last |-> 0, rollover |-> 0, offset |-> 0, total |-> 0]

NetTypeOK ==
  /\ Permanent \subseteq live /\ live \subseteq Ifaces
  /\ counter \in [Links -> Nat] /\ sent \in [Links -> Nat]
  /\ interfaces \subseteq Ifaces
  /\ stat \in [Links -> Stats]
  /\ selectedIface \in Ifaces \cup {NoIface}
  /\ errors \in 0 .. 3
  /\ collected \in BOOLEAN
  /\ again \in [Links -> Nat]

NetInit ==
  /\ live = Ifaces
  /\ counter = [l \in Links |-> 0] /\ sent = counter
  /\ interfaces = {}
  /\ stat = [l \in Links |-> Zero]
  /\ selectedIface = NoIface
  /\ errors = 0
  /\ collected = FALSE
  /\ again = [l \in Links |-> 0]

---------------------------------------------------------------------------
(* The kernel.                                                             *)

\* In both directions, for the bounds.
Both(bytes, i) == bytes[<<i, "download">>] + bytes[<<i, "upload">>]

Traffic ==
  /\ \E l \in Busy :
       /\ l[1] \in live
       /\ Both(sent, l[1]) < MaxSent
       /\ counter' = [counter EXCEPT ![l] = @ + 1]
       /\ sent' = [sent EXCEPT ![l] = @ + 1]
  /\ UNCHANGED <<live, program>>

\* A driver restarts its counters.
Restart ==
  /\ \E i \in live :
       counter' = [l \in Links |-> IF l[1] = i THEN 0 ELSE counter[l]]
  /\ UNCHANGED <<live, sent, program>>

Vanish ==
  /\ \E i \in live \ Permanent : live' = live \ {i}
  /\ UNCHANGED <<counter, sent, program>>

\* An interface of that name comes up; what collect() still has of an earlier
\* one counts towards the bytes its total may show.
Appear ==
  /\ \E i \in Ifaces \ live :
       /\ live' = live \cup {i}
       /\ counter' = [l \in Links |-> IF l[1] = i THEN 0 ELSE counter[l]]
       /\ sent' = [l \in Links |-> IF l[1] = i /\ i \notin interfaces THEN 0 ELSE sent[l]]
  /\ UNCHANGED program

---------------------------------------------------------------------------
(* collect()                                                               *)

\* A counter below its last value has restarted: what it had counted until
\* then moves to rollover.
RolloverDropped(s, val) == IF val < s.last THEN s.last ELSE s.rollover  \* slip: keeps the last restart only
RolloverAlways(s, val) == s.rollover + s.last                           \* slip: adds at every reading
Rollover(s, val) == IF val < s.last THEN s.rollover + s.last ELSE s.rollover

Updated(s, val) ==
  LET counted == val + Rollover(s, val)
      offset == IF s.offset > counted THEN 0 ELSE s.offset
  IN  [last |-> val, rollover |-> Rollover(s, val), offset |-> offset,
       total |-> counted - offset]

\* A file that cannot be opened or parsed, like that of an interface which
\* went away since getifaddrs() listed it, reads as 0; to a counter at 0 that
\* makes no difference.
Reading(l, failed) == IF l \in failed THEN 0 ELSE counter[l]

\* current_net forgets the interfaces that are not listed any more.
Read(l, failed) == IF l[1] \in live THEN Updated(stat[l], Reading(l, failed)) ELSE Zero

\* A failed reading of a counter that has not restarted: its last value goes
\* to rollover, and is part of the next reading as well.
CountedAgain(l, failed) ==
  CASE l[1] \notin live -> 0
    [] l \in failed /\ stat[l].last <= counter[l] -> again[l] + stat[l].last
    [] OTHER -> again[l]

SumOf(st, i) == st[<<i, "download">>].total + st[<<i, "upload">>].total

\* Which interface is shown: the one that is, while it is listed; else the
\* configured one; else a connected one with the largest total; else any
\* with the largest total.
Largest(S, st) == {i \in S : \A j \in S : SumOf(st, j) <= SumOf(st, i)}
Replacement(listed, st, connected) ==
  IF ConfigIface \in listed THEN {ConfigIface}
  ELSE Largest(IF connected # {} THEN connected ELSE listed, st)
ShownKept(listed, st, connected) ==      \* slip: only an empty name is replaced
  IF selectedIface # NoIface THEN {selectedIface} ELSE Replacement(listed, st, connected)
Shown(listed, st, connected) ==
  IF selectedIface \in listed THEN {selectedIface} ELSE Replacement(listed, st, connected)

\* The part of collect() behind the update; connected is what IFF_RUNNING
\* said at the last update.
Select(listed, st) ==
  IF listed = {}
  THEN selectedIface' = selectedIface
  ELSE selectedIface' \in UNION {Shown(listed, st, connected) : connected \in SUBSET listed}

CollectUpdates ==
  /\ errors < 3
  /\ interfaces' = live
  /\ \E failed \in SUBSET {l \in Links : l[1] \in live /\ counter[l] > 0} :
       /\ stat' = [l \in Links |-> Read(l, failed)]
       /\ again' = [l \in Links |-> CountedAgain(l, failed)]
  /\ \A i \in Ifaces : Both(again', i) <= MaxAgain
  /\ Select(interfaces', stat')
  /\ collected' = TRUE
  /\ UNCHANGED <<errors, kernel>>

\* getifaddrs() fails: the third time is the last.
CollectFails ==
  /\ errors < 3
  /\ errors' = errors + 1
  /\ UNCHANGED <<interfaces, stat, selectedIface, collected, again, kernel>>

\* no_update, or three failures: only the selection is looked at.
CollectSkips ==
  /\ Select(interfaces, stat)
  /\ UNCHANGED <<interfaces, stat, errors, collected, again, kernel>>

---------------------------------------------------------------------------
(* Keys of the net box, which wait for the runner first.                   *)

\* b, n: the previous and the next interface of the list, around its ends.
Listed == {n \in DOMAIN IfaceOrder : IfaceOrder[n] \in interfaces}
Follows(n, m) == \/ n < m /\ \A k \in Listed : k <= n \/ m <= k
                 \/ \A k \in Listed : m <= k /\ k <= n

Cycle ==
  /\ \E n, m \in Listed : /\ IfaceOrder[n] = selectedIface
                          /\ Follows(n, m) \/ Follows(m, n)
                          /\ selectedIface' = IfaceOrder[m]
  /\ UNCHANGED <<interfaces, stat, errors, collected, again, kernel>>

\* z: totals start from zero, or stop doing so.
Offset(s, zeroed) == IF zeroed THEN 0 ELSE s.last + s.rollover

ZeroTotals ==
  /\ selectedIface \in interfaces
  /\ LET zeroed == \E d \in Dirs : stat[<<selectedIface, d>>].offset > 0
     IN  stat' = [l \in Links |->
                    IF l[1] = selectedIface
                    THEN [stat[l] EXCEPT !.offset = Offset(stat[l], zeroed)]
                    ELSE stat[l]]
  /\ UNCHANGED <<interfaces, selectedIface, errors, collected, again, kernel>>

NetNext == \/ Traffic \/ Restart \/ Vanish \/ Appear
           \/ CollectUpdates \/ CollectFails \/ CollectSkips
           \/ Cycle \/ ZeroTotals

NetSpec == NetInit /\ [][NetNext]_netVars

---------------------------------------------------------------------------
(* Properties.                                                             *)

\* However often counters restart and interfaces come and go between the
\* readings, a total claims no more bytes than were carried, and what each
\* failed reading added to that: the one last value it took for the end of a
\* counter.  While no reading fails, nothing is counted twice.
\* (Net::collect, rollover and offset)
NeverOvercounts ==
  \A l \in interfaces \X Dirs :
    /\ stat[l].last + stat[l].rollover <= sent[l] + again[l]
    /\ stat[l].total <= sent[l] + again[l]

\* A total only falls when the user has zeroed it: a restarted counter is
\* not seen by the user.  (Net::collect against the z key)
TotalOnlyGrows ==
  [][\A l \in (interfaces \cap interfaces') \X Dirs :
       stat'[l].total < stat[l].total => stat[l].offset > 0]_netVars

\* Once collect() has succeeded, the interface on display is one current_net
\* has, so that the z key's at() finds it, whatever vanishes.
\* (Net::collect against Input::process)
SelectedKnown == collected => selectedIface \in interfaces
=============================================================================
