------------------------------- MODULE Discovery -------------------------------
(***************************************************************************)
(* Asking the network what the device at an address calls itself: browse     *)
(* each service type in turn, resolve every instance seen to a host and the  *)
(* host to addresses, and take the name whose address it is, all within one  *)
(* allowance of time.                                                       *)
(*                                                                         *)
(* The devices on the network and the responder that asks them are the       *)
(* environment: an answer takes any time, or never comes.                   *)
(***************************************************************************)
EXTENDS Integers, FiniteSets

CONSTANTS Services,    \* how many service types are browsed
          Budget       \* the time allowed, `within`

\* No time at all is no lookup.
ASSUME DiscoveryAssumption == Services \in Nat \ {0} /\ Budget \in Nat \ {0}

Slice == Budget \div Services

\* What may be announced: the device asked about, under a name or under nothing but the
\* decoration tidy strips; another one; one whose host has several addresses, this among
\* them; one that does not resolve, and one whose host has no address any more.
Instance == {"asked", "nameless", "other", "several", "asleep", "gone"}

Addresses(i) ==
    CASE i \in {"asked", "nameless"} -> {"this"}
      [] i = "several"               -> {"this", "that"}
      [] i = "other"                 -> {"that"}
      [] OTHER                       -> {}

VARIABLES clock,
          service,    \* the type being asked about
          browsed,    \* history: types browsed for as long as they were given
          stage, queue,  \* where name_for is; the instances it has yet to look at
          instance, found,
          met         \* history: some instance was asked for its host

discoveryVars == <<clock, service, browsed, stage, queue, instance, found, met>>

Nobody == "nobody"

DiscoveryInit ==
    /\ met = FALSE
    /\ clock = 0 /\ service = 1 /\ browsed = {} /\ stage = "service" /\ queue = {}
    /\ instance = Nobody /\ found = Nobody

\* pump: an answer within the deadline, or the deadline.
Pump(deadline, answers) ==
    \/ clock' = (IF clock > deadline THEN clock ELSE deadline)
    \/ answers /\ clock' \in clock..deadline

-----------------------------------------------------------------------------
\* Faulty variant: one type more is asked about than there are.
NextServiceTooMany ==
    /\ stage = "service"
    /\ stage' = IF service > Services + 1 \/ clock >= Budget THEN "done" ELSE "browse"
    /\ UNCHANGED <<clock, service, browsed, queue, instance, found, met>>

NextService ==
    /\ stage = "service"
    /\ stage' = IF service > Services \/ clock >= Budget THEN "done" ELSE "browse"
    /\ UNCHANGED <<clock, service, browsed, queue, instance, found, met>>

\* Faulty variant: a browse runs until the whole lookup must end.
BrowseLong ==
    /\ stage = "browse"
    /\ Pump(Budget, FALSE)
    /\ queue' \in SUBSET Instance
    /\ browsed' = browsed \union {service}
    /\ stage' = "instances"
    /\ UNCHANGED <<service, instance, found, met>>

\* Faulty variant: a slice is a slice, whatever is left of the allowance.
BrowsePastTheEnd ==
    /\ stage = "browse"
    /\ Pump(clock + Slice, FALSE)
    /\ queue' \in SUBSET Instance
    /\ browsed' = browsed \union {service}
    /\ stage' = "instances"
    /\ UNCHANGED <<service, instance, found, met>>

\* browse: a subscription, so it runs to its slice of the time and keeps what was seen.
Browse ==
    /\ stage = "browse"
    /\ Pump(IF clock + Slice < Budget THEN clock + Slice ELSE Budget, FALSE)
    /\ queue' \in SUBSET Instance
    /\ browsed' = browsed \union {service}
    /\ stage' = "instances"
    /\ UNCHANGED <<service, instance, found, met>>

\* The responder refuses the query.
BrowseFails ==
    /\ stage = "browse"
    /\ queue' = {} /\ stage' = "instances"
    /\ browsed' = browsed \union {service}
    /\ UNCHANGED <<clock, service, instance, found, met>>

NextInstance ==
    /\ stage = "instances"
    /\ IF queue = {} \/ clock >= Budget
       THEN /\ stage' = "service" /\ service' = service + 1 /\ queue' = {}
            /\ UNCHANGED instance
       ELSE /\ stage' = "resolve" /\ UNCHANGED service
            /\ \E i \in queue : instance' = i /\ queue' = queue \ {i}
    /\ UNCHANGED <<clock, browsed, found, met>>

\* host_for: whoever does not answer is waited for until the lookup must end.
HostFor ==
    /\ stage = "resolve" /\ met' = TRUE
    /\ \/ /\ instance # "asleep" /\ Pump(Budget, TRUE)
          /\ stage' = "address"
       \/ /\ instance = "asleep" /\ Pump(Budget, FALSE)
          /\ stage' = "instances"
    /\ UNCHANGED <<service, browsed, queue, instance, found>>

\* Faulty variant: any address will do.
AddressesOfAny ==
    /\ stage = "address"
    /\ IF Addresses(instance) = {}
       THEN Pump(Budget, FALSE) /\ stage' = "instances" /\ UNCHANGED found
       ELSE /\ Pump(Budget, TRUE)
            /\ \E heard \in SUBSET Addresses(instance) :
                  IF heard # {} /\ instance # "nameless"
                  THEN stage' = "done" /\ found' = instance
                  ELSE stage' = "instances" /\ UNCHANGED found
    /\ UNCHANGED <<service, browsed, queue, instance, met>>

\* addresses_of: what the first answer brings, which may not be all; a name that tidies to
\* nothing is passed over.
AddressesOf ==
    /\ stage = "address"
    /\ IF Addresses(instance) = {}
       THEN Pump(Budget, FALSE) /\ stage' = "instances" /\ UNCHANGED found
       ELSE /\ Pump(Budget, TRUE)
            /\ \E heard \in SUBSET Addresses(instance) :
                  IF "this" \in heard /\ instance # "nameless"
                  THEN stage' = "done" /\ found' = instance
                  ELSE stage' = "instances" /\ UNCHANGED found
    /\ UNCHANGED <<service, browsed, queue, instance, met>>

DiscoveryNext ==
    NextService \/ Browse \/ BrowseFails \/ NextInstance \/ HostFor \/ AddressesOf

DiscoverySpec == DiscoveryInit /\ [][DiscoveryNext]_discoveryVars

-----------------------------------------------------------------------------
DiscoveryTypeOK ==
    /\ met \in BOOLEAN /\ clock \in Nat /\ service \in 1..(Services + 1) /\ browsed \subseteq 1..Services
    /\ stage \in {"service", "browse", "instances", "resolve", "address", "done"}
    /\ queue \subseteq Instance /\ instance \in Instance \union {Nobody}
    /\ found \in Instance \union {Nobody}

\* Discoverer::name_for promises an answer within the time it is given, whoever is asleep.
AnsweredInTime == clock <= Budget

\* A device is only called by a name whose host has the address it asked from.
NamesTheAsker == found # Nobody => "this" \in Addresses(found)

\* "A slice of the budget per service type, so one silent service cannot eat the whole
\* allowance and starve the rest": when nothing is found, every type was browsed, as long
\* as no instance was there to keep the lookup waiting.
SilentServicesStarveNobody ==
    stage = "done" /\ found = Nobody /\ ~met => browsed = 1..Services

\* The same whoever was met.
EveryServiceHasItsTurn == stage = "done" /\ found = Nobody => browsed = 1..Services

\* A lookup is over in its time, says only what the asker's own address bears out, and has
\* asked every kind of service before it gives up.
LookupIsRight ==
    /\ DiscoveryTypeOK
    /\ AnsweredInTime
    /\ NamesTheAsker
    /\ SilentServicesStarveNobody
=============================================================================
