---------------------------- MODULE PortMapProofs ----------------------------
(***************************************************************************)
(* What the daemon advertises is mapped in the router, for any lifetimes,  *)
(* intervals and networks, as long as the requests of a refresh take less  *)
(* time than the margin with which the Agent reads the file.               *)
(***************************************************************************)
EXTENDS PortMap, TLAPS

-----------------------------------------------------------------------------
(* The inductive invariant *)

Sure(n) == \A why \in Reasons : <<n, why>> \notin unsure

\* A request is made for a network, and only then granted; a file that is there is of one.
RealKeys ==
    /\ daemon.pc = "try" => daemon.key \in Nets
    /\ daemon.pc # "try" => daemon.granted = -1
    /\ file.key = NoNet => file.left = 0

\* The mapper and the file are ahead of the router by the time of a refresh at most.
NotAhead ==
    \A n \in Nets : Sure(n) =>
        /\ mapper.key = n => mapper.left <= lease[n] + Delay
        /\ file.key = n => file.left <= lease[n] + Delay

\* So will they be when the answer on its way arrives.
GrantHolds ==
    daemon.pc = "try" /\ daemon.granted >= 0 /\ <<daemon.key, "restart">> \notin unsure
        => daemon.granted <= lease[daemon.key] + daemon.spent

Inv == TypeOK /\ RealKeys /\ NotAhead /\ GrantHolds

-----------------------------------------------------------------------------
(* Helpers *)

LEMMA RefreshAfterType ==
    ASSUME NEW lifetime \in Times PROVE RefreshAfter(lifetime) \in Times
<1>1. lifetime \in Int /\ (2 * lifetime) \div 3 \in Int /\ Asked \in Nat \ {0} /\ Margin \in Nat
  BY TimesAssumption DEF Times
<1>2. AtLeast(1, lifetime - Margin) \in 1..Asked
  BY <1>1 DEF AtLeast, Times
<1> DEFINE third == (2 * lifetime) \div 3
           least == AtLeast(1, lifetime - Margin)
<1>3. AtMost(third, least) \in Int /\ AtMost(third, least) <= Asked
  <2> HIDE DEF third, least
  <2>1. third \in Int /\ least \in 1..Asked
    BY <1>1, <1>2 DEF third, least
  <2> QED BY <1>1, <2>1 DEF AtMost
<1> HIDE DEF third, least
<1>4. AtLeast(1, AtMost(third, least)) \in 1..Asked
  BY <1>1, <1>3 DEF AtLeast
<1> QED BY <1>1, <1>4 DEF RefreshAfter, Times, third, least

LEMMA MapperTypes ==
    ASSUME TypeOK, NEW n \in Nets, NEW lifetime \in Times
    PROVE Succeeded(n, lifetime) \in Mappers /\ Failed(mapper, n) \in Mappers
<1>1. 0 \in Times /\ Retry \in Times
  BY TimesAssumption DEF Times
<1> QED BY <1>1, RefreshAfterType DEF Succeeded, Failed, Mappers, TypeOK

\* Time passes for whatever counts it.
LEMMA LessFacts ==
    ASSUME NEW left \in Times
    PROVE Less(left) \in Times /\ Less(left) <= left /\ left <= Less(left) + 1
BY TimesAssumption DEF Less, Times

LEMMA StartedType == Started \in Daemons /\ NewMapper \in Mappers /\ NoFile.key = NoNet /\ NoFile.left = 0
BY TimesAssumption DEF Started, NewMapper, NoFile, Daemons, Mappers, Times

\* The rest of a round: the file is kept, written from the mapper, or removed.
LEMMA PublishFacts ==
    ASSUME TypeOK, NEW key \in Nets \cup {NoNet}, NEW candidate \in BOOLEAN,
           NEW refreshed \in BOOLEAN, NEW m \in Mappers,
           candidate => key \in Nets, Publish(key, candidate, refreshed, m)
    PROVE /\ daemon' \in Daemons /\ daemon'.pc = "wait" /\ daemon'.granted = -1
          /\ file' \in [key : Nets \cup {NoNet}, left : Times]
          /\ file' = file \/ file' = NoFile \/ (key \in Nets /\ file' = [key |-> key, left |-> m.left])
<1>1. CASE candidate
  <2> DEFINE identity == [key |-> key, live |-> m.left > 0]
             write == MustWrite(refreshed, identity)
  <2>1. file' = (IF write THEN [key |-> key, left |-> m.left] ELSE file)
    BY <1>1 DEF Publish
  <2>2. daemon' = [Started EXCEPT !.wait = Poll,
                                  !.written = IF write THEN identity ELSE daemon.written]
    BY <1>1 DEF Publish
  <2>3. identity \in [key : Nets, live : BOOLEAN] /\ daemon.written \in {NoFile} \cup [key : Nets, live : BOOLEAN]
    BY <1>1 DEF TypeOK, Daemons
  <2>4. Poll \in Times
    BY TimesAssumption
  <2> HIDE DEF write, identity
  <2>5. (IF write THEN identity ELSE daemon.written) \in {NoFile} \cup [key : Nets, live : BOOLEAN]
    BY <2>3
  <2>6. daemon' \in Daemons /\ daemon'.pc = "wait" /\ daemon'.granted = -1
    <3> DEFINE written == IF write THEN identity ELSE daemon.written
    <3> HIDE DEF written
    <3>1. daemon' = [Started EXCEPT !.wait = Poll, !.written = written]
      BY <2>2 DEF written
    <3>2. written \in {NoFile} \cup [key : Nets, live : BOOLEAN]
      BY <2>5 DEF written
    <3>3. daemon' = [pc |-> "wait", wait |-> Poll, key |-> NoNet, method |-> 1, had |-> FALSE,
                     spent |-> 0, granted |-> -1, written |-> written]
      BY <3>1 DEF Started
    <3>4. 0 \in 0..Delay /\ -1 \in {-1} \cup Granted
      BY TimesAssumption
    <3> QED BY <2>4, <3>2, <3>3, <3>4 DEF Daemons
  <2> QED BY <1>1, <2>1, <2>6 DEF TypeOK, Mappers
<1>2. CASE ~candidate
  <2>1. file' = NoFile /\ daemon' = [Started EXCEPT !.wait = Poll]
    BY <1>2 DEF Publish
  <2>2. daemon' \in Daemons /\ daemon'.pc = "wait" /\ daemon'.granted = -1
    <3>1. daemon' = [pc |-> "wait", wait |-> Poll, key |-> NoNet, method |-> 1, had |-> FALSE,
                     spent |-> 0, granted |-> -1, written |-> NoFile]
      BY <2>1 DEF Started
    <3>2. Poll \in Times /\ 0 \in 0..Delay /\ -1 \in {-1} \cup Granted
      BY TimesAssumption
    <3> QED BY <3>1, <3>2 DEF Daemons
  <2> QED BY <2>1, <2>2, TimesAssumption DEF NoFile, Times
<1> QED BY <1>1, <1>2

-----------------------------------------------------------------------------
(* Initial states *)

LEMMA InitInv == Init => Inv
<1> SUFFICES ASSUME Init PROVE Inv
  OBVIOUS
<1>1. TypeOK
  <2>1. 0 \in Times /\ 0 \in 0..MaxFaults /\ lease = [n \in Nets |-> 0]
    BY TimesAssumption DEF Init, Times
  <2>2. lease \in [Nets -> Times] /\ file \in [key : Nets \cup {NoNet}, left : Times]
    BY <2>1 DEF Init, NoFile
  <2> QED BY <2>1, <2>2, StartedType DEF Init, TypeOK
<1>2. RealKeys /\ NotAhead /\ GrantHolds
  BY NetsAssumption DEF Init, RealKeys, NotAhead, GrantHolds, Started, NewMapper, NoFile
<1> QED BY <1>1, <1>2 DEF Inv

-----------------------------------------------------------------------------
(* Steps that end a round of the daemon *)

LEMMA PollOnlyInv ==
    ASSUME Inv, PollOnly PROVE Inv'
<1> USE DEF Inv
<1> DEFINE candidate == net # NoNet /\ HasCandidate(mapper, net)
<1>1. net \in Nets \cup {NoNet} /\ mapper \in Mappers /\ (candidate => net \in Nets /\ mapper.key = net)
  BY DEF TypeOK, HasCandidate
<1>2. Publish(net, candidate, FALSE, mapper)
  BY DEF PollOnly
<1>3. /\ daemon' \in Daemons /\ daemon'.pc = "wait" /\ daemon'.granted = -1
      /\ file' \in [key : Nets \cup {NoNet}, left : Times]
      /\ file' = file \/ file' = NoFile \/ (net \in Nets /\ file' = [key |-> net, left |-> mapper.left])
  BY <1>1, <1>2, PublishFacts
<1>4. file' = file \/ file' = NoFile \/ (mapper.key \in Nets /\ file' = [key |-> mapper.key, left |-> mapper.left])
  BY <1>1, <1>2, <1>3 DEF Publish
<1>5. TypeOK'
  BY <1>3 DEF PollOnly, TypeOK
<1>6. RealKeys' /\ GrantHolds'
  BY <1>3, <1>4, NetsAssumption DEF RealKeys, GrantHolds, NoFile
<1>7. NotAhead'
  BY <1>4, NetsAssumption DEF NotAhead, PollOnly, Sure, NoFile
<1> QED BY <1>5, <1>6, <1>7

LEMMA RefreshedInv ==
    ASSUME Inv, Refreshed PROVE Inv'
<1> USE DEF Inv
<1> DEFINE key == daemon.key
           m == Succeeded(key, daemon.granted)
<1>1. /\ daemon.pc = "try" /\ daemon.granted > 0 /\ key \in Nets /\ daemon.granted \in Times
      /\ mapper' = m /\ Publish(key, TRUE, TRUE, m)
      /\ lease' = lease /\ unsure' = unsure \ {<<key, "unanswered">>}
  <2>1. daemon.granted \in {-1} \cup Granted /\ daemon.granted > 0
    BY DEF Refreshed, TypeOK, Daemons
  <2>2. daemon.granted \in Granted
    BY <2>1
  <2>3. daemon.granted \in Times
    BY <2>2, TimesAssumption
  <2>4. daemon.pc = "try" /\ daemon.key \in Nets
    BY DEF Refreshed, RealKeys
  <2> QED BY <2>1, <2>3, <2>4 DEF Refreshed
<1>2. m \in Mappers /\ m.key = key /\ m.left = daemon.granted
  BY <1>1, MapperTypes DEF Succeeded
<1> HIDE DEF m
<1>3. /\ daemon' \in Daemons /\ daemon'.pc = "wait" /\ daemon'.granted = -1
      /\ file' \in [key : Nets \cup {NoNet}, left : Times]
      /\ file' = file \/ file' = NoFile \/ file' = [key |-> key, left |-> m.left]
  BY <1>1, <1>2, PublishFacts
<1>4. file' = [key |-> key, left |-> m.left]
  BY <1>1 DEF Publish, MustWrite
<1>5. TypeOK'
  BY <1>1, <1>2, <1>3 DEF Refreshed, TypeOK
<1>6. RealKeys' /\ GrantHolds'
  BY <1>1, <1>3, <1>4, NetsAssumption DEF RealKeys, GrantHolds
<1>7. <<key, "restart">> \notin unsure => m.left <= lease[key] + Delay
  <2>1. lease[key] \in Int /\ daemon.spent \in Int /\ daemon.spent <= Delay /\ Delay \in Int /\ daemon.granted \in Int
    BY <1>1, TimesAssumption DEF TypeOK, Daemons, Times
  <2> QED BY <1>1, <1>2, <2>1 DEF GrantHolds
<1>8. NotAhead'
  <2> SUFFICES ASSUME NEW n \in Nets, Sure(n)'
               PROVE /\ mapper'.key = n => mapper'.left <= lease'[n] + Delay
                     /\ file'.key = n => file'.left <= lease'[n] + Delay
    BY DEF NotAhead
  <2>1. CASE n = key
    <3>1. <<n, "restart">> \notin unsure
      BY <1>1 DEF Sure, Reasons
    <3> QED BY <1>1, <1>2, <1>4, <1>7, <2>1, <3>1
  <2>2. CASE n # key
    BY <1>1, <1>2, <1>4, <2>2
  <2> QED BY <2>1, <2>2
<1> QED BY <1>5, <1>6, <1>8

LEMMA MethodRaisesInv ==
    ASSUME Inv, MethodRaises PROVE Inv'
<1> USE DEF Inv
<1> DEFINE key == daemon.key
           m == Failed(mapper, key)
<1>1. /\ daemon.pc = "try" /\ key \in Nets /\ lease' = lease /\ unsure' = unsure
      /\ net' = net /\ faults' \in 0..MaxFaults /\ steady' = FALSE
  BY TimesAssumption DEF MethodRaises, RealKeys, TypeOK, Fault
<1>2. CASE daemon.method < 3
  <2>1. daemon' = [daemon EXCEPT !.method = @ + 1, !.granted = -1] /\ mapper' = mapper /\ file' = file
    BY <1>2 DEF MethodRaises
  <2>2. daemon' \in Daemons /\ daemon'.pc = daemon.pc /\ daemon'.key = key /\ daemon'.granted = -1
    <3>1. daemon.method \in 1..3 /\ daemon.method + 1 \in 1..3
      BY <1>2 DEF TypeOK, Daemons
    <3> QED BY <2>1, <3>1 DEF TypeOK, Daemons
  <2>3. TypeOK'
    BY <1>1, <2>1, <2>2 DEF TypeOK
  <2>4. RealKeys' /\ GrantHolds' /\ NotAhead'
    BY <1>1, <2>1, <2>2 DEF RealKeys, GrantHolds, NotAhead, Sure
  <2> QED BY <2>3, <2>4
<1>3. CASE ~(daemon.method < 3)
  <2>1. mapper' = m /\ Publish(key, daemon.had, FALSE, m)
    BY <1>3 DEF MethodRaises
  <2>2. m \in Mappers /\ m.key = key /\ (m.left = 0 \/ (mapper.key = key /\ m.left = mapper.left))
    <3>1. 0 \in Times
      BY TimesAssumption DEF Times
    <3> QED BY <1>1, <3>1, MapperTypes DEF Failed
  <2>3. daemon.had \in BOOLEAN
    BY DEF TypeOK, Daemons
  <2> HIDE DEF m
  <2>4. /\ daemon' \in Daemons /\ daemon'.pc = "wait" /\ daemon'.granted = -1
        /\ file' \in [key : Nets \cup {NoNet}, left : Times]
        /\ file' = file \/ file' = NoFile \/ file' = [key |-> key, left |-> m.left]
    BY <1>1, <2>1, <2>2, <2>3, PublishFacts
  <2>5. TypeOK'
    BY <1>1, <2>1, <2>2, <2>4 DEF TypeOK
  <2>6. RealKeys' /\ GrantHolds'
    BY <1>1, <2>4, NetsAssumption DEF RealKeys, GrantHolds, NoFile
  <2>7. Sure(key) => m.left <= lease[key] + Delay
    <3>1. lease[key] \in Int /\ 0 <= lease[key] /\ Delay \in Nat
      BY <1>1, TimesAssumption DEF TypeOK, Times
    <3> QED BY <1>1, <2>2, <3>1 DEF NotAhead
  <2>8. NotAhead'
    BY <1>1, <2>1, <2>2, <2>4, <2>7, NetsAssumption DEF NotAhead, Sure, NoFile
  <2> QED BY <2>5, <2>6, <2>8
<1> QED BY <1>2, <1>3

-----------------------------------------------------------------------------
(* The other steps *)

LEMMA PollRefreshInv ==
    ASSUME Inv, PollRefresh PROVE Inv'
<1> USE DEF Inv
<1>1. HasCandidate(mapper, net) \in BOOLEAN /\ net \in Nets
  BY DEF HasCandidate, PollRefresh, TypeOK
<1>2. daemon' = [daemon EXCEPT !.pc = "try", !.key = net, !.had = HasCandidate(mapper, net)]
  BY DEF PollRefresh
<1>3. daemon' \in Daemons /\ daemon'.pc = "try" /\ daemon'.key = net /\ daemon'.granted = daemon.granted
  BY <1>1, <1>2 DEF TypeOK, Daemons
<1>4. TypeOK'
  BY <1>3 DEF PollRefresh, TypeOK
<1>5. RealKeys' /\ NotAhead'
  BY <1>1, <1>3 DEF PollRefresh, RealKeys, NotAhead, Sure
<1>6. GrantHolds'
  BY <1>3 DEF GrantHolds, PollRefresh, Due, RealKeys
<1> QED BY <1>4, <1>5, <1>6

LEMMA RouterGrantsInv ==
    ASSUME Inv, NEW lifetime \in Granted, RouterGrants(lifetime) PROVE Inv'
<1> USE DEF Inv
<1>1. /\ daemon.pc = "try" /\ daemon.key \in Nets /\ lifetime \in Times
      /\ lease' = [lease EXCEPT ![daemon.key] = lifetime]
      /\ unsure' = (unsure \ {<<daemon.key, "restart">>}) \cup {<<daemon.key, "unanswered">>}
      /\ daemon' = [daemon EXCEPT !.granted = lifetime]
      /\ mapper' = mapper /\ file' = file /\ net' = net /\ steady' = steady
  BY TimesAssumption DEF RouterGrants, RealKeys
<1>2. daemon' \in Daemons /\ daemon'.pc = "try" /\ daemon'.key = daemon.key /\ daemon'.spent = daemon.spent
      /\ daemon'.granted = lifetime
  BY <1>1 DEF TypeOK, Daemons
<1>3. lease' \in [Nets -> Times] /\ unsure' \subseteq Nets \X Reasons /\ faults' \in 0..MaxFaults
  BY <1>1, TimesAssumption DEF TypeOK, Reasons, RouterGrants, Fault
<1>4. TypeOK'
  BY <1>1, <1>2, <1>3 DEF TypeOK
<1>5. RealKeys'
  BY <1>1, <1>2 DEF RealKeys
<1>6. NotAhead'
  <2> SUFFICES ASSUME NEW n \in Nets, Sure(n)'
               PROVE /\ mapper'.key = n => mapper'.left <= lease'[n] + Delay
                     /\ file'.key = n => file'.left <= lease'[n] + Delay
    BY DEF NotAhead
  <2>1. n # daemon.key
    BY <1>1 DEF Sure, Reasons
  <2>2. Sure(n) /\ lease'[n] = lease[n]
    BY <1>1, <2>1 DEF Sure, TypeOK
  <2> QED BY <1>1, <2>2 DEF NotAhead
<1>7. GrantHolds'
  <2>1. daemon.spent \in Nat /\ lease'[daemon.key] = lifetime /\ lifetime \in Int
    BY <1>1, TimesAssumption DEF TypeOK, Daemons, Times
  <2> QED BY <1>2, <2>1 DEF GrantHolds
<1> QED BY <1>4, <1>5, <1>6, <1>7

LEMMA FaultsInv ==
    ASSUME Inv, Stop \/ Crash \/ Start \/ (\E n \in Nets \cup {NoNet} : Roam(n)) \/ RouterRestarts
    PROVE Inv'
<1> USE DEF Inv
<1>1. CASE Stop \/ Crash \/ Start
  <2>1. /\ daemon' = [Started EXCEPT !.pc = "down"] \/ daemon' = Started
        /\ mapper' = mapper \/ mapper' = NewMapper
        /\ file' = file \/ file' = NoFile
        /\ net' = net /\ lease' = lease /\ unsure' = unsure /\ faults' \in 0..MaxFaults
        /\ steady' = FALSE \/ steady' = steady
    BY <1>1, TimesAssumption DEF Stop, Crash, Start, Fault, TypeOK
  <2>2. daemon' \in Daemons /\ daemon'.pc # "try" /\ daemon'.granted = -1
    <3>1. CASE daemon' = [Started EXCEPT !.pc = "down"]
      <4>1. daemon'.pc = "down" /\ daemon'.granted = -1
        BY <3>1 DEF Started
      <4>2. daemon' \in Daemons
        BY <3>1, StartedType DEF Daemons
      <4> QED BY <4>1, <4>2
    <3>2. CASE daemon' = Started
      BY <3>2, StartedType DEF Started
    <3> QED BY <2>1, <3>1, <3>2
  <2>3. mapper' \in Mappers /\ file' \in [key : Nets \cup {NoNet}, left : Times]
    BY <2>1, StartedType, TimesAssumption DEF TypeOK, NoFile, Times
  <2>4. TypeOK'
    BY <2>1, <2>2, <2>3 DEF TypeOK
  <2>5. RealKeys' /\ GrantHolds'
    BY <2>1, <2>2 DEF RealKeys, GrantHolds, NoFile
  <2>6. NotAhead'
    BY <2>1, NetsAssumption DEF NotAhead, Sure, NoFile, NewMapper
  <2> QED BY <2>4, <2>5, <2>6
<1>2. CASE \E n \in Nets \cup {NoNet} : Roam(n)
  <2>1. /\ net' \in Nets \cup {NoNet} /\ faults' \in 0..MaxFaults /\ steady' = FALSE
        /\ lease' = lease /\ mapper' = mapper /\ file' = file /\ daemon' = daemon /\ unsure' = unsure
    BY <1>2, TimesAssumption DEF Roam, Fault, TypeOK
  <2> QED BY <2>1 DEF TypeOK, RealKeys, NotAhead, GrantHolds, Sure
<1>3. CASE RouterRestarts
  <2>1. /\ lease' = [n \in Nets |-> 0] /\ unsure' = unsure \cup (Nets \X {"restart"})
        /\ net' = net /\ faults' \in 0..MaxFaults /\ steady' = steady
        /\ mapper' = mapper /\ file' = file /\ daemon' = daemon
    BY <1>3, TimesAssumption DEF RouterRestarts, Fault, TypeOK
  <2>2. TypeOK'
    BY <2>1, TimesAssumption DEF TypeOK, Times, Reasons
  <2>3. RealKeys' /\ NotAhead' /\ GrantHolds'
    BY <2>1 DEF RealKeys, NotAhead, GrantHolds, Sure, Reasons
  <2> QED BY <2>2, <2>3
<1> QED BY <1>1, <1>2, <1>3

LEMMA TickInv ==
    ASSUME Inv, Tick PROVE Inv'
<1> USE DEF Inv
<1> DEFINE trying == daemon.pc = "try"
<1>1. /\ lease' = [n \in Nets |-> Less(lease[n])]
      /\ mapper' = [mapper EXCEPT !.left = Less(@), !.next = Less(@)]
      /\ file' = [file EXCEPT !.left = Less(@)]
      /\ daemon' = [daemon EXCEPT !.wait = Less(@), !.spent = IF trying THEN @ + 1 ELSE @]
      /\ (trying => daemon.spent < Delay)
      /\ UNCHANGED <<net, faults, unsure, steady>>
  BY DEF Tick
<1>2. /\ mapper.left \in Times /\ mapper.next \in Times /\ file.left \in Times
      /\ daemon.wait \in Times /\ daemon.spent \in 0..Delay /\ Delay \in Nat
      /\ \A n \in Nets : lease[n] \in Times
  BY TimesAssumption DEF TypeOK, Mappers, Daemons
<1>3. /\ mapper' \in Mappers /\ mapper'.key = mapper.key /\ mapper'.left = Less(mapper.left)
  BY <1>1, <1>2, LessFacts DEF TypeOK, Mappers
<1>4. file' \in [key : Nets \cup {NoNet}, left : Times] /\ file'.key = file.key /\ file'.left = Less(file.left)
  BY <1>1, <1>2, LessFacts DEF TypeOK
<1>5. (IF trying THEN daemon.spent + 1 ELSE daemon.spent) \in 0..Delay
  BY <1>1, <1>2
<1>6. /\ daemon' \in Daemons /\ daemon'.pc = daemon.pc /\ daemon'.key = daemon.key
      /\ daemon'.granted = daemon.granted /\ (trying => daemon'.spent = daemon.spent + 1)
  BY <1>1, <1>2, <1>5, LessFacts DEF TypeOK, Daemons
<1>7. TypeOK'
  BY <1>1, <1>2, <1>3, <1>4, <1>6, LessFacts DEF TypeOK
<1>8. RealKeys'
  BY <1>4, <1>6, <1>2 DEF RealKeys, Less
<1>9. \A n \in Nets, left \in Times : left <= lease[n] + Delay => Less(left) <= lease'[n] + Delay
  <2> SUFFICES ASSUME NEW n \in Nets, NEW left \in Times, left <= lease[n] + Delay
               PROVE Less(left) <= Less(lease[n]) + Delay
    BY <1>1
  <2>1. left \in Nat /\ lease[n] \in Nat
    BY <1>2, TimesAssumption DEF Times
  <2> QED BY <1>2, <2>1 DEF Less
<1>10. NotAhead'
  BY <1>1, <1>2, <1>3, <1>4, <1>9 DEF NotAhead, Sure
<1>11. GrantHolds'
  <2> SUFFICES ASSUME trying, daemon.granted >= 0, <<daemon.key, "restart">> \notin unsure
               PROVE daemon.granted <= lease'[daemon.key] + daemon'.spent
    BY <1>1, <1>6 DEF GrantHolds
  <2>1. daemon.key \in Nets /\ daemon.granted <= lease[daemon.key] + daemon.spent
    BY DEF RealKeys, GrantHolds
  <2>2. lease'[daemon.key] = Less(lease[daemon.key]) /\ lease[daemon.key] <= Less(lease[daemon.key]) + 1
        /\ Less(lease[daemon.key]) \in Int
    BY <1>1, <1>2, <2>1, LessFacts DEF Times
  <2>3. daemon.granted \in Int /\ lease[daemon.key] \in Int /\ daemon.spent \in Int
    <3>1. daemon.granted \in {-1} \cup Granted /\ \A t \in Times : t \in Int
      BY DEF TypeOK, Daemons, Times
    <3>2. daemon.granted \in Int
      <4>1. CASE daemon.granted = -1
        BY <4>1
      <4>2. CASE daemon.granted # -1
        BY <3>1, <4>2, TimesAssumption
      <4> QED BY <4>1, <4>2
    <3> QED BY <1>2, <2>1, <3>1, <3>2
  <2> QED BY <1>6, <2>1, <2>2, <2>3
<1> QED BY <1>7, <1>8, <1>10, <1>11

-----------------------------------------------------------------------------
(* Theorems *)

LEMMA NextInv ==
    ASSUME Inv, [Next]_vars PROVE Inv'
<1>1. CASE UNCHANGED vars
  BY <1>1 DEF vars, Inv, TypeOK, RealKeys, NotAhead, GrantHolds, Sure
<1>2. CASE \E lifetime \in Granted : RouterGrants(lifetime)
  BY <1>2, RouterGrantsInv
<1>3. CASE Stop \/ Crash \/ Start \/ (\E n \in Nets \cup {NoNet} : Roam(n)) \/ RouterRestarts
  BY <1>3, FaultsInv
<1> QED
  BY <1>1, <1>2, <1>3, PollOnlyInv, PollRefreshInv, RefreshedInv, MethodRaisesInv, TickInv DEF Next

LEMMA Invariance == Spec => []Inv
<1>1. Init => Inv
  BY InitInv
<1>2. Inv /\ [Next]_vars => Inv'
  BY NextInv
<1> QED BY <1>1, <1>2, PTL DEF Spec

\* The variables keep their types.
THEOREM TypeCorrect == Spec => []TypeOK
BY Invariance, PTL DEF Inv

\* A mapping the Agent takes from the state file exists in the router, unless the
\* router restarted or its last answer was lost.
THEOREM AdvertisedMappingExists == Spec => []AdvertisedIsMapped
<1>1. Inv => AdvertisedIsMapped
  <2> SUFFICES ASSUME Inv, Mapped, ~ \E why \in Reasons : <<net, why>> \in unsure
               PROVE lease[net] > 0
    BY DEF AdvertisedIsMapped
  <2>1. file.key = net /\ file.left > Margin /\ Sure(net)
    BY DEF Mapped, Sure
  <2>2. file.left \in Int /\ Margin \in Nat /\ Delay \in Nat /\ Delay < Margin
    BY TimesAssumption DEF Inv, TypeOK, Times
  <2>3. net \in Nets
    BY <2>1, <2>2 DEF Inv, TypeOK, RealKeys
  <2>4. file.left <= lease[net] + Delay /\ lease[net] \in Int
    BY <2>1, <2>3 DEF Inv, NotAhead, TypeOK, Times
  <2> QED BY <2>1, <2>2, <2>4
<1> QED BY <1>1, Invariance, PTL

-----------------------------------------------------------------------------
(* No gap.  A refresh begins when Spare is left of the mapping, or a round   *)
(* later, and takes Delay: what is left then must be more than the margin.   *)

Spare == Asked - RefreshAfter(Asked)

\* What the mapper has left, while nothing fails.
LeftInTime ==
    /\ daemon.pc = "wait" /\ mapper.next > 0 => mapper.left >= Spare + mapper.next
    /\ daemon.pc = "wait" /\ mapper.next = 0 => mapper.left >= Spare + daemon.wait - Poll
    /\ daemon.pc = "try" => mapper.left >= Spare - Poll - daemon.spent

SteadyInv ==
    steady =>
        /\ net \in Nets /\ mapper.key = net /\ file.key = net /\ file.left = mapper.left
        /\ daemon.pc # "down" /\ daemon.wait <= Poll
        /\ LeftInTime

\* The values are integers.
LEMMA Numbers ==
    ASSUME Inv
    PROVE  /\ Spare \in Int /\ Poll \in Nat \ {0} /\ Margin \in Nat /\ Delay \in Nat
           /\ Asked \in Nat \ {0} /\ RefreshAfter(Asked) \in Nat /\ Spare = Asked - RefreshAfter(Asked)
           /\ mapper.left \in Nat /\ mapper.next \in Nat
           /\ daemon.wait \in Nat /\ daemon.spent \in 0..Delay
<1>1. /\ Asked \in Times /\ Asked \in Nat \ {0} /\ Poll \in Nat \ {0} /\ Margin \in Nat
      /\ Delay \in Nat
  BY TimesAssumption DEF Times
<1>2. RefreshAfter(Asked) \in Nat
  BY <1>1, RefreshAfterType DEF Times
<1> QED BY <1>1, <1>2 DEF Inv, TypeOK, Mappers, Daemons, Times, Spare

\* A mapping that is steady is advertised, whatever the daemon is doing.
LEMMA SteadyMapped ==
    ASSUME Spare > Poll + Delay + Margin, Inv, SteadyInv
    PROVE  StaysMapped
<1> SUFFICES ASSUME steady PROVE Mapped
  BY DEF StaysMapped
<1>1. file # NoFile /\ file.key = net
  BY NetsAssumption DEF SteadyInv, NoFile
<1>2. daemon.pc \in {"wait", "try"}
  BY DEF SteadyInv, Inv, TypeOK, Daemons
<1>3. mapper.left > Margin
  BY <1>2, Numbers DEF SteadyInv, LeftInTime
<1> QED BY <1>1, <1>3 DEF Mapped, SteadyInv

LEMMA PollOnlySteady ==
    ASSUME Spare > Poll + Delay + Margin, Inv, SteadyInv, PollOnly
    PROVE  SteadyInv'
<1> SUFFICES ASSUME steady' PROVE SteadyInv'
  BY DEF SteadyInv
<1>1. /\ steady /\ mapper' = mapper /\ net' = net /\ daemon.pc = "wait" /\ daemon.wait = 0
      /\ mapper.next > 0
      /\ net \in Nets /\ mapper.key = net /\ file.key = net /\ file.left = mapper.left
      /\ mapper.left >= Spare + mapper.next
  BY NetsAssumption DEF PollOnly, Due, SteadyInv, LeftInTime
<1>2. net # NoNet /\ HasCandidate(mapper, net)
  BY <1>1, Numbers, NetsAssumption DEF HasCandidate
<1>3. Publish(net, TRUE, FALSE, mapper)
  BY <1>2 DEF PollOnly
<1>4. file'.key = net /\ file'.left = mapper.left
  <2> DEFINE write == MustWrite(FALSE, [key |-> net, live |-> mapper.left > 0])
  <2>1. file' = IF write THEN [key |-> net, left |-> mapper.left] ELSE file
    BY <1>3 DEF Publish
  <2> HIDE DEF write
  <2> QED BY <1>1, <2>1
<1>5. daemon'.pc = "wait" /\ daemon'.wait = Poll
  BY <1>3 DEF Publish, Started
<1> QED BY <1>1, <1>4, <1>5, Numbers DEF SteadyInv, LeftInTime

LEMMA RefreshedSteady ==
    ASSUME Inv, Refreshed
    PROVE  SteadyInv'
<1> DEFINE m == Succeeded(daemon.key, daemon.granted)
<1> SUFFICES ASSUME steady' PROVE SteadyInv'
  BY DEF SteadyInv
<1>1. /\ daemon.pc = "try" /\ daemon.granted = Asked /\ net = daemon.key /\ net' = net
      /\ mapper' = m /\ Publish(daemon.key, TRUE, TRUE, m)
  BY DEF Refreshed
<1>2. daemon.key \in Nets
  BY <1>1 DEF Inv, RealKeys
<1>3. m.key = net /\ m.left = Asked /\ m.next = RefreshAfter(Asked)
  BY <1>1 DEF Succeeded
<1> HIDE DEF m
<1>4. file'.key = net /\ file'.left = m.left
  BY <1>1 DEF Publish, MustWrite
<1>5. daemon'.pc = "wait" /\ daemon'.wait = Poll
  BY <1>1 DEF Publish, Started
<1>6. RefreshAfter(Asked) \in Nat /\ Spare + RefreshAfter(Asked) = Asked /\ Poll \in Nat
      /\ Asked \in Nat /\ Spare \in Int
  BY Numbers
<1> QED BY <1>1, <1>2, <1>3, <1>4, <1>5, <1>6 DEF SteadyInv, LeftInTime

LEMMA TickSteady ==
    ASSUME Spare > Poll + Delay + Margin, Inv, SteadyInv, Tick
    PROVE  SteadyInv'
<1> SUFFICES ASSUME steady' PROVE SteadyInv'
  BY DEF SteadyInv
<1>0. /\ steady /\ net' = net /\ net \in Nets /\ mapper.key = net /\ file.key = net
      /\ file.left = mapper.left /\ daemon.pc # "down" /\ daemon.wait <= Poll /\ LeftInTime
  BY DEF Tick, SteadyInv
<1>1. /\ mapper' = [mapper EXCEPT !.left = Less(@), !.next = Less(@)]
      /\ file' = [file EXCEPT !.left = Less(@)]
      /\ daemon' = [daemon EXCEPT !.wait = Less(@),
                                  !.spent = IF daemon.pc = "try" THEN @ + 1 ELSE @]
      /\ daemon.pc = "try" => daemon.spent < Delay
      /\ daemon.pc = "wait" => daemon.wait # 0
  BY DEF Tick, Due
<1>2. /\ mapper'.key = net /\ mapper'.left = Less(mapper.left) /\ mapper'.next = Less(mapper.next)
      /\ file'.key = net /\ file'.left = Less(mapper.left)
      /\ daemon'.pc = daemon.pc /\ daemon'.wait = Less(daemon.wait)
      /\ daemon'.spent = IF daemon.pc = "try" THEN daemon.spent + 1 ELSE daemon.spent
  BY <1>0, <1>1 DEF Inv, TypeOK, Mappers, Daemons
<1>3. daemon.pc \in {"wait", "try"}
  BY <1>0 DEF Inv, TypeOK, Daemons
<1>4. mapper.left > 0
  BY <1>0, <1>3, Numbers DEF LeftInTime
<1>5. Less(mapper.left) = mapper.left - 1 /\ Less(daemon.wait) <= Poll
  BY <1>0, <1>4, Numbers DEF Less
<1>6. LeftInTime'
  <2>1. CASE daemon.pc = "try"
    BY <1>0, <1>1, <1>2, <1>5, <2>1, Numbers DEF LeftInTime
  <2>2. CASE daemon.pc = "wait" /\ mapper.next = 0
    <3>1. Less(mapper.next) = 0 /\ Less(daemon.wait) = daemon.wait - 1
      BY <1>1, <2>2, Numbers DEF Less
    <3> QED BY <1>0, <1>2, <1>5, <2>2, <3>1, Numbers DEF LeftInTime
  <2>3. CASE daemon.pc = "wait" /\ mapper.next > 0
    <3>1. Less(mapper.next) = mapper.next - 1 /\ Less(daemon.wait) \in Int
      BY <2>3, Numbers DEF Less
    <3> QED BY <1>0, <1>2, <1>5, <2>3, <3>1, Numbers DEF LeftInTime
  <2> QED BY <1>3, <2>1, <2>2, <2>3, Numbers
<1> QED BY <1>0, <1>2, <1>5, <1>6 DEF SteadyInv

LEMMA NextSteady ==
    ASSUME Spare > Poll + Delay + Margin, Inv, SteadyInv, [Next]_vars
    PROVE  SteadyInv'
<1>1. CASE PollRefresh
  <2>1. /\ net' = net /\ mapper' = mapper /\ file' = file /\ steady' = steady
        /\ daemon.pc = "wait" /\ daemon.wait = 0 /\ mapper.next = 0
        /\ daemon'.pc = "try" /\ daemon'.wait = daemon.wait /\ daemon'.spent = daemon.spent
    BY <1>1 DEF PollRefresh, Due, Inv, TypeOK, Daemons
  <2> QED BY <2>1, Numbers DEF SteadyInv, LeftInTime
<1>2. ASSUME NEW lifetime, RouterGrants(lifetime) PROVE SteadyInv'
  <2>1. /\ net' = net /\ mapper' = mapper /\ file' = file /\ steady' = steady
        /\ daemon'.pc = daemon.pc /\ daemon'.wait = daemon.wait /\ daemon'.spent = daemon.spent
    BY <1>2 DEF RouterGrants, Inv, TypeOK, Daemons
  <2> QED BY <2>1 DEF SteadyInv, LeftInTime
<1>3. CASE MethodRaises \/ Stop \/ Crash \/ \E n \in Nets \cup {NoNet} : Roam(n)
  BY <1>3 DEF MethodRaises, Stop, Crash, Roam, SteadyInv
<1>4. CASE Start
  BY <1>4 DEF Start, SteadyInv
<1>5. CASE RouterRestarts \/ UNCHANGED vars
  BY <1>5 DEF RouterRestarts, vars, SteadyInv, LeftInTime
<1> QED BY <1>1, <1>2, <1>3, <1>4, <1>5, PollOnlySteady, RefreshedSteady, TickSteady DEF Next

\* As long as refreshes succeed the mapping is advertised without a gap, if what
\* RefreshAfter leaves of the lifetime (a third of it) is longer than a round, a
\* refresh and the margin together.  In the code: 1200 s of 3600 s, against 60 s,
\* the time-outs of the requests, and 15 s.  (109-122, 351-368)
THEOREM NoGap ==
    ASSUME Spare > Poll + Delay + Margin
    PROVE  Spec => []StaysMapped
<1>1. Init => SteadyInv
  BY DEF Init, SteadyInv
<1>2. Inv /\ SteadyInv /\ [Next]_vars => SteadyInv'
  BY NextSteady
<1>3. Inv /\ SteadyInv => StaysMapped
  BY SteadyMapped
<1> QED BY <1>1, <1>2, <1>3, Invariance, PTL DEF Spec

=============================================================================
