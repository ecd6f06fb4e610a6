--------------------------- MODULE DeploymentProofs ---------------------------
(***************************************************************************)
(* What a deployment promises for any number of servers, tags and          *)
(* failures: a swipe is shown wherever it can be expected.                 *)
(***************************************************************************)
EXTENDS Deployment, SequenceLemmas

Entries == [name : Machines, address : {0, 1}]
Fates == {"nothing"} \cup Accidents

(* Types, as far as the argument needs them, ...                           *)
Types ==
  /\ stage \in [Machines -> {"off", "starting", "ready"}]
  /\ address \in [Machines -> {0, 1}]
  /\ screen \in [Machines -> Tags \cup {NoTag}]
  /\ resolving \subseteq Machines
  /\ directory \in Seq(Entries)
  /\ inserting \in Entries \cup {NoEntry}
  /\ rpc \in {"poll", "walk", "call", "stuck", "crashed"}
  /\ lastTag \in Tags \cup {NoTag}
  /\ pos \in Nat \ {0}
  /\ rpc = "call" => callee \in Entries
  /\ due \subseteq Machines
  /\ met \in [Machines -> Fates]

(* ... and the entry between the two writes of list_push, which is in      *)
(* front of others and of another name than they have.                     *)
HalfInserted ==
  inserting # NoEntry =>
    directory # <<>> /\ ~Listed(inserting.name) /\ inserting.name \in resolving

(* A server that is due has met with an accident, has been shown the tag   *)
(* or stands in the list where the walk has not been, ...                  *)
Ahead(s) == \E i \in 1..Len(directory) : i >= pos /\ directory[i].name = s

Cared(s) ==
  \/ met[s] \in Accidents
  \/ stage[s] = "ready" /\ (screen[s] = lastTag \/ Ahead(s))

DueAhead == \A s \in due : Listed(s) /\ Cared(s)

(* ... and the walk never calls another than the one at its position, but  *)
(* for a server that has come since, which is not due, and but for the     *)
(* front of the list in the middle of an insertion, ...                    *)
AtFront == pos = 1 /\ inserting # NoEntry

CalleeHere ==
  rpc = "call" /\ pos <= Len(directory) =>
    callee.name = directory[pos].name \/ directory[pos].name \notin due \/ AtFront

(* ... where it is once only.                                              *)
PassedOnce ==
  /\ pos = 1 => \A s \in due : met[s] # "passedOver"
  /\ \A s, t \in due : met[s] = "passedOver" /\ met[t] = "passedOver" => s = t

WalkInv == rpc \in {"walk", "call"} => DueAhead /\ CalleeHere /\ PassedOnce

Inv == Types /\ HalfInserted /\ WalkInv

--------------------------------------------------------------------------------
(* The invariant holds before anything has been started.                   *)
LEMMA InitInv == Init => Inv
<1> SUFFICES ASSUME Init PROVE Inv
  OBVIOUS
<1>1. directory \in Seq(Entries)
  BY SMT DEF Init
<1>2. met \in [Machines -> Fates]
  BY DEF Init, Unharmed, Fates
<1>3. Types
  BY <1>1, <1>2 DEF Init, Types
<1>4. HalfInserted /\ WalkInv
  BY DEF Init, HalfInserted, WalkInv
<1> QED  BY <1>3, <1>4 DEF Inv

(* A step that leaves the list and the walk alone.                         *)
LEMMA ElsewhereInv ==
  ASSUME Inv,
         UNCHANGED <<stage, address, screen, directory, inserting, rpc, lastTag, pos,
                     callee, due, met>>,
         resolving' \subseteq Machines,
         inserting # NoEntry => inserting.name \in resolving'
  PROVE  Inv'
<1>1. Types'
  BY DEF Inv, Types
<1>2. HalfInserted'
  BY DEF Inv, HalfInserted, Listed
<1>3. WalkInv'
  BY DEF Inv, WalkInv, DueAhead, CalleeHere, PassedOnce, Cared, Ahead, Listed, AtFront
<1> QED  BY <1>1, <1>2, <1>3 DEF Inv

(* An insertion begins: what the list is to have comes in front of it.     *)
LEMMA FoundNewInv ==
  ASSUME Inv, NEW s \in Machines, FoundNew(s)
  PROVE  Inv'
<1>1. /\ UNCHANGED <<stage, address, screen, resolving, directory, rpc, lastTag, pos,
                     callee, due, met>>
      /\ s \in resolving /\ ~Listed(s) /\ directory # <<>>
      /\ inserting = NoEntry
      /\ inserting' = Entry(s, address[s])
  BY DEF FoundNew, Callbacks, serverVars, avahiVars, readerVars
<1>2. inserting' \in Entries /\ inserting'.name = s
  BY <1>1 DEF Inv, Types, Entry, Entries
<1>3. Types'
  BY <1>1, <1>2 DEF Inv, Types
<1>4. HalfInserted'
  BY <1>1, <1>2 DEF HalfInserted, Listed
<1>5. AtFront => AtFront'
  BY <1>1 DEF AtFront
<1>6. WalkInv'
  BY <1>1, <1>5 DEF Inv, WalkInv, DueAhead, CalleeHere, PassedOnce, Cared, Ahead, Listed
<1> QED  BY <1>3, <1>4, <1>6 DEF Inv

(* The first entry of a list: nobody is due, so nobody can be missed.      *)
LEMMA FoundFirstInv ==
  ASSUME Inv, NEW s \in Machines, FoundFirst(s)
  PROVE  Inv'
<1>1. /\ UNCHANGED <<stage, address, screen, inserting, lastTag, pos, callee, due, met>>
      /\ inserting = NoEntry
      /\ directory = <<>> /\ directory' = <<Entry(s, address[s])>>
      /\ resolving' \subseteq Machines
      /\ rpc' \in {rpc, "crashed"}
  BY DEF FoundFirst, Callbacks, serverVars, Inv, Types
<1>2. Entry(s, address[s]) \in Entries
  BY DEF Inv, Types, Entry, Entries
<1>3. directory' \in Seq(Entries)
  BY <1>1, <1>2
<1>4. Types'
  BY <1>1, <1>3 DEF Inv, Types
<1>5. HalfInserted'
  BY <1>1 DEF HalfInserted
<1>6. WalkInv'
  <2> SUFFICES ASSUME rpc' \in {"walk", "call"} PROVE DueAhead' /\ CalleeHere' /\ PassedOnce'
    BY DEF WalkInv
  <2>1. rpc' = rpc /\ DueAhead /\ PassedOnce
    BY <1>1 DEF Inv, WalkInv
  <2>2. Len(directory) = 0
    BY <1>1
  <2>3. due = {}
    BY <2>1, <2>2 DEF DueAhead, Listed
  <2> QED  BY <1>1, <2>3 DEF DueAhead, CalleeHere, PassedOnce
<1> QED  BY <1>4, <1>5, <1>6 DEF Inv

(* What an entry put in front does to a walk: it moves on with the rest.   *)
LEMMA PushCdrInv ==
  ASSUME Inv, PushCdr
  PROVE  Inv'
<1>1. /\ inserting # NoEntry
      /\ directory' = <<inserting>> \o directory
      /\ pos' = (IF pos > 1 THEN pos + 1 ELSE pos)
      /\ inserting' = NoEntry
      /\ UNCHANGED <<stage, address, screen, rpc, lastTag, callee, due, met>>
      /\ resolving' \subseteq Machines
  BY DEF PushCdr, serverVars, Inv, Types
<1>2. inserting \in Entries /\ ~Listed(inserting.name)
  BY <1>1 DEF Inv, Types, HalfInserted
<1>3. directory \in Seq(Entries) /\ Len(directory) \in Nat
  BY DEF Inv, Types
<1>4. /\ directory' \in Seq(Entries)
      /\ Len(directory') = Len(directory) + 1
      /\ directory'[1] = inserting
      /\ \A j \in 1..Len(directory) : directory'[j + 1] = directory[j]
  BY <1>1, <1>2, <1>3, FrontEntries
<1>5. /\ pos \in Nat \ {0} /\ pos' \in Nat \ {0} /\ pos' <= pos + 1
      /\ pos' = 1 => pos = 1
  BY <1>1 DEF Inv, Types
<1>6. Types'
  BY <1>1, <1>4, <1>5 DEF Inv, Types
<1>7. HalfInserted'
  BY <1>1 DEF HalfInserted
<1>8. CASE rpc \in {"walk", "call"}
  <2>1. DueAhead /\ CalleeHere /\ PassedOnce
    BY <1>8 DEF Inv, WalkInv
  <2>2. ASSUME NEW d \in due
        PROVE  Listed(d)' /\ Cared(d)'
    <3>1. Listed(d) /\ Cared(d)
      BY <2>1 DEF DueAhead
    <3>2. Listed(d)'
      BY <3>1, <1>3, <1>4 DEF Listed
    <3>3. ASSUME Ahead(d) PROVE Ahead(d)'
      <4>1. PICK i \in 1..Len(directory) : i >= pos /\ directory[i].name = d
        BY <3>3 DEF Ahead
      <4>2. i + 1 \in 1..Len(directory') /\ i + 1 >= pos' /\ directory'[i + 1].name = d
        BY <4>1, <1>3, <1>4, <1>5
      <4> QED  BY <4>2 DEF Ahead
    <3> QED  BY <1>1, <3>1, <3>2, <3>3 DEF Cared
  <2>3. DueAhead'
    BY <1>1, <2>2 DEF DueAhead
  <2>4. inserting.name \notin due
    BY <1>2, <2>1 DEF DueAhead
  <2>5. ASSUME rpc' = "call", pos' <= Len(directory')
        PROVE  callee'.name = directory'[pos'].name \/ directory'[pos'].name \notin due'
    <3>1. CASE pos > 1
      <4>1. pos \in 1..Len(directory) /\ pos' = pos + 1 /\ ~AtFront
        BY <1>1, <1>3, <1>4, <1>5, <2>5, <3>1 DEF AtFront
      <4>2. directory'[pos'] = directory[pos]
        BY <1>4, <4>1
      <4>3. callee.name = directory[pos].name \/ directory[pos].name \notin due
        BY <1>1, <2>1, <2>5, <4>1 DEF CalleeHere
      <4> QED  BY <1>1, <4>2, <4>3
    <3>2. CASE ~(pos > 1)
      <4>1. directory'[pos'] = inserting
        BY <1>1, <1>4, <1>5, <3>2
      <4> QED  BY <1>1, <2>4, <4>1
    <3> QED  BY <3>1, <3>2
  <2>6. CalleeHere'
    BY <2>5 DEF CalleeHere
  <2>7. PassedOnce'
    BY <1>1, <1>5, <2>1 DEF PassedOnce
  <2> QED  BY <1>6, <1>7, <2>3, <2>6, <2>7 DEF Inv, WalkInv
<1>9. CASE rpc \notin {"walk", "call"}
  BY <1>1, <1>6, <1>7, <1>9 DEF Inv, WalkInv
<1> QED  BY <1>8, <1>9

(* A withdrawal clears what is due, if it takes an entry out at all.       *)
LEMMA WithdrawInv ==
  ASSUME Inv, NEW s \in Machines, Withdraw(s)
  PROVE  Inv'
<1>1. /\ UNCHANGED <<stage, address, screen, resolving, inserting, lastTag, callee>>
      /\ inserting = NoEntry
  BY DEF Withdraw, Callbacks, serverVars
<1>2. Listed(s) <=> EntriesOf(s) # {}
  BY DEF Listed, EntriesOf
<1>3. directory' \in Seq(Entries) /\ (~Listed(s) => directory' = directory)
  <2>1. CASE EntriesOf(s) = {}
    BY <2>1 DEF Withdraw, Inv, Types
  <2>2. CASE EntriesOf(s) # {}
    <3>1. PICK i \in EntriesOf(s) : directory' = RemoveAt(directory, i)
      BY <2>2 DEF Withdraw
    <3>2. directory \in Seq(Entries) /\ i \in 1..Len(directory)
      BY DEF EntriesOf, Inv, Types
    <3> QED  BY <1>2, <2>2, <3>1, <3>2, RemoveAtEntries
  <2> QED  BY <2>1, <2>2
<1>4. HalfInserted'
  BY <1>1 DEF HalfInserted
<1>5. CASE Walking /\ Listed(s)
  <2>1. pos' \in 1..(Len(directory') + 1) /\ rpc' \in {rpc, "crashed"} /\ due' = {} /\ met' = Unharmed
    BY <1>5 DEF Withdraw
  <2>2. Len(directory') \in Nat
    BY <1>3
  <2>3. met' \in [Machines -> Fates]
    BY <2>1 DEF Unharmed, Fates
  <2>4. Types'
    BY <1>1, <1>3, <2>1, <2>2, <2>3 DEF Inv, Types
  <2>5. WalkInv'
    BY <2>1 DEF WalkInv, DueAhead, CalleeHere, PassedOnce
  <2> QED  BY <1>4, <2>4, <2>5 DEF Inv
<1>6. CASE ~(Walking /\ Listed(s))
  <2>1. UNCHANGED <<rpc, pos, due, met>>
    BY <1>6 DEF Withdraw
  <2>2. Types'
    BY <1>1, <1>3, <2>1 DEF Inv, Types
  <2>3. CASE ~Walking
    BY <1>4, <2>1, <2>2, <2>3 DEF Walking, Inv, WalkInv
  <2>4. CASE ~Listed(s)
    <3>1. UNCHANGED directory
      BY <1>3, <2>4
    <3> QED  BY <1>1, <2>1, <3>1, ElsewhereInv DEF Inv, Types
  <2> QED  BY <1>6, <2>3, <2>4
<1> QED  BY <1>5, <1>6

(* Harm changes the fate of the server that meets with it only.            *)
LEMMA HarmedFate ==
  ASSUME Types, NEW s \in Machines, NEW what \in Accidents
  PROVE  /\ Harmed(s, what) \in [Machines -> Fates]
         /\ \A d \in Machines : Harmed(s, what)[d] = IF d = s /\ s \in due THEN what ELSE met[d]
  BY DEF Harmed, Types, Fates

(* A server that goes down has met with its failure; no other is affected. *)
LEMMA FallInv ==
  ASSUME Inv, NEW s \in Machines, Crash(s) \/ HostCrash(s)
  PROVE  Inv'
<1>1. /\ stage' = [stage EXCEPT ![s] = "off"]
      /\ screen' = [screen EXCEPT ![s] = NoTag]
      /\ met' = Harmed(s, "failed")
      /\ UNCHANGED <<resolving, directory, inserting, lastTag, pos, callee, due>>
  BY DEF Crash, HostCrash, Fall, avahiVars, listVars
<1>2. address' \in [Machines -> {0, 1}]
  BY DEF Crash, HostCrash, Inv, Types
<1>3. rpc' = rpc \/ rpc' = "stuck"
  BY DEF Crash, HostCrash
<1>4. /\ met' \in [Machines -> Fates]
      /\ \A d \in Machines : met'[d] = IF d = s /\ s \in due THEN "failed" ELSE met[d]
  <2>1. "failed" \in Accidents
    BY DEF Accidents
  <2> QED  BY <1>1, <2>1, HarmedFate DEF Inv
<1>5. Types'
  BY <1>1, <1>2, <1>3, <1>4 DEF Inv, Types
<1>6. HalfInserted'
  BY <1>1 DEF Inv, HalfInserted, Listed
<1>7. WalkInv'
  <2> SUFFICES ASSUME rpc' \in {"walk", "call"} PROVE DueAhead' /\ CalleeHere' /\ PassedOnce'
    BY DEF WalkInv
  <2>1. rpc' = rpc /\ DueAhead /\ CalleeHere /\ PassedOnce
    BY <1>3 DEF Inv, WalkInv
  <2>2. CalleeHere'
    BY <1>1, <2>1 DEF CalleeHere, AtFront
  <2>3. ASSUME NEW d \in due
        PROVE  Listed(d)' /\ Cared(d)'
    <3>1. d \in Machines /\ Listed(d) /\ Cared(d)
      BY <2>1 DEF DueAhead, Inv, Types
    <3>2. Listed(d)'
      BY <1>1, <3>1 DEF Listed
    <3>3. CASE d = s
      BY <1>4, <2>3, <3>1, <3>2, <3>3 DEF Cared, Accidents
    <3>4. CASE d # s
      <4>1. stage'[d] = stage[d] /\ screen'[d] = screen[d] /\ met'[d] = met[d]
        BY <1>1, <1>4, <3>1, <3>4 DEF Inv, Types
      <4> QED  BY <1>1, <3>1, <3>2, <4>1 DEF Cared, Ahead
    <3> QED  BY <3>3, <3>4
  <2>4. \A d \in due : met'[d] = "passedOver" => met[d] = "passedOver"
    BY <1>4 DEF Inv, Types
  <2>5. PassedOnce'
    BY <1>1, <2>1, <2>4 DEF PassedOnce
  <2> QED  BY <1>1, <2>2, <2>3, <2>5 DEF DueAhead
<1> QED  BY <1>5, <1>6, <1>7 DEF Inv

(* What the end of a call does to whom it was for: the tag is shown, or    *)
(* the server is not ready, or it has met with an accident.                *)
LEMMA EndOfCall ==
  ASSUME Inv, Shown \/ Unshown \/ Unreached \/ Ignored \/ Lost
  PROVE  \E harm \in [Machines -> Fates] :
           /\ StepOn(harm)
           /\ callee.name \in Machines
           /\ \A d \in Machines \ {callee.name} : harm[d] = met[d] /\ screen'[d] = screen[d]
           /\ harm[callee.name] = met[callee.name] \/ harm[callee.name] \in Accidents \ {"passedOver"}
           /\ screen' \in [Machines -> Tags \cup {NoTag}]
           /\ screen[callee.name] = lastTag => screen'[callee.name] = lastTag
           /\ callee.name \in due =>
                \/ harm[callee.name] \in Accidents
                \/ screen'[callee.name] = lastTag \/ stage[callee.name] # "ready"
<1>1. rpc = "call"
  BY DEF Shown, Unshown, Unreached, Ignored, Lost, StepOn
<1>2. callee \in Entries /\ callee.name \in Machines
  BY <1>1 DEF Inv, Types, Entries
<1> DEFINE s == callee.name
<1>3. s \in Machines
  BY <1>2
<1> HIDE DEF s
<1>4. met \in [Machines -> Fates] /\ screen \in [Machines -> Tags \cup {NoTag}] /\ lastTag \in Tags \cup {NoTag}
  BY DEF Inv, Types
<1>5. CASE Shown
  <2>1. StepOn(met) /\ screen' = [screen EXCEPT ![s] = lastTag]
    BY <1>5 DEF Shown, s
  <2> QED  BY <1>3, <1>4, <2>1 DEF s
<1>6. CASE Ignored
  <2>1. StepOn(met) /\ screen' = screen /\ stage[s] # "ready"
    BY <1>6 DEF Ignored, s
  <2> QED  BY <1>3, <1>4, <2>1 DEF s
<1>7. ASSUME NEW what \in Accidents \ {"passedOver"}, StepOn(Harmed(s, what)), screen' = screen
      PROVE  \E harm \in [Machines -> Fates] :
               /\ StepOn(harm)
               /\ \A d \in Machines \ {s} : harm[d] = met[d] /\ screen'[d] = screen[d]
               /\ harm[s] = met[s] \/ harm[s] \in Accidents \ {"passedOver"}
               /\ screen' \in [Machines -> Tags \cup {NoTag}]
               /\ screen[s] = lastTag => screen'[s] = lastTag
               /\ s \in due => harm[s] \in Accidents
  <2> DEFINE harm == Harmed(s, what)
  <2>1. /\ harm \in [Machines -> Fates]
        /\ \A d \in Machines : harm[d] = IF d = s /\ s \in due THEN what ELSE met[d]
    BY <1>3, <1>7, HarmedFate DEF Inv
  <2>2. StepOn(harm)
    BY <1>7
  <2> HIDE DEF harm
  <2> QED  BY <1>3, <1>4, <1>7, <2>1, <2>2
<1>8. CASE Unshown \/ Unreached \/ Lost
  <2>1. \E what \in Accidents \ {"passedOver"} : StepOn(Harmed(s, what)) /\ screen' = screen
    BY <1>8 DEF Unshown, Unreached, Lost, Accidents, s
  <2>2. PICK what \in Accidents \ {"passedOver"} : StepOn(Harmed(s, what)) /\ screen' = screen
    BY <2>1
  <2> QED  BY <1>2, <1>7, <2>2 DEF s
<1> QED  BY <1>5, <1>6, <1>8

(* A call that has ended, in any of five ways, and the step to the next.   *)
LEMMA StepInv ==
  ASSUME Inv, Shown \/ Unshown \/ Unreached \/ Ignored \/ Lost
  PROVE  Inv'
<1>1. PICK harm \in [Machines -> Fates] :
        /\ StepOn(harm)
        /\ callee.name \in Machines
        /\ \A d \in Machines \ {callee.name} : harm[d] = met[d] /\ screen'[d] = screen[d]
        /\ harm[callee.name] = met[callee.name] \/ harm[callee.name] \in Accidents \ {"passedOver"}
        /\ screen' \in [Machines -> Tags \cup {NoTag}]
        /\ screen[callee.name] = lastTag => screen'[callee.name] = lastTag
        /\ callee.name \in due =>
             \/ harm[callee.name] \in Accidents
             \/ screen'[callee.name] = lastTag \/ stage[callee.name] # "ready"
  BY EndOfCall
<1>2. /\ rpc = "call" /\ rpc' = "walk" /\ pos' = pos + 1
      /\ UNCHANGED <<stage, address, resolving, directory, inserting, lastTag, due>>
      /\ met' = [s \in Machines |-> IF s \in due \cap PassedOver THEN "passedOver" ELSE harm[s]]
  BY <1>1 DEF StepOn, NextCell, avahiVars, listVars
<1>3. DueAhead /\ CalleeHere /\ PassedOnce
  BY <1>2 DEF Inv, WalkInv
<1>4. met' \in [Machines -> Fates]
  BY <1>2 DEF Fates, Accidents
<1>5. Types'
  <2>1. pos' \in Nat \ {0}
    BY <1>2 DEF Inv, Types
  <2> QED  BY <1>1, <1>2, <1>4, <2>1 DEF Inv, Types
<1>6. HalfInserted'
  BY <1>2 DEF Inv, HalfInserted, Listed
<1>7. ASSUME NEW d \in due
      PROVE  Listed(d)' /\ Cared(d)'
  <2>1. d \in Machines /\ Listed(d) /\ Cared(d)
    BY <1>3 DEF DueAhead, Inv, Types
  <2>2. Listed(d)'
    BY <1>2, <2>1 DEF Listed
  <2>3. met'[d] = IF d \in PassedOver THEN "passedOver" ELSE harm[d]
    BY <1>2, <2>1
  <2>4. "passedOver" \in Accidents
    BY DEF Accidents
  <2>5. CASE d \in PassedOver \/ harm[d] \in Accidents
    BY <2>2, <2>3, <2>4, <2>5 DEF Cared
  <2>6. CASE d \notin PassedOver /\ harm[d] \notin Accidents
    <3>1. met[d] \notin Accidents
      BY <1>1, <2>1, <2>6
    <3>2. stage[d] = "ready" /\ (screen[d] = lastTag \/ Ahead(d))
      BY <2>1, <3>1 DEF Cared
    <3>3. CASE screen[d] = lastTag
      <4>1. screen'[d] = lastTag
        BY <1>1, <2>1, <3>3
      <4> QED  BY <1>2, <2>2, <3>2, <4>1 DEF Cared
    <3>4. CASE Ahead(d)
      <4>1. PICK i \in 1..Len(directory) : i >= pos /\ directory[i].name = d
        BY <3>4 DEF Ahead
      <4>2. CASE i > pos
        <5>1. i >= pos'
          BY <1>2, <4>2 DEF Inv, Types
        <5>2. Ahead(d)'
          BY <1>2, <4>1, <5>1 DEF Ahead
        <5> QED  BY <1>2, <2>2, <3>2, <5>2 DEF Cared
      <4>3. CASE ~(i > pos)
        <5>1. i = pos /\ pos <= Len(directory)
          BY <4>1, <4>3 DEF Inv, Types
        <5>2. directory[pos].name = d
          BY <4>1, <5>1
        <5>3. callee.name = d
          <6>1. CASE AtFront
            <7>1. PassedOver = {d} \ {callee.name}
              BY <5>2, <6>1 DEF PassedOver, AtFront
            <7> QED  BY <2>6, <7>1
          <6>2. CASE ~AtFront
            BY <1>2, <1>3, <5>1, <5>2, <6>2 DEF CalleeHere
          <6> QED  BY <6>1, <6>2
        <5>4. screen'[d] = lastTag
          BY <1>1, <2>6, <3>2, <5>3
        <5> QED  BY <1>2, <2>2, <3>2, <5>4 DEF Cared
      <4> QED  BY <4>2, <4>3
    <3> QED  BY <3>2, <3>3, <3>4
  <2> QED  BY <2>5, <2>6
<1>8. PassedOnce'
  <2>1. pos' # 1
    BY <1>2 DEF Inv, Types
  <2>2. ASSUME NEW d \in due, met'[d] = "passedOver"
        PROVE  d \in PassedOver \/ met[d] = "passedOver"
    <3>1. d \in Machines
      BY DEF Inv, Types
    <3> QED  BY <1>1, <1>2, <2>2, <3>1
  <2>3. CASE AtFront
    <3>1. \A d \in due : met[d] # "passedOver"
      BY <1>3, <2>3 DEF PassedOnce, AtFront
    <3>2. \A d, e \in PassedOver : d = e
      BY DEF PassedOver
    <3>3. \A d \in due : met'[d] = "passedOver" => d \in PassedOver
      BY <2>2, <3>1
    <3>4. \A d, e \in due : met'[d] = "passedOver" /\ met'[e] = "passedOver" => d = e
      BY <3>2, <3>3
    <3> QED  BY <1>2, <2>1, <3>4 DEF PassedOnce
  <2>4. CASE ~AtFront
    <3>1. PassedOver = {}
      BY <2>4 DEF PassedOver, AtFront
    <3>2. \A d \in due : met'[d] = "passedOver" => met[d] = "passedOver"
      BY <2>2, <3>1
    <3> QED  BY <1>2, <1>3, <2>1, <3>2 DEF PassedOnce
  <2> QED  BY <2>3, <2>4
<1>9. WalkInv'
  BY <1>2, <1>7, <1>8 DEF WalkInv, DueAhead, CalleeHere
<1> QED  BY <1>5, <1>6, <1>9 DEF Inv

(* The walk begins at the head of the list.                                *)
LEMMA TagReadInv ==
  ASSUME Inv, NEW t \in Tags, TagRead(t)
  PROVE  Inv'
<1>1. /\ lastTag' = t /\ rpc' = "walk" /\ pos' = 1
      /\ due' = {s \in Machines : stage[s] = "ready" /\ Listed(s)}
      /\ met' = Unharmed
      /\ UNCHANGED <<stage, address, screen, resolving, directory, inserting, callee>>
  BY DEF TagRead, serverVars, avahiVars, listVars
<1>2. met' \in [Machines -> Fates] /\ \A s \in Machines : met'[s] = "nothing"
  BY <1>1 DEF Unharmed, Fates
<1>3. Types'
  BY <1>1, <1>2 DEF Inv, Types
<1>4. HalfInserted'
  BY <1>1 DEF Inv, HalfInserted, Listed
<1>5. ASSUME NEW d \in due'
      PROVE  Listed(d)' /\ Cared(d)'
  <2>1. stage[d] = "ready" /\ Listed(d)
    BY <1>1
  <2>2. PICK i \in 1..Len(directory) : directory[i].name = d
    BY <2>1 DEF Listed
  <2>3. i >= pos'
    BY <1>1
  <2> QED  BY <1>1, <2>1, <2>2, <2>3 DEF Listed, Cared, Ahead
<1>6. PassedOnce'
  BY <1>1, <1>2 DEF PassedOnce
<1>7. WalkInv'
  BY <1>1, <1>5, <1>6 DEF WalkInv, DueAhead, CalleeHere
<1> QED  BY <1>3, <1>4, <1>7 DEF Inv

(* Every step keeps it.                                                    *)
LEMMA NextInv == Inv /\ [Next]_vars => Inv'
<1> SUFFICES ASSUME Inv, [Next]_vars PROVE Inv'
  OBVIOUS
<1>1. ASSUME NEW s \in Machines, Start(s) \/ GetReady(s)
      PROVE  Inv'
  <2>1. /\ \E v \in {"starting", "ready"} : stage' = [stage EXCEPT ![s] = v]
        /\ stage[s] # "ready"
        /\ UNCHANGED <<address, screen, resolving, directory, inserting, rpc, lastTag, pos,
                       callee, due, met>>
    BY <1>1 DEF Start, GetReady, avahiVars, listVars, readerVars
  <2>2. Types'
    BY <2>1 DEF Inv, Types
  <2>3. HalfInserted'
    BY <2>1 DEF Inv, HalfInserted, Listed
  <2>4. WalkInv'
    <3> SUFFICES ASSUME rpc \in {"walk", "call"} PROVE DueAhead' /\ CalleeHere' /\ PassedOnce'
      BY <2>1 DEF WalkInv
    <3>1. DueAhead /\ CalleeHere /\ PassedOnce
      BY DEF Inv, WalkInv
    <3>2. \A d \in due : stage[d] = "ready" => stage'[d] = "ready"
      BY <2>1 DEF Inv, Types
    <3>3. DueAhead'
      BY <2>1, <3>1, <3>2 DEF DueAhead, Cared, Ahead, Listed
    <3> QED  BY <2>1, <3>1, <3>3 DEF CalleeHere, PassedOnce, AtFront
  <2> QED  BY <2>2, <2>3, <2>4 DEF Inv
<1>2. ASSUME NEW s \in Machines, Announce(s) \/ FoundKnown(s) \/ ResolveFails(s)
      PROVE  Inv'
  <2>1. /\ UNCHANGED <<stage, address, screen, directory, inserting, rpc, lastTag, pos, callee,
                       due, met>>
        /\ resolving' \subseteq Machines
        /\ inserting = NoEntry
    BY <1>2 DEF Announce, FoundKnown, ResolveFails, Callbacks, Asked, serverVars, listVars,
                readerVars, Inv, Types
  <2> QED  BY <2>1, ElsewhereInv
<1>3. CASE Quit \/ UNCHANGED vars
  <2>1. UNCHANGED <<stage, address, screen, resolving, directory, inserting, rpc, lastTag, pos,
                    callee, due, met>>
    BY <1>3 DEF Quit, serverVars, listVars, readerVars, vars
  <2> QED  BY <2>1, ElsewhereInv DEF Inv, Types, HalfInserted
<1>4. CASE Call
  <2>1. /\ rpc = "walk" /\ pos <= Len(directory)
        /\ rpc' = "call" /\ callee' = Seen(pos)
        /\ UNCHANGED <<stage, address, screen, resolving, directory, inserting, lastTag, pos,
                       due, met>>
    BY <1>4 DEF Call, serverVars, avahiVars, listVars
  <2>2. directory[pos] \in Entries
    BY <2>1 DEF Inv, Types
  <2>3. callee' \in Entries /\ (callee' = directory[pos] \/ AtFront)
    BY <2>1, <2>2 DEF Seen, AtFront, Inv, Types
  <2>4. Types'
    BY <2>1, <2>3 DEF Inv, Types
  <2>5. HalfInserted'
    BY <2>1 DEF Inv, HalfInserted, Listed
  <2>6. DueAhead /\ PassedOnce
    BY <2>1 DEF Inv, WalkInv
  <2>7. DueAhead' /\ PassedOnce'
    BY <2>1, <2>6 DEF DueAhead, PassedOnce, Cared, Ahead, Listed
  <2>8. CalleeHere'
    BY <2>1, <2>3 DEF CalleeHere, AtFront
  <2> QED  BY <2>4, <2>5, <2>7, <2>8 DEF Inv, WalkInv
<1>5. CASE EndWalk
  <2>1. /\ rpc' = "poll" /\ pos' = 1 /\ due' = {} /\ met' = Unharmed
        /\ UNCHANGED <<stage, address, screen, resolving, directory, inserting, lastTag, callee>>
    BY <1>5 DEF EndWalk, serverVars, avahiVars, listVars
  <2>2. met' \in [Machines -> Fates]
    BY <2>1 DEF Unharmed, Fates
  <2>3. Types'
    BY <2>1, <2>2 DEF Inv, Types
  <2> QED  BY <2>1, <2>3 DEF Inv, WalkInv, HalfInserted, Listed
<1>6. ASSUME NEW s \in Machines, Server(s) \/ Network(s)
      PROVE  Inv'
  BY <1>1, <1>2, <1>6, FoundNewInv, FoundFirstInv, WithdrawInv, FallInv DEF Server, Network
<1>7. CASE Reader
  BY <1>4, <1>5, <1>7, StepInv DEF Reader
<1> QED  BY <1>3, <1>6, <1>7, PushCdrInv, TagReadInv DEF Next

(* "a client will automatically notify each server", for any number of     *)
(* servers: when a walk of reader_handle_tag ends, every server that was   *)
(* ready and listed when it began shows the tag, unless it has failed, was *)
(* listed with an address it has no more, its request was lost or came to  *)
(* nothing there, or, one at most, its entry was on the move.              *)
THEOREM SwipesAreShownAnywhere == Spec => []SwipesAreShown
<1>1. Inv => SwipesAreShown
  <2> SUFFICES ASSUME Inv, rpc = "walk", pos > Len(directory)
               PROVE  /\ \A s \in due : screen[s] = lastTag \/ met[s] \in Accidents
                      /\ \A s, t \in due : met[s] = "passedOver" /\ met[t] = "passedOver" => s = t
    BY DEF SwipesAreShown
  <2>1. DueAhead /\ PassedOnce
    BY DEF Inv, WalkInv
  <2>2. ASSUME NEW s \in due PROVE screen[s] = lastTag \/ met[s] \in Accidents
    <3>1. ~Ahead(s)
      BY DEF Ahead, Inv, Types
    <3> QED  BY <2>1, <3>1 DEF DueAhead, Cared
  <2> QED  BY <2>1, <2>2 DEF PassedOnce
<1> QED  BY <1>1, InitInv, NextInv, PTL DEF Spec

--------------------------------------------------------------------------------
(* The refinement of ServerDirectory: entries become names, and servers    *)
(* the links they are found on.                                            *)
NamesOf(list) == [i \in 1..Len(list) |-> list[i].name]

(* The names of a list of entries are a sequence as long as the list.      *)
LEMMA NamesTyped ==
  ASSUME NEW list \in Seq(Entries)
  PROVE  /\ Len(list) \in Nat
         /\ NamesOf(list) \in Seq(Machines)
         /\ Len(NamesOf(list)) = Len(list)
         /\ \A i \in 1..Len(list) : NamesOf(list)[i] = list[i].name
<1>1. Len(list) \in Nat /\ \A i \in 1..Len(list) : list[i] \in Entries
  BY LenProperties, ElementOfSeq
<1>2. \A i \in 1..Len(list) : list[i].name \in Machines
  BY <1>1 DEF Entries
<1>3. NamesOf(list) \in [1..Len(list) -> Machines]
  BY <1>2 DEF NamesOf
<1>4. NamesOf(list) \in Seq(Machines) /\ Len(NamesOf(list)) = Len(list)
  BY <1>1, <1>3, SequenceOf
<1> QED  BY <1>1, <1>4 DEF NamesOf

(* An entry in front of the list is a name in front of the names, ...      *)
LEMMA NamesInFront ==
  ASSUME NEW list \in Seq(Entries), NEW e \in Entries
  PROVE  NamesOf(<<e>> \o list) = <<e.name>> \o NamesOf(list)
<1> DEFINE longer == <<e>> \o list
           names == <<e.name>> \o NamesOf(list)
<1>1. /\ longer \in Seq(Entries) /\ Len(longer) = Len(list) + 1
      /\ longer[1] = e
      /\ \A i \in 1..Len(list) : longer[i + 1] = list[i]
  BY FrontEntries
<1>2. /\ names \in Seq(Machines) /\ Len(names) = Len(list) + 1
      /\ names[1] = e.name
      /\ \A i \in 1..Len(list) : names[i + 1] = list[i].name
  <2>1. e.name \in Machines
    BY DEF Entries
  <2>2. /\ names \in Seq(Machines) /\ Len(names) = Len(NamesOf(list)) + 1
        /\ names[1] = e.name
        /\ \A i \in 1..Len(NamesOf(list)) : names[i + 1] = NamesOf(list)[i]
    BY <2>1, NamesTyped, FrontEntries
  <2> QED  BY <2>2, NamesTyped
<1> HIDE DEF longer, names
<1>3. /\ NamesOf(longer) \in Seq(Machines) /\ Len(NamesOf(longer)) = Len(list) + 1
      /\ \A i \in 1..(Len(list) + 1) : NamesOf(longer)[i] = longer[i].name
  BY <1>1, NamesTyped
<1>4. ASSUME NEW i \in 1..(Len(list) + 1)
      PROVE  NamesOf(longer)[i] = names[i]
  <2>1. CASE i = 1
    BY <1>1, <1>2, <1>3, <2>1
  <2>2. CASE i # 1
    <3>1. PICK j \in 1..Len(list) : i = j + 1
      <4>1. i - 1 \in 1..Len(list) /\ i = (i - 1) + 1
        BY <2>2, LenProperties
      <4> QED  BY <4>1
    <3>2. longer[i] = list[j] /\ names[i] = list[j].name
      BY <1>1, <1>2, <3>1
    <3> QED  BY <1>3, <3>2
  <2> QED  BY <2>1, <2>2
<1>5. NamesOf(longer) = names
  BY <1>2, <1>3, <1>4, SeqEqual
<1> QED  BY <1>5 DEF longer, names

(* ... and an entry taken out of it is a name taken out of them.           *)
LEMMA NamesWithout ==
  ASSUME NEW list \in Seq(Entries), NEW k \in 1..Len(list)
  PROVE  NamesOf(RemoveAt(list, k)) = RemoveAt(NamesOf(list), k)
<1> DEFINE shorter == RemoveAt(list, k)
           names == RemoveAt(NamesOf(list), k)
<1>1. /\ shorter \in Seq(Entries) /\ Len(shorter) = Len(list) - 1
      /\ \A i \in 1..(Len(list) - 1) : shorter[i] = IF i < k THEN list[i] ELSE list[i + 1]
  BY RemoveAtEntries
<1>2. /\ names \in Seq(Machines) /\ Len(names) = Len(list) - 1
      /\ \A i \in 1..(Len(list) - 1) :
           names[i] = IF i < k THEN NamesOf(list)[i] ELSE NamesOf(list)[i + 1]
  BY NamesTyped, RemoveAtEntries
<1> HIDE DEF shorter, names
<1>3. /\ NamesOf(shorter) \in Seq(Machines) /\ Len(NamesOf(shorter)) = Len(list) - 1
      /\ \A i \in 1..(Len(list) - 1) : NamesOf(shorter)[i] = shorter[i].name
  BY <1>1, NamesTyped
<1>4. ASSUME NEW i \in 1..(Len(list) - 1)
      PROVE  NamesOf(shorter)[i] = names[i]
  <2>1. i \in 1..Len(list) /\ i + 1 \in 1..Len(list)
    BY LenProperties
  <2>2. NamesOf(list)[i] = list[i].name /\ NamesOf(list)[i + 1] = list[i + 1].name
    BY <2>1, NamesTyped
  <2> QED  BY <1>1, <1>2, <1>3, <2>2
<1>5. NamesOf(shorter) = names
  BY <1>2, <1>3, <1>4, SeqEqual
<1> QED  BY <1>5 DEF shorter, names

(* In the deployment each server has one link, so sets of servers are      *)
(* sets of links.                                                          *)
LEMMA LinkSets ==
  ASSUME NEW s, NEW A
  PROVE  /\ Link(s)[1] = s
         /\ Link(s) \in {Link(x) : x \in A} <=> s \in A
         /\ {Link(x) : x \in A \cup {s}} = {Link(x) : x \in A} \cup {Link(s)}
         /\ {Link(x) : x \in A \ {s}} = {Link(x) : x \in A} \ {Link(s)}
<1>1. \A x, y : Link(x) = Link(y) => x = y
  BY DEF Link
<1>2. Link(s)[1] = s
  BY DEF Link
<1> HIDE DEF Link
<1> QED  BY <1>1, <1>2

(* A deployment begins with a directory that has just been made.           *)
LEMMA InitDirectory == Init => Directory!Init
<1> SUFFICES ASSUME Init PROVE Directory!Init
  OBVIOUS
<1>1. Names = <<>>
  BY DEF Names, Init
<1>2. Directory!Reverse(<<>>) = <<>>
  BY DEF Directory!Reverse
<1> QED BY <1>1, <1>2 DEF Init, Directory!Init

(* A server is listed in the deployment when its name is in the            *)
(* directory.                                                              *)
LEMMA SameListed ==
  ASSUME Types, NEW s \in Machines
  PROVE  /\ Listed(s) <=> Directory!Listed(s)
         /\ Len(Names) = Len(directory)
         /\ \A i \in 1..Len(directory) : Names[i] = directory[i].name
<1>1. directory \in Seq(Entries) /\ Names = NamesOf(directory)
  BY DEF Types, Names, NamesOf
<1> QED  BY <1>1, NamesTyped DEF Listed, Directory!Listed

(* An entry that goes in front of the list goes in front of the names, and *)
(* so the name leaves those that are being resolved.                       *)
LEMMA PushDirectory ==
  ASSUME Types, NEW e \in Entries, ~Listed(e.name), e.name \in resolving, browsing,
         directory' = <<e>> \o directory,
         resolving' = resolving \ {e.name},
         UNCHANGED <<browsing, announced, failed>>
  PROVE  Directory!Next
<1> DEFINE s == e.name
           link == Link(s)
<1>1. s \in Machines /\ directory \in Seq(Entries)
  BY DEF Entries, Types
<1>2. link \in {Link(x) : x \in Machines} /\ link[1] = s
  BY <1>1, LinkSets
<1>3. Names' = <<s>> \o Names
  <2>1. NamesOf(<<e>> \o directory) = <<s>> \o NamesOf(directory)
    BY <1>1, NamesInFront
  <2> QED  BY <2>1 DEF Names, NamesOf
<1>4. ~Directory!Listed(s)
  BY <1>1, SameListed
<1>5. /\ link \in {Link(x) : x \in resolving}
      /\ {Link(x) : x \in resolving \ {s}} = {Link(x) : x \in resolving} \ {link}
  BY LinkSets
<1> HIDE DEF link
<1>6. Directory!Found(link)
  BY <1>2, <1>3, <1>4, <1>5 DEF Directory!Found
<1> QED  BY <1>2, <1>6 DEF Directory!Next

(* One event of Avahi is one step of the directory.                        *)
LEMMA NetworkDirectory ==
  ASSUME Types, NEW s \in Machines, Network(s)
  PROVE  Directory!Next \/ UNCHANGED Directory!vars
<1> DEFINE link == Link(s)
           links == {Link(x) : x \in Machines}
<1>1. /\ link \in links
      /\ link[1] = s
      /\ browsing
      /\ browsing' = browsing
  BY LinkSets DEF Network, Announce, FoundKnown, FoundFirst, FoundNew, ResolveFails, Withdraw,
                  Callbacks, Running, avahiVars
<1>2. \A A : /\ link \in {Link(x) : x \in A} <=> s \in A
             /\ {Link(x) : x \in A \cup {s}} = {Link(x) : x \in A} \cup {link}
             /\ {Link(x) : x \in A \ {s}} = {Link(x) : x \in A} \ {link}
  BY LinkSets
<1>3. CASE ~FoundFirst(s) /\ ~FoundNew(s)
  <2> SUFFICES \/ Directory!Announce(link) \/ Directory!Found(link)
               \/ Directory!ResolveFails(link) \/ Directory!Withdraw(link)
    BY <1>1 DEF Directory!Next
  <2> HIDE DEF link
  <2>1. CASE Announce(s)
    <3>1. Names' = Names
      BY <2>1 DEF Announce, listVars, Names
    <3>2. /\ s \notin announced
          /\ announced' = announced \cup {s}
          /\ \/ resolving' = resolving \cup {s} /\ failed' = failed \ {s}
             \/ failed' = failed \cup {s} /\ resolving' = resolving
      BY <2>1 DEF Announce, Asked
    <3>3. Directory!Announce(link)
      BY <1>1, <1>2, <3>1, <3>2 DEF Directory!Announce
    <3> QED  BY <3>3
  <2>2. CASE FoundKnown(s)
    <3>1. s \in resolving /\ resolving' = resolving \ {s} /\ UNCHANGED <<announced, failed>>
      BY <2>2 DEF FoundKnown
    <3>2. Directory!Listed(s) /\ Names' = Names
      BY <2>2, SameListed DEF FoundKnown, listVars, Names
    <3> QED  BY <1>1, <1>2, <3>1, <3>2 DEF Directory!Found
  <2>3. CASE ResolveFails(s)
    <3>1. Names' = Names
      BY <2>3 DEF ResolveFails, listVars, Names
    <3>2. /\ s \in resolving /\ resolving' = resolving \ {s}
          /\ failed' = failed \cup {s} /\ announced' = announced
      BY <2>3 DEF ResolveFails
    <3>3. Directory!ResolveFails(link)
      BY <1>1, <1>2, <3>1, <3>2 DEF Directory!ResolveFails
    <3> QED  BY <3>3
  <2>4. CASE Withdraw(s)
    <3>1. /\ s \in announced /\ announced' = announced \ {s}
          /\ UNCHANGED <<resolving, failed>>
      BY <2>4 DEF Withdraw
    <3>2. IF Directory!Listed(s)
          THEN \E i \in 1..Len(Names) : Names[i] = s /\ Names' = Directory!RemoveAt(Names, i)
          ELSE Names' = Names
      <4>1. CASE EntriesOf(s) = {}
        <5>1. directory' = directory
          BY <2>4, <4>1 DEF Withdraw
        <5>2. ~Listed(s)
          BY <4>1 DEF Listed, EntriesOf
        <5> QED  BY <5>1, <5>2, SameListed DEF Names
      <4>2. CASE EntriesOf(s) # {}
        <5>1. PICK k \in EntriesOf(s) : directory' = RemoveAt(directory, k)
          BY <2>4, <4>2 DEF Withdraw
        <5>2. k \in 1..Len(directory) /\ directory[k].name = s
          BY DEF EntriesOf
        <5>3. Directory!Listed(s)
          BY <5>2, SameListed DEF Listed
        <5>4. Names' = RemoveAt(Names, k)
          <6>1. directory \in Seq(Entries)
            BY DEF Types
          <6>2. NamesOf(RemoveAt(directory, k)) = RemoveAt(NamesOf(directory), k)
            BY <5>2, <6>1, NamesWithout
          <6>3. Names' = NamesOf(directory') /\ Names = NamesOf(directory)
            BY DEF Names, NamesOf
          <6> QED  BY <5>1, <6>2, <6>3
        <5>5. Names' = Directory!RemoveAt(Names, k)
          BY <5>4 DEF RemoveAt, Directory!RemoveAt
        <5>6. k \in 1..Len(Names) /\ Names[k] = s
          BY <5>2, SameListed
        <5> QED  BY <5>3, <5>5, <5>6
      <4> QED  BY <4>1, <4>2
    <3>3. Directory!Withdraw(link)
      BY <1>1, <1>2, <3>1, <3>2 DEF Directory!Withdraw
    <3> QED  BY <3>3
  <2> QED  BY <1>3, <2>1, <2>2, <2>3, <2>4 DEF Network
<1>4. CASE FoundFirst(s)
  <2> DEFINE e == Entry(s, address[s])
  <2>1. /\ s \in resolving /\ resolving' = resolving \ {s}
        /\ UNCHANGED <<browsing, announced, failed>>
        /\ directory = <<>> /\ directory' = <<e>>
    BY <1>4 DEF FoundFirst
  <2>2. e \in Entries /\ e.name = s
    BY DEF Entry, Entries, Types
  <2> HIDE DEF e
  <2>3. directory' = <<e>> \o directory
    BY <2>1
  <2>4. ~Listed(s)
    BY <2>1 DEF Listed
  <2> QED  BY <1>1, <2>1, <2>2, <2>3, <2>4, PushDirectory
<1>5. CASE FoundNew(s)
  BY <1>5 DEF FoundNew, avahiVars, Directory!vars, Names
<1> QED  BY <1>3, <1>4, <1>5

(* Every step is a step of the directory or leaves it alone: an insertion  *)
(* is one when its last write is made.                                     *)
LEMMA NextDirectory == Inv /\ [Next]_vars => [Directory!Next]_(Directory!vars)
<1> SUFFICES ASSUME Types, HalfInserted, [Next]_vars
             PROVE  [Directory!Next]_(Directory!vars)
  BY DEF Inv
<1>1. ASSUME UNCHANGED <<avahiVars, directory>>
      PROVE  UNCHANGED Directory!vars
  BY <1>1 DEF avahiVars, Directory!vars, Names
<1>2. CASE Quit
  <2>1. Names' = Names
    BY <1>2 DEF Quit, listVars, Names
  <2>2. Directory!Quit
    BY <1>2, <2>1 DEF Quit, Callbacks, Running, Directory!Quit
  <2> QED  BY <2>2 DEF Directory!Next
<1>3. CASE Reader
  BY <1>1, <1>3 DEF Reader, Call, Shown, Unshown, Unreached, Ignored, Lost, StepOn, EndWalk,
                    listVars
<1>4. ASSUME NEW s \in Machines, Server(s)
      PROVE  UNCHANGED Directory!vars
  BY <1>1, <1>4 DEF Server, Start, GetReady, Crash, HostCrash, Fall, listVars
<1>5. ASSUME NEW s \in Machines, Network(s)
      PROVE  [Directory!Next]_(Directory!vars)
  BY <1>5, NetworkDirectory
<1>6. ASSUME NEW t \in Tags, TagRead(t)
      PROVE  UNCHANGED Directory!vars
  BY <1>1, <1>6 DEF TagRead, listVars
<1>7. CASE UNCHANGED vars
  BY <1>1, <1>7 DEF vars, avahiVars
<1>8. CASE PushCdr
  <2>1. /\ inserting # NoEntry /\ browsing
        /\ directory' = <<inserting>> \o directory
        /\ resolving' = resolving \ {inserting.name}
        /\ UNCHANGED <<browsing, announced, failed>>
    BY <1>8 DEF PushCdr, Running
  <2>2. inserting \in Entries /\ ~Listed(inserting.name) /\ inserting.name \in resolving
    BY <2>1 DEF Types, HalfInserted
  <2> QED  BY <2>1, <2>2, PushDirectory
<1> QED  BY <1>2, <1>3, <1>4, <1>5, <1>6, <1>7, <1>8 DEF Next

(* The client's list of the servers behaves as ServerDirectory says, for   *)
(* any number of servers whose processes and hosts fail and come back, and *)
(* wherever the walks of the reader's thread are meanwhile.                *)
THEOREM DeploymentImplementsDirectory == Spec => ImplementsDirectory
<1> QED  BY InitInv, NextInv, InitDirectory, NextDirectory, PTL DEF Spec, ImplementsDirectory, Directory!Spec

================================================================================
