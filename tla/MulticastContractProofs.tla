----------------------- MODULE MulticastContractProofs ----------------------
(***************************************************************************)
(* What follows from the multicast contract alone, for every capacity and  *)
(* any number of handles, registrations and publications: ContractInv is   *)
(* inductive.  Both multicast queues inherit it.                           *)
(***************************************************************************)
EXTENDS MulticastContract, TLAPS

LEMMA InitInv == Init => ContractInv
<1>. SUFFICES ASSUME Init PROVE ContractInv
  BY Zenon
<1>1. /\ log = << >> /\ start = << >> /\ received = << >>
      /\ Len(start) = 0 /\ Len(received) = 0 /\ DOMAIN received = {}
  BY DEF Init
<1>2. ContractTypes
  BY <1>1 DEF Init, ContractTypes
<1>3. \A h \in Handles : attached[h] = FALSE
  BY Zenon DEF Init
<1>. QED
  BY <1>1, <1>2, <1>3, Zenon DEF ContractInv, CursorInv, DeliveredAsPublished, DeliveredInOrder,
     NoSilentLoss

\* A message that has been delivered once stays as it is.
LEMMA PublishKeeps ==
    ASSUME Capacity \in Nat, ContractInv, Publish
    PROVE  ContractInv'
<1>1. PICK payload \in Payloads : log' = Append(log, payload)
  BY Zenon DEF Publish
<1>2. /\ UNCHANGED <<attached, next_sequence, registration, start, received>>
      /\ ContractTypes /\ CursorInv /\ DeliveredAsPublished /\ DeliveredInOrder /\ NoSilentLoss
  BY Zenon DEF Publish, ContractInv
<1>3. /\ log' \in Seq(Payloads) /\ Len(log') = Len(log) + 1 /\ Len(log) \in Nat
      /\ \A s \in 1..Len(log) : log'[s] = log[s]
      /\ DOMAIN log = 1..Len(log) /\ DOMAIN log' = 1..Len(log')
  BY <1>1, <1>2 DEF ContractTypes
<1>4. ContractTypes'
  BY <1>2, <1>3, Zenon DEF ContractTypes, Messages
<1>5. CursorInv' /\ DeliveredInOrder'
  BY <1>2, Zenon DEF CursorInv, DeliveredInOrder
<1>6. DeliveredAsPublished'
  BY <1>2, <1>3 DEF DeliveredAsPublished
<1>7. NoSilentLoss'
  <2>1. ASSUME NEW s \in Int, s + Capacity <= Len(log)
        PROVE  s + Capacity <= Len(log')
    BY <1>3, <2>1
  <2>. QED  BY <1>2, <2>1 DEF NoSilentLoss
<1>. QED  BY <1>4, <1>5, <1>6, <1>7, Zenon DEF ContractInv

\* A new registration has been given nothing and its cursor has passed nothing.
LEMMA RegisterKeeps ==
    ASSUME ContractInv, NEW h \in Handles, Register(h)
    PROVE  ContractInv'
<1>1. PICK s \in 1..(Len(log) + 1) :
          next_sequence' = [next_sequence EXCEPT ![h] = s] /\ start' = Append(start, s)
  BY Zenon DEF Register
<1>2. /\ attached' = [attached EXCEPT ![h] = TRUE]
      /\ registration' = [registration EXCEPT ![h] = Len(start) + 1]
      /\ received' = Append(received, << >>) /\ UNCHANGED log
  BY Zenon DEF Register
<1>3. ContractTypes /\ CursorInv /\ DeliveredAsPublished /\ DeliveredInOrder /\ NoSilentLoss
  BY Zenon DEF ContractInv
<1>4. PICK n \in Nat : n = Len(start) /\ n = Len(received)
  BY <1>3 DEF ContractTypes
<1>5. s \in Nat /\ s # 0
  BY <1>1, <1>3 DEF ContractTypes
<1>6. /\ start' \in Seq(Nat) /\ Len(start') = n + 1 /\ start'[n + 1] = s
      /\ \A r \in 1..n : start'[r] = start[r]
  BY <1>1, <1>3, <1>4, <1>5 DEF ContractTypes
<1>7. /\ received' \in Seq(Seq(Messages)) /\ Len(received') = n + 1 /\ received'[n + 1] = << >>
      /\ \A r \in 1..n : received'[r] = received[r]
      /\ DOMAIN received = 1..n /\ DOMAIN received' = 1..(n + 1)
  <2>1. received \in Seq(Seq(Messages))
    BY <1>3, Zenon DEF ContractTypes
  <2>2. << >> \in Seq(Messages)
    OBVIOUS
  <2>. QED  BY <1>2, <1>4, <2>1, <2>2
<1>8. /\ registration' \in [Handles -> 0..(n + 1)] /\ next_sequence' \in [Handles -> Nat]
      /\ registration'[h] = n + 1 /\ next_sequence'[h] = s
      /\ \A g \in Handles \ {h} :
             /\ registration'[g] = registration[g] /\ registration[g] \in 0..n
             /\ next_sequence'[g] = next_sequence[g]
  BY <1>1, <1>2, <1>3, <1>4, <1>5 DEF ContractTypes
<1>9. /\ attached' \in [Handles -> BOOLEAN]
      /\ \A g \in Handles \ {h} : attached'[g] = attached[g]
  BY <1>2, <1>3, Zenon DEF ContractTypes
<1>10. ContractTypes'
  BY <1>2, <1>3, <1>6, <1>7, <1>8, <1>9, Zenon DEF ContractTypes, Messages
<1>11. ASSUME NEW g \in Handles \ {h}, attached'[g]
       PROVE  attached[g] /\ registration[g] \in 1..n /\ registration'[g] \in 1..n
  BY <1>3, <1>8, <1>9, <1>11 DEF CursorInv
<1>12. CursorInv'
  <2>1. ASSUME NEW g \in Handles, attached'[g]
        PROVE  registration'[g] # 0 /\ next_sequence'[g] # 0
    BY <1>3, <1>5, <1>8, <1>11, <2>1 DEF CursorInv
  <2>2. ASSUME NEW g \in Handles, NEW e \in Handles, attached'[g], attached'[e],
               registration'[g] = registration'[e]
        PROVE  g = e
    BY <1>3, <1>8, <1>11, <2>2 DEF CursorInv
  <2>3. ASSUME NEW g \in Handles, attached'[g], NEW i \in DOMAIN received'[registration'[g]]
        PROVE  received'[registration'[g]][i].sequence < next_sequence'[g]
    <3>1. g # h
      BY <1>7, <1>8, <2>3
    <3>2. /\ attached[g] /\ received'[registration'[g]] = received[registration[g]]
          /\ next_sequence'[g] = next_sequence[g]
      BY <1>7, <1>8, <1>11, <2>3, <3>1, Zenon
    <3>. QED  BY <1>3, <2>3, <3>2, Zenon DEF CursorInv
  <2>. QED  BY <2>1, <2>2, <2>3, Zenon DEF CursorInv
<1>13. DeliveredAsPublished' /\ DeliveredInOrder'
  <2>1. ASSUME NEW r \in DOMAIN received', NEW i \in DOMAIN received'[r]
        PROVE  r \in DOMAIN received /\ received'[r] = received[r]
    BY <1>7, <2>1
  <2>2. ASSUME NEW r \in DOMAIN received', NEW i \in 1..(Len(received'[r]) - 1)
        PROVE  r \in DOMAIN received /\ received'[r] = received[r]
    BY <1>7, <2>2
  <2>3. DeliveredAsPublished'
    BY <1>2, <1>3, <2>1 DEF DeliveredAsPublished
  <2>4. DeliveredInOrder'
    BY <1>3, <2>2, Zenon DEF DeliveredInOrder
  <2>. QED  BY <2>3, <2>4, Zenon
<1>14. NoSilentLoss'
  <2>. SUFFICES ASSUME NEW g \in Handles, attached'[g],
                       NEW q \in start'[registration'[g]]..(next_sequence'[g] - 1)
                PROVE  \/ \E i \in DOMAIN received'[registration'[g]] :
                              received'[registration'[g]][i].sequence = q
                       \/ q + Capacity <= Len(log')
    BY Zenon DEF NoSilentLoss
  <2>1. g # h
    BY <1>5, <1>6, <1>8
  <2>2. /\ start'[registration'[g]] = start[registration[g]] /\ next_sequence'[g] = next_sequence[g]
        /\ received'[registration'[g]] = received[registration[g]] /\ attached[g]
    <3>1. attached[g] /\ registration[g] \in 1..n
      BY <1>11, <2>1, Zenon
    <3>2. registration'[g] = registration[g] /\ next_sequence'[g] = next_sequence[g]
      BY <1>8, <2>1, Zenon
    <3>3. start'[registration[g]] = start[registration[g]]
      BY <1>6, <3>1, Zenon
    <3>4. received'[registration[g]] = received[registration[g]]
      BY <1>7, <3>1, Zenon
    <3>. QED  BY <3>1, <3>2, <3>3, <3>4, Zenon
  <2>. QED  BY <1>2, <1>3, <2>2, Zenon DEF NoSilentLoss
<1>. QED  BY <1>10, <1>12, <1>13, <1>14, Zenon DEF ContractInv

LEMMA MoveKeeps ==
    ASSUME ContractInv, NEW h \in Handles, NEW g \in Handles, Move(h, g)
    PROVE  ContractInv'
<1>1. /\ g # h /\ attached' = [attached EXCEPT ![g] = attached[h], ![h] = FALSE]
      /\ next_sequence' = [next_sequence EXCEPT ![g] = next_sequence[h]]
      /\ registration' = [registration EXCEPT ![g] = registration[h]]
      /\ UNCHANGED <<log, start, received>>
  BY Zenon DEF Move
<1>2. ContractTypes /\ CursorInv /\ DeliveredAsPublished /\ DeliveredInOrder /\ NoSilentLoss
  BY Zenon DEF ContractInv
<1>3. attached' \in [Handles -> BOOLEAN] /\ attached'[g] = attached[h] /\ attached'[h] = FALSE
  <2>1. attached \in [Handles -> BOOLEAN] /\ attached[h] \in BOOLEAN
    BY <1>2, Zenon DEF ContractTypes
  <2>2. PICK between \in [Handles -> BOOLEAN] : between = [attached EXCEPT ![g] = attached[h]]
    BY <2>1, Zenon
  <2>3. attached' = [between EXCEPT ![h] = FALSE]
    BY <1>1, <2>2, Zenon
  <2>4. between[g] = attached[h]
    BY <2>1, <2>2, Zenon
  <2>. QED  BY <1>1, <2>3, <2>4, Zenon
<1>4. \A e \in Handles : e # g /\ e # h => attached'[e] = attached[e]
  BY <1>1, <1>2, Zenon DEF ContractTypes
<1>5. /\ next_sequence' \in [Handles -> Nat] /\ registration' \in [Handles -> 0..Len(start)]
      /\ next_sequence'[g] = next_sequence[h] /\ registration'[g] = registration[h]
      /\ \A e \in Handles : e # g =>
             next_sequence'[e] = next_sequence[e] /\ registration'[e] = registration[e]
  BY <1>1, <1>2, Zenon DEF ContractTypes
<1>6. ContractTypes'
  BY <1>1, <1>2, <1>3, <1>5, Zenon DEF ContractTypes, Messages
<1>7. \A e \in Handles : attached'[e] =>
          \E f \in Handles :
              /\ attached[f] /\ f = IF e = g THEN h ELSE e
              /\ registration'[e] = registration[f] /\ next_sequence'[e] = next_sequence[f]
  BY <1>3, <1>4, <1>5, Zenon
<1>8. CursorInv'
  <2>1. ASSUME NEW e \in Handles, attached'[e]
        PROVE  /\ registration'[e] # 0 /\ next_sequence'[e] # 0
               /\ \A i \in DOMAIN received'[registration'[e]] :
                      received'[registration'[e]][i].sequence < next_sequence'[e]
    BY <1>1, <1>2, <1>7, <2>1 DEF CursorInv
  <2>2. ASSUME NEW d \in Handles, NEW e \in Handles, attached'[d], attached'[e],
               registration'[d] = registration'[e]
        PROVE  d = e
    <3>1. d # h /\ e # h
      BY <1>3, <2>2, Zenon
    <3>. QED  BY <1>2, <1>7, <2>2, <3>1 DEF CursorInv
  <2>. QED  BY <2>1, <2>2, Zenon DEF CursorInv
<1>9. DeliveredAsPublished' /\ DeliveredInOrder'
  BY <1>1, <1>2, Zenon DEF DeliveredAsPublished, DeliveredInOrder
<1>10. NoSilentLoss'
  BY <1>1, <1>2, <1>7 DEF NoSilentLoss
<1>. QED  BY <1>6, <1>8, <1>9, <1>10, Zenon DEF ContractInv

\* The message under the cursor is appended; no other handle that is attached has
\* the same registration.
LEMMA DeliverKeeps ==
    ASSUME ContractInv, NEW h \in Handles, Deliver(h)
    PROVE  ContractInv'
<1>1. ContractTypes /\ CursorInv /\ DeliveredAsPublished /\ DeliveredInOrder /\ NoSilentLoss
  BY Zenon DEF ContractInv
<1>2. attached[h] /\ next_sequence[h] <= Len(log) /\ UNCHANGED <<log, attached, registration, start>>
  BY Zenon DEF Deliver
<1>3. PICK s \in Nat \ {0}, r \in Nat \ {0} :
          s = next_sequence[h] /\ r = registration[h] /\ s \in 1..Len(log) /\ r \in 1..Len(received)
  BY <1>1, <1>2 DEF ContractTypes, CursorInv
<1>4. PICK message \in Messages : message = [sequence |-> s, payload |-> log[s]]
  <2>1. [sequence |-> s, payload |-> log[s]] \in Messages
    BY <1>1, <1>3 DEF ContractTypes, Messages
  <2>. QED  BY <2>1, Zenon
<1>5. message.sequence = s /\ message.payload = log[s]
  BY <1>4, Zenon
<1>6. PICK old \in Seq(Messages) : old = received[r]
  BY <1>1, <1>3 DEF ContractTypes
<1>7. PICK new \in Seq(Messages) : new = Append(old, message)
  <2>1. Append(old, message) \in Seq(Messages)
    OBVIOUS
  <2>. QED  BY <2>1, Zenon
<1>8. /\ Len(new) = Len(old) + 1 /\ new[Len(old) + 1] = message /\ Len(old) \in Nat
      /\ \A i \in 1..Len(old) : new[i] = old[i]
      /\ DOMAIN old = 1..Len(old) /\ DOMAIN new = 1..(Len(old) + 1)
  BY <1>7
<1>9. received' = [received EXCEPT ![r] = new]
  BY <1>3, <1>4, <1>6, <1>7, Zenon DEF Deliver
<1>10. /\ received' \in Seq(Seq(Messages)) /\ Len(received') = Len(received)
       /\ DOMAIN received' = DOMAIN received /\ received'[r] = new
       /\ \A q \in DOMAIN received \ {r} : received'[q] = received[q]
  <2>1. received \in Seq(Seq(Messages))
    BY <1>1, Zenon DEF ContractTypes
  <2>. QED  BY <1>3, <1>9, <2>1
<1>11. /\ next_sequence' \in [Handles -> Nat] /\ next_sequence'[h] = s + 1
       /\ \A g \in Handles \ {h} : next_sequence'[g] = next_sequence[g]
  <2>1. next_sequence \in [Handles -> Nat]
    BY <1>1, Zenon DEF ContractTypes
  <2>. QED  BY <1>3, <2>1 DEF Deliver
<1>12. ContractTypes'
  BY <1>1, <1>2, <1>10, <1>11, Zenon DEF ContractTypes, Messages
<1>13. \A i \in 1..Len(old) : old[i].sequence < s
  BY <1>1, <1>2, <1>3, <1>6, <1>8, Zenon DEF CursorInv
<1>14. ASSUME NEW g \in Handles \ {h}, attached'[g]
       PROVE  /\ attached[g] /\ registration'[g] = registration[g] /\ next_sequence'[g] = next_sequence[g]
              /\ registration[g] # r /\ received'[registration[g]] = received[registration[g]]
  <2>1. attached[g] /\ registration'[g] = registration[g] /\ next_sequence'[g] = next_sequence[g]
    BY <1>2, <1>11, <1>14, Zenon
  <2>2. registration[g] # r
    BY <1>1, <1>2, <1>3, <2>1, Zenon DEF CursorInv
  <2>3. registration[g] \in DOMAIN received
    BY <1>1, <2>1 DEF CursorInv, ContractTypes
  <2>. QED  BY <1>10, <2>1, <2>2, <2>3, Zenon
<1>15. CursorInv'
  <2>1. ASSUME NEW g \in Handles, attached'[g]
        PROVE  /\ registration'[g] # 0 /\ next_sequence'[g] # 0
               /\ \A i \in DOMAIN received'[registration'[g]] :
                      received'[registration'[g]][i].sequence < next_sequence'[g]
    <3>1. CASE g = h
      <4>1. registration'[g] = r /\ received'[registration'[g]] = new /\ next_sequence'[g] = s + 1
        BY <1>2, <1>3, <1>10, <1>11, <3>1, Zenon
      <4>2. ASSUME NEW i \in DOMAIN new PROVE new[i].sequence < s + 1
        <5>1. CASE i \in 1..Len(old)
          <6>1. old[i] \in Messages
            BY <5>1
          <6>2. old[i].sequence \in Nat
            BY <6>1, Zenon DEF Messages
          <6>. QED  BY <1>8, <1>13, <5>1, <6>2
        <5>. QED  BY <1>5, <1>8, <5>1
      <4>. QED  BY <4>1, <4>2
    <3>2. CASE g # h
      BY <1>1, <1>14, <2>1, <3>2, Zenon DEF CursorInv
    <3>. QED  BY <3>1, <3>2, Zenon
  <2>2. ASSUME NEW g \in Handles, NEW e \in Handles, attached'[g], attached'[e],
               registration'[g] = registration'[e]
        PROVE  g = e
    BY <1>1, <1>2, <2>2, Zenon DEF CursorInv
  <2>. QED  BY <2>1, <2>2, Zenon DEF CursorInv
<1>16. DeliveredAsPublished'
  <2>1. ASSUME NEW q \in DOMAIN received', NEW i \in DOMAIN received'[q]
        PROVE  /\ received'[q][i].sequence \in DOMAIN log
               /\ received'[q][i].payload = log[received'[q][i].sequence]
    <3>1. CASE q # r
      BY <1>1, <1>10, <2>1, <3>1 DEF DeliveredAsPublished
    <3>2. CASE q = r /\ i \in 1..Len(old)
      <4>1. r \in DOMAIN received /\ i \in DOMAIN received[r] /\ received'[q][i] = received[r][i]
        BY <1>6, <1>8, <1>10, <2>1, <3>2, Zenon
      <4>. QED  BY <1>1, <4>1, Zenon DEF DeliveredAsPublished
    <3>3. CASE q = r /\ i = Len(old) + 1
      <4>1. received'[q][i] = message
        BY <1>8, <1>10, <3>3, Zenon
      <4>2. s \in DOMAIN log
        BY <1>1, <1>3 DEF ContractTypes
      <4>. QED  BY <1>5, <4>1, <4>2, Zenon
    <3>4. q = r => i \in 1..(Len(old) + 1)
      BY <1>8, <1>10, <2>1, Zenon
    <3>5. \A l \in 1..(Len(old) + 1) : l \in 1..Len(old) \/ l = Len(old) + 1
      BY <1>8
    <3>. QED  BY <3>1, <3>2, <3>3, <3>4, <3>5, Zenon
  <2>. QED  BY <1>2, <2>1, Zenon DEF DeliveredAsPublished
<1>17. DeliveredInOrder'
  <2>1. ASSUME NEW q \in DOMAIN received', NEW i \in 1..(Len(received'[q]) - 1)
        PROVE  received'[q][i].sequence < received'[q][i + 1].sequence
    <3>1. CASE q # r
      BY <1>1, <1>10, <2>1, <3>1, Zenon DEF DeliveredInOrder
    <3>2. CASE q = r /\ i + 1 <= Len(old)
      <4>1. /\ r \in DOMAIN received /\ i \in 1..(Len(received[r]) - 1)
            /\ received'[q][i] = received[r][i] /\ received'[q][i + 1] = received[r][i + 1]
        BY <1>6, <1>8, <1>10, <2>1, <3>2
      <4>. QED  BY <1>1, <4>1, Zenon DEF DeliveredInOrder
    <3>3. CASE q = r /\ i = Len(old)
      <4>1. received'[q] = new
        BY <1>10, <3>3, Zenon
      <4>2. i \in 1..Len(old)
        BY <1>8, <2>1, <3>3, <4>1
      <4>3. new[i] = old[i] /\ new[i + 1] = message
        BY <1>8, <3>3, <4>2, Zenon
      <4>. QED  BY <1>5, <1>13, <4>1, <4>2, <4>3, Zenon
    <3>4. q = r => i + 1 <= Len(old) \/ i = Len(old)
      <4>. SUFFICES ASSUME q = r PROVE i + 1 <= Len(old) \/ i = Len(old)
        OBVIOUS
      <4>1. i \in 1..(Len(new) - 1)
        BY <1>10, <2>1, Zenon
      <4>2. Len(new) = Len(old) + 1 /\ Len(old) \in Nat
        BY <1>8, Zenon
      <4>. QED  BY <4>1, <4>2
    <3>. QED  BY <3>1, <3>2, <3>3, <3>4, Zenon
  <2>. QED  BY <2>1, Zenon DEF DeliveredInOrder
<1>18. NoSilentLoss'
  <2>. SUFFICES ASSUME NEW g \in Handles, attached'[g],
                       NEW q \in start'[registration'[g]]..(next_sequence'[g] - 1)
                PROVE  \/ \E i \in DOMAIN received'[registration'[g]] :
                              received'[registration'[g]][i].sequence = q
                       \/ q + Capacity <= Len(log')
    BY Zenon DEF NoSilentLoss
  <2>1. CASE g # h
    BY <1>1, <1>2, <1>14, <2>1 DEF NoSilentLoss
  <2>2. CASE g = h /\ q = s
    <3>1. received'[registration'[g]] = new
      BY <1>2, <1>3, <1>10, <2>2, Zenon
    <3>. QED  BY <1>5, <1>8, <2>2, <3>1
  <2>3. CASE g = h /\ q # s
    <3>1. q \in start[r]..(next_sequence[h] - 1)
      BY <1>2, <1>3, <1>11, <2>3
    <3>2. \/ \E i \in DOMAIN old : old[i].sequence = q
          \/ q + Capacity <= Len(log)
      BY <1>1, <1>2, <1>3, <1>6, <3>1, Zenon DEF NoSilentLoss
    <3>3. received'[registration'[g]] = new
      BY <1>2, <1>3, <1>10, <2>3, Zenon
    <3>. QED  BY <1>2, <1>8, <3>2, <3>3
  <2>. QED  BY <2>1, <2>2, <2>3, Zenon
<1>. QED  BY <1>12, <1>15, <1>16, <1>17, <1>18, Zenon DEF ContractInv

\* What is passed over has been replaced.
LEMMA SkipKeeps ==
    ASSUME Capacity \in Nat, ContractInv, NEW h \in Handles, Skip(h)
    PROVE  ContractInv'
<1>1. ContractTypes /\ CursorInv /\ DeliveredAsPublished /\ DeliveredInOrder /\ NoSilentLoss
  BY Zenon DEF ContractInv
<1>2. attached[h] /\ UNCHANGED <<log, attached, registration, start, received>>
  BY Zenon DEF Skip
<1>3. PICK s \in next_sequence[h]..Len(log) :
          s - 1 + Capacity <= Len(log) /\ next_sequence' = [next_sequence EXCEPT ![h] = s]
  BY Zenon DEF Skip
<1>4. /\ next_sequence \in [Handles -> Nat] /\ Len(log) \in Nat /\ next_sequence[h] \in Nat \ {0}
      /\ start \in Seq(Nat)
  BY <1>1, <1>2 DEF ContractTypes, CursorInv
<1>5. /\ next_sequence' \in [Handles -> Nat] /\ next_sequence'[h] = s /\ s \in Nat \ {0}
      /\ next_sequence[h] <= s
      /\ \A g \in Handles \ {h} : next_sequence'[g] = next_sequence[g]
  BY <1>3, <1>4
<1>6. ContractTypes'
  BY <1>1, <1>2, <1>5, Zenon DEF ContractTypes, Messages
<1>7. CursorInv'
  <2>1. ASSUME NEW g \in Handles, attached'[g], NEW i \in DOMAIN received'[registration'[g]]
        PROVE  received'[registration'[g]][i].sequence < next_sequence'[g]
    <3>1. /\ attached[g] /\ i \in DOMAIN received[registration[g]]
          /\ received'[registration'[g]][i] = received[registration[g]][i]
      BY <1>2, <2>1, Zenon
    <3>2. received[registration[g]][i].sequence < next_sequence[g]
      BY <1>1, <3>1, Zenon DEF CursorInv
    <3>3. received[registration[g]][i].sequence \in Nat /\ next_sequence[g] \in Nat
      <4>1. registration[g] \in 1..Len(received)
        BY <1>1, <3>1 DEF CursorInv, ContractTypes
      <4>2. received[registration[g]] \in Seq(Messages)
        BY <1>1, <4>1 DEF ContractTypes
      <4>3. received[registration[g]][i] \in Messages
        BY <3>1, <4>2
      <4>. QED  BY <1>4, <4>3, Zenon DEF Messages
    <3>4. next_sequence[g] <= next_sequence'[g] /\ next_sequence'[g] \in Nat
      <4>1. CASE g = h
        BY <1>4, <1>5, <4>1, Zenon
      <4>2. CASE g # h
        BY <1>5, <3>3, <4>2
      <4>. QED  BY <4>1, <4>2, Zenon
    <3>. QED  BY <3>1, <3>2, <3>3, <3>4
  <2>2. ASSUME NEW g \in Handles, attached'[g]
        PROVE  registration'[g] # 0 /\ next_sequence'[g] # 0
    BY <1>1, <1>2, <1>5, <2>2, Zenon DEF CursorInv
  <2>3. ASSUME NEW g \in Handles, NEW e \in Handles, attached'[g], attached'[e],
               registration'[g] = registration'[e]
        PROVE  g = e
    BY <1>1, <1>2, <2>3, Zenon DEF CursorInv
  <2>. QED  BY <2>1, <2>2, <2>3, Zenon DEF CursorInv
<1>8. DeliveredAsPublished' /\ DeliveredInOrder'
  BY <1>1, <1>2, Zenon DEF DeliveredAsPublished, DeliveredInOrder
<1>9. NoSilentLoss'
  <2>. SUFFICES ASSUME NEW g \in Handles, attached'[g],
                       NEW q \in start'[registration'[g]]..(next_sequence'[g] - 1)
                PROVE  \/ \E i \in DOMAIN received'[registration'[g]] :
                              received'[registration'[g]][i].sequence = q
                       \/ q + Capacity <= Len(log')
    BY Zenon DEF NoSilentLoss
  <2>1. CASE g # h
    BY <1>1, <1>2, <1>5, <2>1, Zenon DEF NoSilentLoss
  <2>2. CASE g = h /\ q < next_sequence[h]
    <3>1. q \in start[registration[h]]..(next_sequence[h] - 1)
      BY <1>2, <1>4, <2>2
    <3>. QED  BY <1>1, <1>2, <2>2, <3>1, Zenon DEF NoSilentLoss
  <2>3. CASE g = h /\ ~ (q < next_sequence[h])
    BY <1>2, <1>3, <1>4, <1>5, <2>3
  <2>. QED  BY <2>1, <2>2, <2>3, Zenon
<1>. QED  BY <1>6, <1>7, <1>8, <1>9, Zenon DEF ContractInv

LEMMA NextInv ==
    ASSUME Capacity \in Nat
    PROVE  ContractInv /\ [Next]_vars => ContractInv'
<1>. SUFFICES ASSUME ContractInv, [Next]_vars PROVE ContractInv'
  BY Zenon
<1>1. CASE UNCHANGED vars
  <2>1. UNCHANGED <<log, attached, next_sequence, registration, start, received>>
    BY <1>1, Zenon DEF vars
  <2>. QED
    BY <2>1 DEF ContractInv, ContractTypes, Messages, CursorInv, DeliveredAsPublished,
                DeliveredInOrder, NoSilentLoss
<1>. QED
  BY <1>1, PublishKeeps, RegisterKeeps, MoveKeeps, DeliverKeeps, SkipKeeps, Zenon DEF Next

\* Whatever implements the contract gives every registration what was published, in
\* order and at most once, and passes over nothing that has not been replaced: for
\* every capacity and all moves of the handles.
THEOREM ContractHolds ==
    ASSUME Capacity \in Nat
    PROVE  Spec => [](DeliveredAsPublished /\ DeliveredInOrder /\ NoSilentLoss)
<1>1. Spec => []ContractInv
  BY InitInv, NextInv, PTL DEF Spec
<1>2. ContractInv => DeliveredAsPublished /\ DeliveredInOrder /\ NoSilentLoss
  BY Zenon DEF ContractInv
<1>. QED  BY <1>1, <1>2, PTL

=============================================================================
