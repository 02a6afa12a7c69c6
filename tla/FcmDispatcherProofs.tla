------------------------ MODULE FcmDispatcherProofs ------------------------
(***************************************************************************)
(* Proof that the list of tokens in memory is current, for any devices,    *)
(* batches and bounds.  Nothing locks the list: it is current because the  *)
(* connection serves requests in the order they were made and the loop     *)
(* resumes their tasks in that order, and because a registration, a removal *)
(* and a read make two requests each.                                      *)
(***************************************************************************)
EXTENDS FcmDispatcher, FiniteSetTheorems, TLAPS

Whats == {"none", "insert", "commit", "select", "fetch", "delete"}

(***************************************************************************)
(* The line of waiting tasks.                                              *)
(***************************************************************************)
Waits(x) == \E i \in 1..Len(line) : line[i] = x
WasServed(x) == \E i \in 1..served : line[i] = x
Ahead(x, y) == \E i, j \in 1..Len(line) : i < j /\ line[i] = x /\ line[j] = y

Lined ==
  /\ line \in Seq(Tasks) /\ served \in 0..Len(line)
  /\ \A i, j \in 1..Len(line) : line[i] = line[j] => i = j

LEMMA Joins ==
  ASSUME Lined, NEW t \in Tasks, ~Waits(t), line' = Append(line, t), served' = served
  PROVE  /\ Lined'
         /\ \A x : Waits(x)' <=> Waits(x) \/ x = t
         /\ \A x : WasServed(x)' <=> WasServed(x)
         /\ \A x, y : Ahead(x, y) => Ahead(x, y)'
         /\ \A x : Waits(x) => Ahead(x, t)'
<1>1. /\ Len(line) \in Nat /\ Len(line') = Len(line) + 1 /\ line'[Len(line) + 1] = t
      /\ \A i \in 1..Len(line) : line'[i] = line[i]
      /\ line' \in Seq(Tasks) /\ served \in Nat /\ served <= Len(line)
  BY DEF Lined
<1>2. Lined'
  BY <1>1 DEF Lined, Waits
<1>3. \A x : Waits(x)' <=> Waits(x) \/ x = t
  BY <1>1 DEF Waits
<1>4. \A x : WasServed(x)' <=> WasServed(x)
  BY <1>1 DEF WasServed
<1>5. \A x, y : Ahead(x, y) => Ahead(x, y)'
  BY <1>1 DEF Ahead
<1>6. \A x : Waits(x) => Ahead(x, t)'
  BY <1>1 DEF Ahead, Waits
<1> QED
  BY <1>2, <1>3, <1>4, <1>5, <1>6

LEMMA Leaves ==
  ASSUME Lined, served > 0, NEW h, h = Head(line), line' = Tail(line),
         served' = served - 1
  PROVE  /\ Lined' /\ WasServed(h) /\ Waits(h)
         /\ \A x : Waits(x)' <=> Waits(x) /\ x # h
         /\ \A x : WasServed(x)' <=> WasServed(x) /\ x # h
         /\ \A x, y : Ahead(x, y) /\ x # h => Ahead(x, y)'
         /\ \A x : ~Ahead(x, h)
<1>1. /\ Len(line) \in Nat \ {0} /\ Len(line') = Len(line) - 1 /\ h = line[1]
      /\ \A i \in 1..Len(line') : line'[i] = line[i + 1]
      /\ line' \in Seq(Tasks) /\ served \in Nat \ {0} /\ served <= Len(line)
  BY DEF Lined
<1>2. \A i, j \in 1..Len(line) : line[i] = line[j] => i = j
  BY DEF Lined
<1>3. \A i \in 2..Len(line) : i - 1 \in 1..Len(line') /\ line'[i - 1] = line[i]
  BY <1>1
<1>4. Lined'
  BY <1>1, <1>2 DEF Lined
<1>5. WasServed(h) /\ Waits(h)
  BY <1>1 DEF WasServed, Waits
<1>6. ASSUME NEW x PROVE Waits(x)' <=> Waits(x) /\ x # h
  <2>1. ASSUME Waits(x)' PROVE Waits(x) /\ x # h
    <3>1. PICK i \in 1..Len(line') : line'[i] = x
      BY <2>1 DEF Waits
    <3> QED
      BY <1>1, <1>2, <3>1 DEF Waits
  <2>2. ASSUME Waits(x), x # h PROVE Waits(x)'
    <3>1. PICK i \in 1..Len(line) : line[i] = x
      BY <2>2 DEF Waits
    <3>2. i - 1 \in 1..Len(line') /\ line'[i - 1] = x
      BY <1>1, <1>3, <2>2, <3>1
    <3> QED
      BY <3>2 DEF Waits
  <2> QED
    BY <2>1, <2>2
<1>7. ASSUME NEW x PROVE WasServed(x)' <=> WasServed(x) /\ x # h
  <2>1. ASSUME WasServed(x)' PROVE WasServed(x) /\ x # h
    <3>1. PICK i \in 1..served' : line'[i] = x
      BY <2>1 DEF WasServed
    <3> QED
      BY <1>1, <1>2, <3>1 DEF WasServed
  <2>2. ASSUME WasServed(x), x # h PROVE WasServed(x)'
    <3>1. PICK i \in 1..served : line[i] = x
      BY <2>2 DEF WasServed
    <3>2. i - 1 \in 1..served' /\ line'[i - 1] = x
      BY <1>1, <1>3, <2>2, <3>1
    <3> QED
      BY <3>2 DEF WasServed
  <2> QED
    BY <2>1, <2>2
<1>8. ASSUME NEW x, NEW y, Ahead(x, y), x # h PROVE Ahead(x, y)'
  <2>1. PICK i, j \in 1..Len(line) : i < j /\ line[i] = x /\ line[j] = y
    BY <1>8 DEF Ahead
  <2>2. i - 1 \in 1..Len(line') /\ j - 1 \in 1..Len(line') /\ i - 1 < j - 1
        /\ line'[i - 1] = x /\ line'[j - 1] = y
    BY <1>1, <1>3, <1>8, <2>1
  <2> QED
    BY <2>2 DEF Ahead
<1>9. ASSUME NEW x PROVE ~Ahead(x, h)
  BY <1>1, <1>2 DEF Ahead
<1> QED
  BY <1>4, <1>5, <1>6, <1>7, <1>8, <1>9

LEMMA AsksAgain ==
  ASSUME Lined, NEW h, NEW n \in Nat \ {0}, n = Len(line), h = line[1],
         line' \in Seq(Tasks), Len(line') = n, line'[n] = h,
         \A i \in 1..(n - 1) : line'[i] = line[i + 1],
         served \in Nat \ {0}, served <= n, served' = served - 1
  PROVE  /\ Lined' /\ WasServed(h) /\ Waits(h)
         /\ \A x : Waits(x)' <=> Waits(x)
         /\ \A x : WasServed(x)' <=> WasServed(x) /\ x # h
         /\ \A x, y : Ahead(x, y) /\ x # h => Ahead(x, y)'
         /\ \A x : Waits(x) /\ x # h => Ahead(x, h)'
         /\ \A x : ~Ahead(x, h)
<1>2. \A i, j \in 1..n : line[i] = line[j] => i = j
  BY DEF Lined
<1>3. \A i \in 2..n : i - 1 \in 1..(n - 1) /\ line'[i - 1] = line[i]
  OBVIOUS
<1>4. Lined'
  <2>1. ASSUME NEW i \in 1..n, NEW j \in 1..n, line'[i] = line'[j]
        PROVE  i = j
    <3>1. CASE i < n /\ j < n
      <4>1. i + 1 \in 1..n /\ j + 1 \in 1..n /\ line[i + 1] = line[j + 1]
        BY <2>1, <3>1
      <4> QED
        BY <1>2, <4>1
    <3>2. CASE i = n /\ j < n
      <4>1. j + 1 \in 1..n /\ line[j + 1] = line[1] /\ j + 1 # 1
        BY <2>1, <3>2
      <4> QED
        BY <1>2, <4>1
    <3>3. CASE i < n /\ j = n
      <4>1. i + 1 \in 1..n /\ line[i + 1] = line[1] /\ i + 1 # 1
        BY <2>1, <3>3
      <4> QED
        BY <1>2, <4>1
    <3>4. CASE i = n /\ j = n
      BY <3>4
    <3> QED
      BY <3>1, <3>2, <3>3, <3>4
  <2> QED
    BY <2>1 DEF Lined
<1>5. WasServed(h) /\ Waits(h)
  BY DEF WasServed, Waits
<1>6. ASSUME NEW x PROVE Waits(x)' <=> Waits(x)
  <2>1. ASSUME Waits(x)' PROVE Waits(x)
    BY <2>1 DEF Waits
  <2>2. ASSUME Waits(x) PROVE Waits(x)'
    <3>1. PICK i \in 1..n : line[i] = x
      BY <2>2 DEF Waits
    <3>2. CASE i = 1
      BY <3>1, <3>2 DEF Waits
    <3>3. CASE i # 1
      <4>1. i - 1 \in 1..n /\ line'[i - 1] = x
        BY <1>3, <3>1, <3>3
      <4> QED
        BY <4>1 DEF Waits
    <3> QED
      BY <3>2, <3>3
  <2> QED
    BY <2>1, <2>2
<1>7. ASSUME NEW x PROVE WasServed(x)' <=> WasServed(x) /\ x # h
  <2>1. ASSUME WasServed(x)' PROVE WasServed(x) /\ x # h
    <3>1. PICK i \in 1..served' : line'[i] = x
      BY <2>1 DEF WasServed
    <3>2. i \in 1..(n - 1) /\ i + 1 \in 1..served /\ line[i + 1] = x /\ i + 1 # 1
      BY <3>1
    <3> QED
      BY <1>2, <3>2 DEF WasServed
  <2>2. ASSUME WasServed(x), x # h PROVE WasServed(x)'
    <3>1. PICK i \in 1..served : line[i] = x
      BY <2>2 DEF WasServed
    <3>2. i - 1 \in 1..served' /\ line'[i - 1] = x
      BY <1>3, <2>2, <3>1
    <3> QED
      BY <3>2 DEF WasServed
  <2> QED
    BY <2>1, <2>2
<1>8. ASSUME NEW x, NEW y, Ahead(x, y), x # h PROVE Ahead(x, y)'
  <2>1. PICK i, j \in 1..n : i < j /\ line[i] = x /\ line[j] = y
    BY <1>8 DEF Ahead
  <2>2. i - 1 \in 1..n /\ j - 1 \in 1..n /\ i - 1 < j - 1
        /\ line'[i - 1] = x /\ line'[j - 1] = y
    BY <1>3, <1>8, <2>1
  <2> QED
    BY <2>2 DEF Ahead
<1>9. ASSUME NEW x, Waits(x), x # h PROVE Ahead(x, h)'
  <2>1. PICK i \in 1..n : line[i] = x
    BY <1>9 DEF Waits
  <2>2. i - 1 \in 1..n /\ i - 1 < n /\ line'[i - 1] = x
        /\ n \in 1..n /\ line'[n] = h
    BY <1>3, <1>9, <2>1
  <2> QED
    BY <2>2 DEF Ahead
<1>10. ASSUME NEW x PROVE ~Ahead(x, h)
  BY <1>2 DEF Ahead
<1> QED
  BY <1>4, <1>5, <1>6, <1>7, <1>8, <1>9, <1>10

LEMMA Rotated ==
  ASSUME Lined, served > 0, NEW h, h = Head(line),
         line' = Append(Tail(line), h), served' = served - 1
  PROVE  /\ Lined' /\ WasServed(h) /\ Waits(h)
         /\ \A x : Waits(x)' <=> Waits(x)
         /\ \A x : WasServed(x)' <=> WasServed(x) /\ x # h
         /\ \A x, y : Ahead(x, y) /\ x # h => Ahead(x, y)'
         /\ \A x : Waits(x) /\ x # h => Ahead(x, h)'
         /\ \A x : ~Ahead(x, h)
<1>1. /\ Len(line) \in Nat \ {0} /\ Len(line') = Len(line) /\ h = line[1]
      /\ line'[Len(line)] = h
      /\ \A i \in 1..(Len(line) - 1) : line'[i] = line[i + 1]
      /\ line' \in Seq(Tasks) /\ served \in Nat \ {0} /\ served <= Len(line)
  BY DEF Lined
<1> QED
  BY <1>1, AsksAgain

LEMMA NextIsServed ==
  ASSUME Lined, served < Len(line), NEW t, t = line[served + 1],
         served' = served + 1, line' = line
  PROVE  /\ Lined' /\ t \in Tasks /\ Waits(t) /\ ~WasServed(t)
         /\ \A x : Waits(x)' <=> Waits(x)
         /\ \A x : WasServed(x)' <=> WasServed(x) \/ x = t
         /\ \A x, y : Ahead(x, y) => Ahead(x, y)'
         /\ \A x : WasServed(x) => Ahead(x, t)'
         /\ \A x : Waits(x) /\ ~WasServed(x) /\ x # t => Ahead(t, x)'
<1>1. /\ Len(line) \in Nat /\ served \in Nat /\ served + 1 \in 1..Len(line)
      /\ \A i, j \in 1..Len(line) : line[i] = line[j] => i = j
      /\ \A i \in 1..Len(line) : line[i] \in Tasks
  BY DEF Lined
<1>2. Lined' /\ t \in Tasks /\ Waits(t)
  BY <1>1 DEF Lined, Waits
<1>3. ~WasServed(t)
  BY <1>1 DEF WasServed
<1>4. \A x : Waits(x)' <=> Waits(x)
  BY DEF Waits
<1>5. \A x : WasServed(x)' <=> WasServed(x) \/ x = t
  BY <1>1 DEF WasServed
<1>6. \A x, y : Ahead(x, y) => Ahead(x, y)'
  BY DEF Ahead
<1>7. \A x : WasServed(x) => Ahead(x, t)'
  BY <1>1 DEF WasServed, Ahead
<1>8. \A x : Waits(x) /\ ~WasServed(x) /\ x # t => Ahead(t, x)'
  BY <1>1 DEF WasServed, Waits, Ahead
<1> QED
  BY <1>2, <1>3, <1>4, <1>5, <1>6, <1>7, <1>8

(***************************************************************************)
(* The invariant.                                                          *)
(***************************************************************************)
Typed ==
  /\ Lined
  /\ request \in [Tasks -> Whats]
  /\ \A d \in Devices : request[d] \in {"none", "insert", "commit"}
  /\ request[Push] # "insert"
  /\ \A t \in Tasks : Waits(t) <=> request[t] # "none"
  /\ table \subseteq Devices /\ registered \subseteq Devices
  /\ pc \in {"idle", "query", "send", "prune"}
  /\ pc = "query" <=> request[Push] \in {"select", "fetch"}
  /\ request[Push] \in {"delete", "commit"} => pc = "prune"

\* The row of d was written and its registration has yet to return.
Writing(d) == request[d] = "commit" \/ (request[d] = "insert" /\ WasServed(d))
\* The row of Head(stale) was deleted and its removal has yet to return.
Deleting == request[Push] = "commit" \/ (request[Push] = "delete" /\ WasServed(Push))
\* The rows a push is going to get are known.
Reading == request[Push] = "fetch" \/ (request[Push] = "select" /\ WasServed(Push))

\* Of the devices without a row one alone may think it has one: the one being
\* deleted, when it registered again a moment before.
Rowless ==
  \A d \in Devices \ table :
    Writing(d) =>
      /\ Deleting /\ d = Head(stale)
      /\ request[Push] = "delete" /\ request[d] = "insert" => Ahead(d, Push)
      /\ request[Push] = "commit" => request[d] = "commit" /\ Ahead(d, Push)

RegisteredHaveRows ==
  \A d \in registered \ table : Deleting /\ d = Head(stale)

\* A device the push does not know of will empty the list after the push has
\* filled it: it waits behind.
ReadIsRecent ==
  Reading =>
    /\ found \subseteq table
    /\ \A d \in Devices \ found :
         /\ d \notin registered
         /\ request[Push] = "select" =>
              request[d] # "commit" /\ (request[d] = "insert" => Ahead(Push, d))
         /\ request[Push] = "fetch" /\ request[d] = "commit" => Ahead(Push, d)

ListIsCurrent ==
  cache # <<>> =>
    /\ registered \subseteq ToSet(cache)
    /\ \A d \in ToSet(cache) \ table : Deleting /\ d = Head(stale)

Current == Typed /\ Rowless /\ RegisteredHaveRows /\ ReadIsRecent /\ ListIsCurrent

LEMMA PushIsNoDevice == Push \notin Devices /\ Push \in Tasks /\ Devices \subseteq Tasks
  BY DispatcherAssumption DEF Tasks

\* Nothing moved but what the invariant does not speak of.
LEMMA Unmoved ==
  ASSUME Current, UNCHANGED <<table, request, line, served, found, registered>>,
         pc' \in {"idle", "query", "send", "prune"},
         pc' = pc \/ (request[Push] = "none" /\ pc' # "query"),
         cache' = cache, stale' = stale \/ request[Push] = "none"
  PROVE  Current'
<1>1. Typed'
  BY DEF Current, Typed, Lined, Waits
<1>2. /\ \A x : WasServed(x)' <=> WasServed(x)
      /\ \A x, y : Ahead(x, y)' <=> Ahead(x, y)
  BY DEF WasServed, Ahead
<1>3. /\ \A d : Writing(d)' <=> Writing(d)
      /\ Deleting' <=> Deleting
      /\ Reading' <=> Reading
      /\ Deleting => stale' = stale
  BY <1>2 DEF Writing, Deleting, Reading
<1>4. Rowless' /\ RegisteredHaveRows'
  BY <1>2, <1>3 DEF Current, Rowless, RegisteredHaveRows
<1>5. ReadIsRecent' /\ ListIsCurrent'
  BY <1>2, <1>3 DEF Current, ReadIsRecent, ListIsCurrent
<1> QED
  BY <1>1, <1>4, <1>5 DEF Current

LEMMA RegisterCurrent == \A d \in Devices : Current /\ Register(d) => Current'
<1> SUFFICES ASSUME NEW d \in Devices, Current, Register(d) PROVE Current'
  OBVIOUS
<1> USE PushIsNoDevice DEF pastVars, listVars
<1>1. /\ request' = [request EXCEPT ![d] = "insert"] /\ line' = Append(line, d)
      /\ served' = served /\ request[d] = "none" /\ ~Waits(d)
      /\ UNCHANGED <<table, cache, found, pc, stale, registered>>
  BY DEF Register, Ask, Current, Typed
<1>2. /\ Lined'
      /\ \A x : Waits(x)' <=> Waits(x) \/ x = d
      /\ \A x : WasServed(x)' <=> WasServed(x)
      /\ \A x, y : Ahead(x, y) => Ahead(x, y)'
      /\ \A x : Waits(x) => Ahead(x, d)'
  BY <1>1, Joins DEF Current, Typed
<1>3. /\ request[Push]' = request[Push] /\ request'[d] = "insert"
      /\ \A t \in Tasks : t # d => request'[t] = request[t]
      /\ ~WasServed(d)
  <2>1. ~WasServed(d)
    BY <1>1 DEF Current, Typed, Lined, WasServed, Waits
  <2> QED
    BY <1>1, <2>1 DEF Current, Typed
<1>4. Typed'
  BY <1>1, <1>2, <1>3 DEF Current, Typed, Whats
<1>5. /\ \A e \in Devices : Writing(e)' <=> Writing(e)
      /\ Deleting' <=> Deleting
      /\ Reading' <=> Reading
  BY <1>1, <1>2, <1>3 DEF Writing, Deleting, Reading
<1>6. ~Writing(d)
  BY <1>1, <1>3 DEF Writing
<1>7. Rowless'
  BY <1>1, <1>2, <1>3, <1>5, <1>6 DEF Current, Rowless
<1>8. RegisteredHaveRows'
  BY <1>1, <1>5 DEF Current, RegisteredHaveRows
<1>9. Reading => Waits(Push)
  BY DEF Reading, Current, Typed
<1>10. ReadIsRecent'
  BY <1>1, <1>2, <1>3, <1>5, <1>9 DEF Current, ReadIsRecent
<1>11. ListIsCurrent'
  BY <1>1, <1>5 DEF Current, ListIsCurrent
<1> QED
  BY <1>4, <1>7, <1>8, <1>10, <1>11 DEF Current

LEMMA RegisterCommitsCurrent == \A d \in Devices : Current /\ RegisterCommits(d) => Current'
<1> SUFFICES ASSUME NEW d \in Devices, Current, RegisterCommits(d) PROVE Current'
  OBVIOUS
<1> USE PushIsNoDevice DEF pastVars, listVars
<1>1. /\ request' = [request EXCEPT ![d] = "commit"] /\ line' = Append(Tail(line), d)
      /\ served' = served - 1 /\ served > 0 /\ Head(line) = d /\ request[d] = "insert"
      /\ UNCHANGED <<table, cache, found, pc, stale, registered>>
  BY DEF RegisterCommits, Answered, AsksNext
<1>2. /\ Lined' /\ WasServed(d) /\ Waits(d)
      /\ \A x : Waits(x)' <=> Waits(x)
      /\ \A x : WasServed(x)' <=> WasServed(x) /\ x # d
      /\ \A x, y : Ahead(x, y) /\ x # d => Ahead(x, y)'
      /\ \A x : Waits(x) /\ x # d => Ahead(x, d)'
      /\ \A x : ~Ahead(x, d)
  BY <1>1, Rotated DEF Current, Typed
<1>3. /\ request'[Push] = request[Push] /\ request'[d] = "commit"
      /\ \A t \in Tasks : t # d => request'[t] = request[t]
  BY <1>1 DEF Current, Typed
<1>4. Typed'
  BY <1>1, <1>2, <1>3 DEF Current, Typed, Whats
<1>5. /\ \A e \in Devices : Writing(e)' <=> Writing(e)
      /\ Deleting' <=> Deleting
      /\ Reading' <=> Reading
      /\ Writing(d)
  BY <1>1, <1>2, <1>3 DEF Writing, Deleting, Reading
<1>6. Rowless'
  BY <1>1, <1>2, <1>3, <1>5 DEF Current, Rowless
<1>7. RegisteredHaveRows'
  BY <1>1, <1>5 DEF Current, RegisteredHaveRows
<1>8. Reading => Waits(Push)
  BY DEF Reading, Current, Typed
<1>9. ReadIsRecent'
  BY <1>1, <1>2, <1>3, <1>5, <1>8 DEF Current, ReadIsRecent
<1>10. ListIsCurrent'
  BY <1>1, <1>5 DEF Current, ListIsCurrent
<1> QED
  BY <1>4, <1>6, <1>7, <1>9, <1>10 DEF Current

LEMMA RegisterReturnsCurrent == \A d \in Devices : Current /\ RegisterReturns(d) => Current'
<1> SUFFICES ASSUME NEW d \in Devices, Current, RegisterReturns(d) PROVE Current'
  OBVIOUS
<1> USE PushIsNoDevice DEF pastVars, listVars
<1>1. /\ request' = [request EXCEPT ![d] = "none"] /\ line' = Tail(line)
      /\ served' = served - 1 /\ served > 0 /\ Head(line) = d /\ request[d] = "commit"
      /\ UNCHANGED <<table, found, pc, stale>>
      /\ cache' = <<>> /\ registered' = registered \cup {d}
  BY DEF RegisterReturns, Answered, Released, ClearCache
<1>2. /\ Lined' /\ WasServed(d) /\ Waits(d)
      /\ \A x : Waits(x)' <=> Waits(x) /\ x # d
      /\ \A x : WasServed(x)' <=> WasServed(x) /\ x # d
      /\ \A x, y : Ahead(x, y) /\ x # d => Ahead(x, y)'
      /\ \A x : ~Ahead(x, d)
  BY <1>1, Leaves DEF Current, Typed
<1>3. /\ request'[Push] = request[Push] /\ request'[d] = "none"
      /\ \A t \in Tasks : t # d => request'[t] = request[t]
  BY <1>1 DEF Current, Typed
<1>4. Typed'
  BY <1>1, <1>2, <1>3 DEF Current, Typed, Whats
<1>5. /\ \A e \in Devices : Writing(e)' => Writing(e) /\ e # d
      /\ Deleting' <=> Deleting
      /\ Reading' <=> Reading
      /\ Writing(d)
  BY <1>1, <1>2, <1>3 DEF Writing, Deleting, Reading
<1>6. Rowless'
  BY <1>1, <1>2, <1>3, <1>5 DEF Current, Rowless
<1>7. RegisteredHaveRows'
  BY <1>1, <1>5 DEF Current, RegisteredHaveRows, Rowless
<1>8. Reading => d \in found
  BY <1>1, <1>2 DEF Current, ReadIsRecent, Reading
<1>9. ReadIsRecent'
  BY <1>1, <1>2, <1>3, <1>5, <1>8 DEF Current, ReadIsRecent
<1>10. ListIsCurrent'
  BY <1>1 DEF ListIsCurrent
<1> QED
  BY <1>4, <1>6, <1>7, <1>9, <1>10 DEF Current

\* The push asks: for the rows, or to delete one.
LEMMA PushAsks ==
  ASSUME Current, NEW what \in {"select", "delete"}, request[Push] = "none",
         Ask(Push, what), UNCHANGED <<table, cache, found, stale, registered>>,
         pc' = IF what = "select" THEN "query" ELSE "prune"
  PROVE  Current'
<1> USE PushIsNoDevice
<1>1. /\ request' = [request EXCEPT ![Push] = what] /\ line' = Append(line, Push)
      /\ served' = served /\ ~Waits(Push)
  BY DEF Ask, Current, Typed
<1>2. /\ Lined'
      /\ \A x : Waits(x)' <=> Waits(x) \/ x = Push
      /\ \A x : WasServed(x)' <=> WasServed(x)
      /\ \A x, y : Ahead(x, y) => Ahead(x, y)'
  BY <1>1, Joins DEF Current, Typed
<1>3. /\ request'[Push] = what
      /\ \A d \in Devices : request'[d] = request[d]
      /\ ~WasServed(Push)
  <2>1. ~WasServed(Push)
    BY <1>1 DEF Current, Typed, Lined, WasServed, Waits
  <2> QED
    BY <1>1, <2>1 DEF Current, Typed
<1>4. Typed'
  BY <1>1, <1>2, <1>3 DEF Current, Typed, Whats, Tasks
<1>5. /\ \A d \in Devices : Writing(d)' <=> Writing(d)
      /\ ~Deleting /\ ~Deleting' /\ ~Reading'
  BY <1>2, <1>3 DEF Writing, Deleting, Reading
<1>6. Rowless' /\ RegisteredHaveRows' /\ ReadIsRecent' /\ ListIsCurrent'
  BY <1>5 DEF Current, Rowless, RegisteredHaveRows, ReadIsRecent, ListIsCurrent
<1> QED
  BY <1>4, <1>6 DEF Current

\* A request is served: the row is written, deleted or read.
LEMMA ServeCurrent == \A t \in Tasks : Current /\ Serve(t) => Current'
<1> SUFFICES ASSUME NEW t \in Tasks, Current, Serve(t) PROVE Current'
  OBVIOUS
<1> USE PushIsNoDevice DEF pastVars, listVars
<1>1. /\ served < Len(line) /\ t = line[served + 1] /\ served' = served + 1
      /\ UNCHANGED <<cache, request, line, pc, stale, registered>>
  BY DEF Serve
<1>2. /\ Lined' /\ Waits(t) /\ ~WasServed(t)
      /\ \A x : Waits(x)' <=> Waits(x)
      /\ \A x : WasServed(x)' <=> WasServed(x) \/ x = t
      /\ \A x, y : Ahead(x, y) => Ahead(x, y)'
      /\ \A x : WasServed(x) => Ahead(x, t)'
      /\ \A x : Waits(x) /\ ~WasServed(x) /\ x # t => Ahead(t, x)'
  BY <1>1, NextIsServed DEF Current, Typed
<1>3. request[t] # "none" /\ \A d \in Devices : request[d] # "none" => Waits(d)
  BY <1>2 DEF Current, Typed
<1>4. table' \subseteq Devices => Typed'
  BY <1>1, <1>2 DEF Current, Typed
<1>5. CASE request[t] = "insert"
  <2>1. t \in Devices /\ table' = table \cup {t} /\ found' = found
    BY <1>5 DEF Serve, Current, Typed, Tasks
  <2>2. /\ \A d \in Devices : d # t => (Writing(d)' <=> Writing(d))
        /\ Deleting' <=> Deleting
        /\ Reading' <=> Reading
    BY <1>1, <1>2, <2>1 DEF Writing, Deleting, Reading
  <2>3. Typed'
    BY <1>4, <2>1 DEF Current, Typed
  <2>4. Rowless' /\ RegisteredHaveRows'
    BY <1>1, <1>2, <2>1, <2>2 DEF Current, Rowless, RegisteredHaveRows
  <2>5. ReadIsRecent' /\ ListIsCurrent'
    BY <1>1, <1>2, <2>1, <2>2 DEF Current, ReadIsRecent, ListIsCurrent
  <2> QED
    BY <2>3, <2>4, <2>5 DEF Current
<1>6. CASE request[t] = "delete"
  <2>1. t = Push /\ table' = table \ {Head(stale)}
    BY <1>6 DEF Serve, Current, Typed, Tasks
  <2>2. /\ \A d \in Devices : Writing(d)' <=> Writing(d)
        /\ ~Deleting /\ Deleting' /\ ~Reading'
    BY <1>1, <1>2, <1>6, <2>1 DEF Writing, Deleting, Reading
  <2>3. Typed'
    BY <1>4, <2>1 DEF Current, Typed
  <2>4. \A d \in Devices : Writing(d) /\ request[d] = "insert" => Ahead(d, Push)'
    BY <1>2, <2>1 DEF Writing
  <2>5. Rowless' /\ RegisteredHaveRows'
    BY <1>1, <1>6, <2>1, <2>2, <2>4 DEF Current, Rowless, RegisteredHaveRows
  <2>6. ReadIsRecent' /\ ListIsCurrent'
    BY <1>1, <2>1, <2>2 DEF Current, ReadIsRecent, ListIsCurrent
  <2> QED
    BY <2>3, <2>5, <2>6 DEF Current
<1>7. CASE request[t] \in {"select", "fetch"}
  <2>1. t = Push /\ table' = table /\ (found' = table \/ (request[t] = "fetch" /\ found' = found))
    BY <1>7 DEF Serve, Current, Typed, Tasks
  <2>2. /\ \A d \in Devices : Writing(d)' <=> Writing(d)
        /\ ~Deleting /\ ~Deleting'
        /\ request[t] = "fetch" => Reading
    BY <1>1, <1>2, <1>7, <2>1 DEF Writing, Deleting, Reading
  <2>3. Typed'
    BY <1>4, <2>1 DEF Current, Typed
  <2>4. Rowless' /\ RegisteredHaveRows'
    BY <1>1, <2>1, <2>2 DEF Current, Rowless, RegisteredHaveRows
  <2>5. ListIsCurrent'
    BY <1>1, <2>1, <2>2 DEF Current, ListIsCurrent
  <2>6. CASE found' = table
    <3>1. \A d \in Devices \ table : d \notin registered /\ ~Writing(d)
      BY <2>2 DEF Current, Rowless, RegisteredHaveRows
    <3>2. \A d \in Devices \ table : request[d] = "insert" => Ahead(Push, d)'
      BY <1>2, <1>3, <2>1, <3>1 DEF Writing
    <3>3. ReadIsRecent'
      BY <1>1, <2>1, <2>6, <3>1, <3>2 DEF ReadIsRecent, Writing
    <3> QED
      BY <2>3, <2>4, <2>5, <3>3 DEF Current
  <2>7. CASE request[t] = "fetch" /\ found' = found
    <3>1. ReadIsRecent'
      BY <1>1, <1>2, <2>1, <2>2, <2>7 DEF Current, ReadIsRecent
    <3> QED
      BY <2>3, <2>4, <2>5, <3>1 DEF Current
  <2> QED
    BY <2>1, <2>6, <2>7
<1>8. CASE request[t] = "commit"
  <2>1. table' = table /\ found' = found
    BY <1>8 DEF Serve
  <2>2. /\ \A d \in Devices : Writing(d)' <=> Writing(d)
        /\ Deleting' <=> Deleting
        /\ Reading' <=> Reading
    BY <1>1, <1>2, <1>8 DEF Writing, Deleting, Reading
  <2>3. Typed'
    BY <1>4, <2>1 DEF Current, Typed
  <2>4. Rowless' /\ RegisteredHaveRows'
    BY <1>1, <1>2, <2>1, <2>2 DEF Current, Rowless, RegisteredHaveRows
  <2>5. ReadIsRecent' /\ ListIsCurrent'
    BY <1>1, <1>2, <2>1, <2>2 DEF Current, ReadIsRecent, ListIsCurrent
  <2> QED
    BY <2>3, <2>4, <2>5 DEF Current
<1> QED
  BY <1>3, <1>5, <1>6, <1>7, <1>8 DEF Current, Typed, Whats

LEMMA PushFetchesCurrent == Current /\ PushFetches => Current'
<1> SUFFICES ASSUME Current, PushFetches PROVE Current'
  OBVIOUS
<1> USE PushIsNoDevice DEF pastVars, listVars
<1>1. /\ request' = [request EXCEPT ![Push] = "fetch"] /\ line' = Append(Tail(line), Push)
      /\ served' = served - 1 /\ served > 0 /\ Head(line) = Push /\ request[Push] = "select"
      /\ UNCHANGED <<table, cache, found, pc, stale, registered>>
  BY DEF PushFetches, Answered, AsksNext
<1>2. /\ Lined' /\ WasServed(Push) /\ Waits(Push)
      /\ \A x : Waits(x)' <=> Waits(x)
      /\ \A x : WasServed(x)' <=> WasServed(x) /\ x # Push
  BY <1>1, Rotated DEF Current, Typed
<1>3. request'[Push] = "fetch" /\ \A d \in Devices : request'[d] = request[d]
  BY <1>1 DEF Current, Typed
<1>4. Typed'
  BY <1>1, <1>2, <1>3 DEF Current, Typed, Whats, Tasks
<1>5. /\ \A d \in Devices : Writing(d)' <=> Writing(d)
      /\ ~Deleting /\ ~Deleting' /\ Reading /\ Reading'
  BY <1>1, <1>2, <1>3 DEF Writing, Deleting, Reading
<1>6. Rowless' /\ RegisteredHaveRows' /\ ListIsCurrent'
  BY <1>1, <1>5 DEF Current, Rowless, RegisteredHaveRows, ListIsCurrent
<1>7. ReadIsRecent'
  BY <1>1, <1>3, <1>5 DEF Current, ReadIsRecent
<1> QED
  BY <1>4, <1>6, <1>7 DEF Current

LEMMA PushHasRowsCurrent == Current /\ PushHasRows => Current'
<1> SUFFICES ASSUME Current, PushHasRows PROVE Current'
  OBVIOUS
<1> USE PushIsNoDevice DEF pastVars, listVars
<1>1. PICK list \in Listings(IF kind = "alert" THEN found \cap Owners ELSE found) :
        /\ cache' = IF kind = "signal" THEN list ELSE cache
        /\ pc' \in {"idle", "send"}
  BY DEF PushHasRows, FirstBatch
<1>2. /\ request' = [request EXCEPT ![Push] = "none"] /\ line' = Tail(line)
      /\ served' = served - 1 /\ served > 0 /\ Head(line) = Push /\ request[Push] = "fetch"
      /\ UNCHANGED <<table, found, stale, registered>>
  BY DEF PushHasRows, Answered, Released
<1>3. /\ Lined'
      /\ \A x : Waits(x)' <=> Waits(x) /\ x # Push
      /\ \A x : WasServed(x)' <=> WasServed(x) /\ x # Push
  BY <1>2, Leaves DEF Current, Typed
<1>4. request'[Push] = "none" /\ \A d \in Devices : request'[d] = request[d]
  BY <1>2 DEF Current, Typed
<1>5. Typed'
  BY <1>1, <1>2, <1>3, <1>4 DEF Current, Typed, Whats, Tasks
<1>6. /\ \A d \in Devices : Writing(d)' <=> Writing(d)
      /\ ~Deleting /\ ~Deleting' /\ Reading /\ ~Reading'
  BY <1>2, <1>3, <1>4 DEF Writing, Deleting, Reading
<1>7. Rowless' /\ RegisteredHaveRows' /\ ReadIsRecent'
  BY <1>2, <1>6 DEF Current, Rowless, RegisteredHaveRows, ReadIsRecent
<1>8. found \subseteq table /\ registered \subseteq found
  BY <1>6 DEF Current, ReadIsRecent, Typed
<1>9. kind = "signal" => ToSet(list) = found
  BY <1>1 DEF Listings
<1>10. ListIsCurrent'
  <2>1. CASE kind = "signal"
    BY <1>1, <1>2, <1>8, <1>9, <2>1 DEF ListIsCurrent
  <2>2. CASE kind # "signal"
    BY <1>1, <1>2, <1>6, <2>2 DEF Current, ListIsCurrent
  <2> QED
    BY <2>1, <2>2
<1> QED
  BY <1>5, <1>7, <1>10 DEF Current

LEMMA PruneCommitsCurrent == Current /\ PruneCommits => Current'
<1> SUFFICES ASSUME Current, PruneCommits PROVE Current'
  OBVIOUS
<1> USE PushIsNoDevice DEF pastVars, listVars
<1>1. /\ request' = [request EXCEPT ![Push] = "commit"] /\ line' = Append(Tail(line), Push)
      /\ served' = served - 1 /\ served > 0 /\ Head(line) = Push /\ request[Push] = "delete"
      /\ UNCHANGED <<table, cache, found, pc, stale, registered>>
  BY DEF PruneCommits, Answered, AsksNext
<1>2. /\ Lined' /\ WasServed(Push) /\ Waits(Push)
      /\ \A x : Waits(x)' <=> Waits(x)
      /\ \A x : WasServed(x)' <=> WasServed(x) /\ x # Push
      /\ \A x : Waits(x) /\ x # Push => Ahead(x, Push)'
      /\ \A x : ~Ahead(x, Push)
  BY <1>1, Rotated DEF Current, Typed
<1>3. request'[Push] = "commit" /\ \A d \in Devices : request'[d] = request[d]
  BY <1>1 DEF Current, Typed
<1>4. Typed'
  BY <1>1, <1>2, <1>3 DEF Current, Typed, Whats, Tasks
<1>5. /\ \A d \in Devices : Writing(d)' <=> Writing(d)
      /\ Deleting /\ Deleting' /\ ~Reading'
  BY <1>1, <1>2, <1>3 DEF Writing, Deleting, Reading
<1>6. \A d \in Devices : Writing(d) => Waits(d) /\ request[d] \in {"insert", "commit"}
  BY DEF Writing, Current, Typed
<1>7. Rowless'
  BY <1>1, <1>2, <1>3, <1>5, <1>6 DEF Current, Rowless
<1>8. RegisteredHaveRows' /\ ReadIsRecent' /\ ListIsCurrent'
  BY <1>1, <1>5 DEF Current, RegisteredHaveRows, ReadIsRecent, ListIsCurrent
<1> QED
  BY <1>4, <1>7, <1>8 DEF Current

LEMMA PruneReturnsCurrent == Current /\ PruneReturns => Current'
<1> SUFFICES ASSUME Current, PruneReturns PROVE Current'
  OBVIOUS
<1> USE PushIsNoDevice DEF pastVars, listVars
<1>1. /\ request' = [request EXCEPT ![Push] = "none"] /\ line' = Tail(line)
      /\ served' = served - 1 /\ served > 0 /\ Head(line) = Push /\ request[Push] = "commit"
      /\ UNCHANGED <<table, found, pc>>
      /\ cache' = <<>> /\ registered' = registered \ {Head(stale)}
  BY DEF PruneReturns, Answered, Released, ClearCache
<1>2. /\ Lined'
      /\ \A x : Waits(x)' <=> Waits(x) /\ x # Push
      /\ \A x : WasServed(x)' <=> WasServed(x) /\ x # Push
      /\ \A x : ~Ahead(x, Push)
  BY <1>1, Leaves DEF Current, Typed
<1>3. request'[Push] = "none" /\ \A d \in Devices : request'[d] = request[d]
  BY <1>1 DEF Current, Typed
<1>4. Typed'
  BY <1>1, <1>2, <1>3 DEF Current, Typed, Whats, Tasks
<1>5. /\ \A d \in Devices : Writing(d)' <=> Writing(d)
      /\ Deleting /\ ~Reading'
  BY <1>1, <1>2, <1>3 DEF Writing, Deleting, Reading
<1>6. \A d \in Devices \ table : ~Writing(d)
  BY <1>1, <1>2 DEF Current, Rowless
<1>7. Rowless' /\ RegisteredHaveRows' /\ ReadIsRecent' /\ ListIsCurrent'
  BY <1>1, <1>5, <1>6 DEF Current, Rowless, RegisteredHaveRows, ReadIsRecent, ListIsCurrent
<1> QED
  BY <1>4, <1>7 DEF Current

(***************************************************************************)
(* The theorem.                                                            *)
(***************************************************************************)
LEMMA InitCurrent == Init => Current
<1> SUFFICES ASSUME Init PROVE Current
  OBVIOUS
<1> USE PushIsNoDevice
<1>1. \A x : ~Waits(x) /\ ~WasServed(x)
  BY DEF Init, Waits, WasServed
<1>2. Typed
  BY <1>1 DEF Init, Typed, Lined, Whats
<1>3. Rowless /\ RegisteredHaveRows /\ ReadIsRecent /\ ListIsCurrent
  BY <1>1 DEF Init, Rowless, RegisteredHaveRows, ReadIsRecent, ListIsCurrent, Writing, Reading
<1> QED
  BY <1>2, <1>3 DEF Current

LEMMA StepCurrent == Current /\ [Next]_vars => Current'
<1> SUFFICES ASSUME Current, [Next]_vars PROVE Current'
  OBVIOUS
<1> USE DEF pastVars, listVars, dbVars
<1>1. CASE RegisterStep
  BY <1>1, RegisterCurrent, RegisterCommitsCurrent, RegisterReturnsCurrent DEF RegisterStep
<1>2. CASE PushFromCache
  <2>1. request[Push] = "none"
    BY <1>2, PushIsNoDevice DEF PushFromCache, Begin, Current, Typed, Whats
  <2> QED
    BY <1>2, <2>1, Unmoved DEF PushFromCache, Begin, FirstBatch
<1>3. ASSUME NEW what \in {"signal", "alert"}, PushQueries(what) PROVE Current'
  <2>1. request[Push] = "none"
    BY <1>3, PushIsNoDevice DEF PushQueries, Begin, Current, Typed, Whats
  <2> QED
    BY <1>3, <2>1, PushAsks DEF PushQueries, Begin
<1>4. CASE PushFetches
  BY <1>4, PushFetchesCurrent
<1>5. CASE PushHasRows
  BY <1>5, PushHasRowsCurrent
<1>6. CASE BatchReturns
  <2>1. request[Push] = "none"
    BY <1>6, PushIsNoDevice DEF BatchReturns, Current, Typed, Whats
  <2> QED
    BY <1>6, <2>1, Unmoved DEF BatchReturns
<1>7. CASE PruneDeletes
  BY <1>7, PushAsks DEF PruneDeletes
<1>8. CASE PruneCommits
  BY <1>8, PruneCommitsCurrent
<1>9. CASE PruneReturns
  BY <1>9, PruneReturnsCurrent
<1>10. CASE PushReturns
  BY <1>10, Unmoved DEF PushReturns
<1>11. CASE Quiet \/ UNCHANGED vars
  BY <1>11, Unmoved DEF Quiet, vars, Current, Typed
<1>12. ASSUME NEW t \in Tasks, Serve(t) PROVE Current'
  BY <1>12, ServeCurrent
<1>13. ASSUME NEW d \in Devices, Expire(d) PROVE Current'
  BY <1>13, Unmoved DEF Expire, Current, Typed
<1> QED
  BY <1>1, <1>2, <1>3, <1>4, <1>5, <1>6, <1>7, <1>8, <1>9, <1>10, <1>11, <1>12, <1>13
     DEF Next, PushStep

\* The list in memory has every registered device and no removed one, whatever
\* the order in which registrations, removals and pushes ask the database and
\* resume (fcm_dispatcher.py: register_token, remove_token, _get_all_tokens).
THEOREM ListAlwaysCurrent == Spec => []CacheIsCurrent
<1>1. Current => CacheIsCurrent
  BY DEF Current, ListIsCurrent, CacheIsCurrent, Deleting
<1> QED
  BY <1>1, InitCurrent, StepCurrent, PTL DEF Spec

(***************************************************************************)
(* What a push has tried.                                                  *)
(***************************************************************************)
Left == {WalkedList[i] : i \in (sent + BatchSize + 1)..total}

Shapes ==
  /\ cache \in Seq(Devices) /\ tokens \in Seq(Devices)
  /\ total \in Nat /\ sent \in Nat
  /\ kind \in {"signal", "alert"}
AskedFor ==
  pc = "query" =>
    /\ owed \subseteq registered /\ (kind = "alert" => owed \subseteq Owners)
    /\ tried = {} /\ ~shared
OnItsWay ==
  pc = "send" /\ ~torn =>
    /\ sent + BatchSize < total => Len(WalkedList) = total
    /\ owed \subseteq tried \cup ToSet(chunk) \cup Left

Accounted == Shapes /\ AskedFor /\ OnItsWay /\ EveryDeviceTried

\* A batch and what comes after it are what came after the one before.
LEMMA BatchTakes ==
  ASSUME NEW S, NEW list \in Seq(S), NEW i \in Nat, i <= Len(list)
  PROVE  ToSet(Batch(list, i)) = {list[j] : j \in (i + 1)..(IF i + BatchSize < Len(list) THEN i + BatchSize ELSE Len(list))}
<1> DEFINE n == IF i + BatchSize < Len(list) THEN i + BatchSize ELSE Len(list)
<1>1. n \in Nat /\ i <= n /\ n <= Len(list)
  BY DispatcherAssumption
<1>2. /\ Batch(list, i) = [k \in 1..(n - i) |-> list[i + k]]
      /\ DOMAIN Batch(list, i) = 1..(n - i)
  BY <1>1 DEF Batch
<1>3. \A k \in 1..(n - i) : i + k \in (i + 1)..n
  BY <1>1
<1>4. \A j \in (i + 1)..n : j - i \in 1..(n - i) /\ i + (j - i) = j
  BY <1>1
<1>5. ToSet(Batch(list, i)) = {list[i + k] : k \in 1..(n - i)}
  <2> HIDE DEF n
  <2> DEFINE b == Batch(list, i)
  <2>1. /\ DOMAIN b = 1..(n - i)
        /\ \A k \in 1..(n - i) : b[k] = list[i + k]
    BY <1>2
  <2>2. ToSet(b) = {b[k] : k \in DOMAIN b}
    BY DEF ToSet
  <2> HIDE DEF b
  <2>3. {b[k] : k \in DOMAIN b} = {list[i + k] : k \in 1..(n - i)}
    BY <2>1
  <2> QED
    BY <2>2, <2>3 DEF b
<1>6. {list[i + k] : k \in 1..(n - i)} = {list[j] : j \in (i + 1)..n}
  <2> HIDE DEF n
  <2>1. ASSUME NEW x \in {list[i + k] : k \in 1..(n - i)}
        PROVE  x \in {list[j] : j \in (i + 1)..n}
    BY <1>3
  <2>2. ASSUME NEW x \in {list[j] : j \in (i + 1)..n}
        PROVE  x \in {list[i + k] : k \in 1..(n - i)}
    <3>1. PICK j \in (i + 1)..n : x = list[j]
      OBVIOUS
    <3>2. j - i \in 1..(n - i) /\ x = list[i + (j - i)]
      BY <1>4, <3>1
    <3> QED
      BY <3>2
  <2> QED
    BY <2>1, <2>2
<1> QED
  BY <1>5, <1>6

LEMMA BatchAndRest ==
  ASSUME NEW S, NEW list \in Seq(S), NEW i \in Nat, i <= Len(list),
         NEW j \in (i + 1)..Len(list)
  PROVE  list[j] \in ToSet(Batch(list, i)) \/ j \in (i + BatchSize + 1)..Len(list)
<1>1. BatchSize \in Nat
  BY DispatcherAssumption
<1>2. CASE i + BatchSize < Len(list)
  BY <1>1, <1>2, BatchTakes
<1>3. CASE ~(i + BatchSize < Len(list))
  BY <1>1, <1>3, BatchTakes
<1> QED
  BY <1>2, <1>3

\* The first batch of a list that has all the devices of a push.
LEMMA FirstBatchAccounts ==
  ASSUME NEW list \in Seq(Devices), owed' \subseteq ToSet(list), FirstBatch(list),
         WalkedList' = list, tried' = {}
  PROVE  OnItsWay' /\ EveryDeviceTried' /\ total' \in Nat /\ sent' \in Nat
<1>1. BatchSize \in Nat \ {0} /\ Len(list) \in Nat
  BY DispatcherAssumption
<1>2. total' = Len(list) /\ sent' = 0 /\ pc' = "send" /\ chunk' = Batch(list, 0)
  BY DEF FirstBatch
<1>3. ASSUME NEW d \in owed' PROVE d \in (ToSet(chunk) \cup Left)'
  <2>1. PICK j \in 1..Len(list) : d = list[j]
    BY DEF ToSet
  <2>2. list[j] \in ToSet(Batch(list, 0)) \/ j \in (0 + BatchSize + 1)..Len(list)
    BY <1>1, BatchAndRest
  <2> QED
    BY <1>1, <1>2, <2>1, <2>2 DEF Left
<1> QED
  BY <1>1, <1>2, <1>3 DEF OnItsWay, EveryDeviceTried

\* A step that leaves the push where it is, and the list too or empties it.
LEMMA PushUnmoved ==
  ASSUME Accounted, UNCHANGED <<pc, kind, shared, tokens, total, sent, chunk, owed, tried>>,
         registered \subseteq registered' \/ pc # "query",
         ClearCache \/ (cache' = cache /\ torn' = torn)
  PROVE  Accounted'
<1>1. Shapes'
  <2>1. cache' = cache \/ cache' = <<>>
    BY DEF ClearCache
  <2>2. cache \in Seq(Devices) /\ <<>> \in Seq(Devices)
    BY DEF Accounted, Shapes
  <2>3. cache' \in Seq(Devices)
    BY <2>1, <2>2
  <2> QED
    BY <2>3 DEF Accounted, Shapes
<1>2. AskedFor' /\ EveryDeviceTried'
  BY DEF Accounted, AskedFor, EveryDeviceTried, ClearCache
<1>3. OnItsWay'
  <2>1. CASE cache' = cache /\ torn' = torn
    BY <2>1 DEF Accounted, OnItsWay, Left, WalkedList
  <2>2. CASE ClearCache /\ pc = "send" /\ ~torn'
    <3>1. ~torn /\ (shared => ~(sent + BatchSize < total))
      BY <2>2 DEF ClearCache
    <3>2. CASE shared
      <4>1. Left = {}
        BY <3>1, <3>2, DispatcherAssumption DEF Left, Accounted, Shapes
      <4> QED
        BY <2>2, <3>1, <3>2, <4>1 DEF Accounted, OnItsWay
    <3>3. CASE ~shared
      BY <2>2, <3>1, <3>3 DEF Accounted, OnItsWay, Left, WalkedList
    <3> QED
      BY <3>2, <3>3
  <2>3. CASE pc # "send" \/ torn'
    BY <2>3 DEF OnItsWay
  <2> QED
    BY <2>1, <2>2, <2>3
<1> QED
  BY <1>1, <1>2, <1>3 DEF Accounted

LEMMA BatchAccounted == Accounted /\ BatchReturns => Accounted'
<1> SUFFICES ASSUME Accounted, BatchReturns PROVE Accounted'
  OBVIOUS
<1>1. /\ pc = "send" /\ tried' = tried \cup ToSet(chunk) /\ sent' = sent + BatchSize
      /\ UNCHANGED <<cache, kind, shared, tokens, total, registered, owed, torn>>
  BY DEF BatchReturns
<1>2. WalkedList' = WalkedList /\ WalkedList \in Seq(Devices)
  BY <1>1 DEF WalkedList, Accounted, Shapes
<1>3. sent' \in Nat /\ total \in Nat /\ BatchSize \in Nat \ {0}
  BY <1>1, DispatcherAssumption DEF Accounted, Shapes
<1>4. Shapes'
  BY <1>1, <1>3 DEF Accounted, Shapes
<1>5. CASE sent' < total
  <2>1. pc' = "send" /\ chunk' = Batch(WalkedList, sent')
    BY <1>1, <1>5 DEF BatchReturns
  <2>2. ASSUME ~torn' PROVE Len(WalkedList) = total /\ owed \subseteq tried' \cup Left
    BY <1>1, <1>5, <2>2 DEF Accounted, OnItsWay
  <2>3. ASSUME ~torn', NEW d \in Left PROVE d \in (ToSet(chunk) \cup Left)'
    <3>1. PICK j \in (sent' + 1)..total : d = WalkedList[j]
      BY <1>1 DEF Left
    <3>2. Len(WalkedList) = total /\ sent' <= Len(WalkedList)
      BY <1>3, <1>5, <2>2, <2>3
    <3>4. WalkedList[j] \in ToSet(Batch(WalkedList, sent'))
          \/ j \in (sent' + BatchSize + 1)..total
      BY <1>2, <1>3, <3>2, BatchAndRest
    <3>3. CASE j \in (sent' + BatchSize + 1)..total
      <4>1. Left' = {WalkedList[i] : i \in (sent' + BatchSize + 1)..total}
        BY <1>1, <1>2 DEF Left
      <4> QED
        BY <3>1, <3>3, <4>1
    <3> QED
      BY <2>1, <3>1, <3>3, <3>4
  <2>4. OnItsWay'
    BY <1>1, <1>2, <2>2, <2>3 DEF OnItsWay
  <2> QED
    BY <1>4, <2>1, <2>4 DEF Accounted, AskedFor, EveryDeviceTried
<1>6. CASE ~(sent' < total)
  <2>1. pc' = "prune" /\ Left = {}
    BY <1>1, <1>3, <1>6 DEF BatchReturns, Left
  <2>2. EveryDeviceTried'
    BY <1>1, <2>1 DEF EveryDeviceTried, Accounted, OnItsWay
  <2> QED
    BY <1>4, <2>1, <2>2 DEF Accounted, AskedFor, OnItsWay
<1> QED
  BY <1>5, <1>6

LEMMA FromCacheAccounted == Current /\ Accounted /\ PushFromCache => Accounted'
<1> SUFFICES ASSUME Current, Accounted, PushFromCache PROVE Accounted'
  OBVIOUS
<1>1. /\ owed' \subseteq registered /\ tried' = {} /\ kind' = "signal" /\ cache' = cache
      /\ tokens' = <<>> /\ cache # <<>> /\ FirstBatch(cache) /\ shared' = TRUE
  BY DispatcherAssumption DEF PushFromCache, Begin
<1>2. owed' \subseteq ToSet(cache) /\ cache \in Seq(Devices)
  BY <1>1 DEF Current, ListIsCurrent, Accounted, Shapes
<1>3. WalkedList' = cache
  BY <1>1 DEF WalkedList
<1>4. OnItsWay' /\ EveryDeviceTried' /\ total' \in Nat /\ sent' \in Nat
  BY <1>1, <1>2, <1>3, FirstBatchAccounts
<1>5. Shapes' /\ AskedFor'
  BY <1>1, <1>2, <1>4 DEF Shapes, AskedFor, FirstBatch
<1> QED
  BY <1>4, <1>5 DEF Accounted

LEMMA HasRowsAccounted == Current /\ Accounted /\ PushHasRows => Accounted'
<1> SUFFICES ASSUME Current, Accounted, PushHasRows PROVE Accounted'
  OBVIOUS
<1> DEFINE rows == IF kind = "alert" THEN found \cap Owners ELSE found
<1>1. /\ request[Push] = "fetch" /\ served > 0
      /\ UNCHANGED <<kind, shared, owed, tried, torn, registered>>
  BY DEF PushHasRows, Answered, pastVars
<1>2. PICK list \in Listings(rows) :
        /\ tokens' = list
        /\ cache' = IF kind = "signal" THEN list ELSE cache
        /\ IF list = <<>> THEN pc' = "idle" /\ UNCHANGED <<total, sent, chunk>>
           ELSE FirstBatch(list)
  BY DEF PushHasRows
<1>3. rows \subseteq Devices /\ owed \subseteq rows
  <2>1. Reading /\ pc = "query"
    BY <1>1 DEF Reading, Current, Typed
  <2>2. found \subseteq Devices /\ registered \subseteq found
    BY <2>1 DEF Current, ReadIsRecent, Typed
  <2> QED
    BY <2>1, <2>2 DEF Accounted, AskedFor
<1>4. list \in Seq(Devices) /\ ToSet(list) = rows
  <2> HIDE DEF rows
  <2>1. Cardinality(rows) \in Nat
    BY <1>3, DispatcherAssumption, FS_Subset, FS_CardinalityType
  <2>2. list \in Seq(rows)
    BY <1>2, <2>1 DEF Listings
  <2> QED
    BY <1>2, <1>3, <2>2 DEF Listings
<1>5. kind \in {"signal", "alert"} /\ cache' \in Seq(Devices) /\ tokens' \in Seq(Devices)
  BY <1>2, <1>4 DEF Accounted, Shapes
<1>6. CASE list = <<>>
  <2>1. owed = {}
    BY <1>3, <1>4, <1>6 DEF ToSet
  <2> QED
    BY <1>1, <1>2, <1>5, <1>6, <2>1
       DEF Accounted, Shapes, AskedFor, OnItsWay, EveryDeviceTried
<1>7. CASE list # <<>>
  <2>1. FirstBatch(list) /\ pc' = "send"
    BY <1>2, <1>7 DEF FirstBatch
  <2>2. ~shared /\ tried = {}
    BY <1>1 DEF Accounted, AskedFor, Current, Typed
  <2>3. WalkedList' = list
    BY <1>1, <1>2, <2>2 DEF WalkedList
  <2>4. OnItsWay' /\ EveryDeviceTried' /\ total' \in Nat /\ sent' \in Nat
    BY <1>1, <1>3, <1>4, <2>1, <2>2, <2>3, FirstBatchAccounts
  <2>5. Shapes' /\ AskedFor'
    BY <1>1, <1>5, <2>1, <2>4 DEF Shapes, AskedFor
  <2> QED
    BY <2>4, <2>5 DEF Accounted
<1> QED
  BY <1>6, <1>7

LEMMA StepAccounted == Current /\ Accounted /\ [Next]_vars => Accounted'
<1> SUFFICES ASSUME Current, Accounted, [Next]_vars PROVE Accounted'
  OBVIOUS
<1> USE DEF pastVars, listVars, dbVars
<1>1. CASE RegisterStep
  <2>1. ASSUME NEW d \in Devices, Register(d) \/ RegisterCommits(d) PROVE Accounted'
    BY <2>1, PushUnmoved DEF Register, RegisterCommits
  <2>2. ASSUME NEW d \in Devices, RegisterReturns(d) PROVE Accounted'
    BY <2>2, PushUnmoved DEF RegisterReturns
  <2> QED
    BY <1>1, <2>1, <2>2 DEF RegisterStep
<1>2. CASE PushFromCache
  BY <1>2, FromCacheAccounted
<1>3. ASSUME NEW what \in {"signal", "alert"}, PushQueries(what) PROVE Accounted'
  BY <1>3, DispatcherAssumption
     DEF PushQueries, Begin, Accounted, Shapes, AskedFor, OnItsWay, EveryDeviceTried
<1>4. CASE PushFetches \/ PruneDeletes \/ PruneCommits
  BY <1>4, PushUnmoved DEF PushFetches, PruneDeletes, PruneCommits
<1>5. CASE PushHasRows
  BY <1>5, HasRowsAccounted
<1>6. CASE BatchReturns
  BY <1>6, BatchAccounted
<1>7. CASE PruneReturns
  <2>1. pc # "query"
    BY <1>7 DEF PruneReturns, Answered, Current, Typed
  <2> QED
    BY <1>7, <2>1, PushUnmoved DEF PruneReturns
<1>8. CASE PushReturns
  BY <1>8 DEF PushReturns, Accounted, Shapes, AskedFor, OnItsWay, EveryDeviceTried
<1>9. CASE Quiet \/ UNCHANGED vars
  BY <1>9, PushUnmoved DEF Quiet, vars
<1>10. ASSUME NEW t \in Tasks, Serve(t) PROVE Accounted'
  BY <1>10, PushUnmoved DEF Serve
<1>11. ASSUME NEW d \in Devices, Expire(d) PROVE Accounted'
  BY <1>11, PushUnmoved DEF Expire
<1> QED
  BY <1>1, <1>2, <1>3, <1>4, <1>5, <1>6, <1>7, <1>8, <1>9, <1>10, <1>11 DEF Next, PushStep

\* A push puts every device registered when it began into a batch, the one at
\* the border of two batches too, unless its list was emptied under it
\* (fcm_dispatcher.py: dispatch, dispatch_owner_alert, _send_batch).
THEOREM EveryDeviceAlwaysTried == Spec => []EveryDeviceTried
<1>1. Init => Accounted
  BY DEF Init, Accounted, Shapes, AskedFor, OnItsWay, EveryDeviceTried
<1>2. Accounted => EveryDeviceTried
  BY DEF Accounted
<1> QED
  BY <1>1, <1>2, InitCurrent, StepCurrent, StepAccounted, PTL DEF Spec
=============================================================================
