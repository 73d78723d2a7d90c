---------------------------- MODULE ProtocolProofs ----------------------------
(***************************************************************************)
(* Protocol for every choice of commands, any number of them and files of  *)
(* any size.  Four invariants carry the proofs beside the types: Entering  *)
(* is about the login, Talk about both streams as long as the client can   *)
(* read and write its own files and its input did not end at the password, *)
(* Duty about what one owes the other, and Turns about whose turn it is as *)
(* long as nothing was cut short or sent beyond its announced size.        *)
(***************************************************************************)
EXTENDS Protocol, SequenceTheorems, TLAPS

Size == 0..MaxSize
Identifying == {"register", "login"}
Spoken == AllCommands \cup Identifying \cup {"ping"}
Sentences == {"success", "refused", "norootdir", "listing", "rest", "failed", "path", "changed",
              "nopath", "done", "interrupted", "complete", "missing", "surplus"}

UpItem == [t : {"cmd", "name"}, v : Spoken, of : Nat]
          \cup [t : {"password"}, v : {"empty", "some"}, of : Nat]
          \cup [t : {"meta", "offset"}, v : Size, of : Nat]
          \cup [t : {"data"}, v : {1}, of : Nat]

DownItem == [t : {"text"}, v : Sentences, of : Nat]
            \cup [t : {"status"}, v : {"error", "seccomp", "go", "notfound", "ok"}, of : Nat]
            \cup [t : {"offset"}, v : Size, of : Nat]
            \cup [t : {"meta"}, v : 1..MaxSize, of : Nat]
            \cup [t : {"data"}, v : {1}, of : Nat]
            \cup [t : {"notice"}, v : {"notice"}, of : Nat]

ClientPlaces == ClientWaits \cup {"prompt", "select", "password", "puts", "gone", "lost"}
ServerPlaces == ServerWaits \cup {"run", "closed", "lost"}

Types ==
  /\ up \in Seq(UpItem) /\ down \in Seq(DownItem)
  /\ \A i \in DOMAIN up : up[i].of <= n
  /\ client \in [at : ClientPlaces, cmd : Spoken \cup {"none"}, size : Size, logged : BOOLEAN]
  /\ server \in [at : ServerPlaces, cmd : Spoken \cup {"none"}, of : Nat, size : Size,
                 logged : BOOLEAN]
  /\ server.of <= n
  /\ n \in 0..MaxCommands /\ open \in BOOLEAN /\ occurred \in SUBSET Fault
  /\ client.at = "data" => client.size > 0

-----------------------------------------------------------------------------
(* Streams.                                                                *)

LEMMA Appended ==
  ASSUME NEW S, NEW s \in Seq(S), NEW x \in S
  PROVE  /\ Append(s, x) \in Seq(S) /\ Append(s, x) # <<>>
         /\ Len(Append(s, x)) = Len(s) + 1 /\ DOMAIN Append(s, x) = 1..(Len(s) + 1)
         /\ \A i \in 1..Len(s) : Append(s, x)[i] = s[i]
         /\ Append(s, x)[Len(s) + 1] = x
  BY AppendProperties

LEMMA Behead ==
  ASSUME NEW S, NEW s \in Seq(S), s # <<>>
  PROVE  /\ Tail(s) \in Seq(S) /\ Len(Tail(s)) = Len(s) - 1 /\ Len(s) \in Nat \ {0}
         /\ Head(s) = s[1] /\ Head(s) \in S
         /\ DOMAIN Tail(s) = 1..(Len(s) - 1) /\ DOMAIN s = 1..Len(s)
         /\ \A i \in 1..(Len(s) - 1) : Tail(s)[i] = s[i + 1]
  OBVIOUS

LEMMA Joined ==
  ASSUME NEW S, NEW s \in Seq(S), NEW f \in Seq(S)
  PROVE  /\ s \o f \in Seq(S) /\ Len(s \o f) = Len(s) + Len(f)
         /\ DOMAIN (s \o f) = 1..(Len(s) + Len(f))
         /\ \A i \in 1..Len(s) : (s \o f)[i] = s[i]
         /\ \A i \in 1..Len(f) : (s \o f)[Len(s) + i] = f[i]
<1>1. s \o f \in Seq(S) /\ Len(s \o f) = Len(s) + Len(f) /\ Len(s) \in Nat /\ Len(f) \in Nat
  BY ConcatProperties
<1>2. \A i \in 1..Len(s) : (s \o f)[i] = s[i]
  BY ConcatProperties
<1>3. ASSUME NEW i \in 1..Len(f)  PROVE (s \o f)[Len(s) + i] = f[i]
  <2>1. Len(s) + i \in 1..(Len(s) + Len(f)) /\ ~ (Len(s) + i <= Len(s)) /\ (Len(s) + i) - Len(s) = i
    BY <1>1
  <2> QED  BY <2>1, ConcatProperties
<1> QED  BY <1>1, <1>2, <1>3

\* Blocks of a file; none if the number is not positive.
LEMMA Blocks ==
  ASSUME NEW S, NEW x \in S, NEW k \in Int
  PROVE  LET f == [i \in 1..k |-> x]
         IN f \in Seq(S) /\ Len(f) = (IF k > 0 THEN k ELSE 0) /\ \A i \in 1..Len(f) : f[i] = x
<1>1. PICK m \in Nat : m = IF k > 0 THEN k ELSE 0
  OBVIOUS
<1>2. 1..k = 1..m
  BY <1>1
<1>3. [i \in 1..k |-> x] = [i \in 1..m |-> x]
  BY <1>2
<1>4. [i \in 1..m |-> x] \in Seq(S) /\ Len([i \in 1..m |-> x]) = m
  OBVIOUS
<1> QED  BY <1>1, <1>2, <1>3, <1>4

\* What the worker sends, as far as the descriptor is open.
Sends(items) == [i \in 1..Len(items) |-> Item(items[i][1], items[i][2], server.of)]

LEMMA AnswersAll ==
  ASSUME Types, NEW items, NEW m \in Nat, Len(items) = m,
         \A i \in 1..m : Item(items[i][1], items[i][2], server.of) \in DownItem,
         Answers(items)
  PROVE  /\ down' \in Seq(DownItem)
         /\ ~ open => down' = down
         /\ open => /\ Len(down') = Len(down) + m /\ DOMAIN down' = 1..(Len(down) + m)
                    /\ \A i \in 1..Len(down) : down'[i] = down[i]
                    /\ \A i \in 1..m : down'[Len(down) + i] =
                                        Item(items[i][1], items[i][2], server.of)
<1>1. Sends(items) = [i \in 1..m |-> Item(items[i][1], items[i][2], server.of)]
  BY DEF Sends
<1>2. /\ Sends(items) \in Seq(DownItem) /\ Len(Sends(items)) = m
      /\ \A i \in 1..m : Sends(items)[i] = Item(items[i][1], items[i][2], server.of)
  <2> HIDE DEF Item
  <2> QED  BY <1>1
<1>3. down' = IF open THEN down \o Sends(items) ELSE down
  BY DEF Answers, Sends
<1>4. down \in Seq(DownItem)
  BY DEF Types
<1> QED  BY <1>2, <1>3, <1>4, Joined

Adds(k) == /\ down' \in Seq(DownItem)
           /\ ~ open => down' = down
           /\ open => /\ Len(down') = Len(down) + k /\ DOMAIN down' = 1..(Len(down) + k)
                      /\ \A i \in 1..Len(down) : down'[i] = down[i]

LEMMA AnswersOne ==
  ASSUME Types, NEW t, NEW v, Item(t, v, server.of) \in DownItem, Answers(<<<<t, v>>>>)
  PROVE  Adds(1) /\ (open => down'[Len(down) + 1] = Item(t, v, server.of))
<1> DEFINE items == <<<<t, v>>>>
<1>1. Len(items) = 1 /\ items[1][1] = t /\ items[1][2] = v
  OBVIOUS
<1> HIDE DEF items
<1>2. \A i \in 1..1 : Item(items[i][1], items[i][2], server.of) \in DownItem
  BY <1>1
<1>3. Answers(items)
  BY DEF items
<1>4. Adds(1) /\ (open => \A i \in 1..1 : down'[Len(down) + i] =
                                            Item(items[i][1], items[i][2], server.of))
  <2> HIDE DEF Item
  <2> QED  BY <1>1, <1>2, <1>3, AnswersAll DEF Adds
<1> QED  BY <1>1, <1>4

LEMMA AnswersTwo ==
  ASSUME Types, NEW t, NEW v, NEW t2, NEW v2, Item(t, v, server.of) \in DownItem,
         Item(t2, v2, server.of) \in DownItem, Answers(<<<<t, v>>, <<t2, v2>>>>)
  PROVE  Adds(2) /\ (open => /\ down'[Len(down) + 1] = Item(t, v, server.of)
                            /\ down'[Len(down) + 2] = Item(t2, v2, server.of))
<1> DEFINE items == <<<<t, v>>, <<t2, v2>>>>
<1>1. Len(items) = 2 /\ items[1][1] = t /\ items[1][2] = v /\ items[2][1] = t2 /\ items[2][2] = v2
  OBVIOUS
<1> HIDE DEF items
<1>2. \A i \in 1..2 : Item(items[i][1], items[i][2], server.of) \in DownItem
  BY <1>1
<1>3. Answers(items)
  BY DEF items
<1>4. Adds(2) /\ (open => \A i \in 1..2 : down'[Len(down) + i] =
                                            Item(items[i][1], items[i][2], server.of))
  <2> HIDE DEF Item
  <2> QED  BY <1>1, <1>2, <1>3, AnswersAll DEF Adds
<1> QED  BY <1>1, <1>4

LEMMA AnswersThree ==
  ASSUME Types, NEW t, NEW v, NEW t2, NEW v2, NEW t3, NEW v3, Item(t, v, server.of) \in DownItem,
         Item(t2, v2, server.of) \in DownItem, Item(t3, v3, server.of) \in DownItem,
         Answers(<<<<t, v>>, <<t2, v2>>, <<t3, v3>>>>)
  PROVE  Adds(3) /\ (open => /\ down'[Len(down) + 1] = Item(t, v, server.of)
                            /\ down'[Len(down) + 2] = Item(t2, v2, server.of)
                            /\ down'[Len(down) + 3] = Item(t3, v3, server.of))
<1> DEFINE items == <<<<t, v>>, <<t2, v2>>, <<t3, v3>>>>
<1>1. /\ Len(items) = 3 /\ items[1][1] = t /\ items[1][2] = v /\ items[2][1] = t2
      /\ items[2][2] = v2 /\ items[3][1] = t3 /\ items[3][2] = v3
  OBVIOUS
<1> HIDE DEF items
<1>2. \A i \in 1..3 : Item(items[i][1], items[i][2], server.of) \in DownItem
  BY <1>1
<1>3. Answers(items)
  BY DEF items
<1>4. Adds(3) /\ (open => \A i \in 1..3 : down'[Len(down) + i] =
                                            Item(items[i][1], items[i][2], server.of))
  <2> HIDE DEF Item
  <2> QED  BY <1>1, <1>2, <1>3, AnswersAll DEF Adds
<1> QED  BY <1>1, <1>4

LEMMA AnswersBlocks ==
  ASSUME Types, NEW k \in Nat, Answers([i \in 1..k |-> <<"data", 1>>])
  PROVE  Adds(k) /\ (open => \A i \in 1..k : down'[Len(down) + i] = Item("data", 1, server.of))
<1> DEFINE items == [i \in 1..k |-> <<"data", 1>>]
<1>1. Len(items) = k /\ \A i \in 1..k : items[i][1] = "data" /\ items[i][2] = 1
  OBVIOUS
<1> HIDE DEF items
<1>2. Item("data", 1, server.of) \in DownItem
  BY DEF Item, DownItem, Types
<1>3. \A i \in 1..k : Item(items[i][1], items[i][2], server.of) \in DownItem
  BY <1>1, <1>2
<1>4. Answers(items)
  BY DEF items
<1>5. Adds(k) /\ (open => \A i \in 1..k : down'[Len(down) + i] =
                                            Item(items[i][1], items[i][2], server.of))
  <2> HIDE DEF Item
  <2> QED  BY <1>1, <1>3, <1>4, AnswersAll DEF Adds
<1> QED  BY <1>1, <1>5

\* All the blocks, and what is beyond them.
Surplus(k) == [i \in 1..k |-> <<"data", 1>>] \o <<<<"text", "surplus">>>>

LEMMA AnswersSurplus ==
  ASSUME Types, NEW k \in Nat, Answers(Surplus(k))
  PROVE  /\ Adds(k + 1) /\ k + 1 \in Nat
         /\ open => /\ \A i \in 1..k : down'[Len(down) + i] = Item("data", 1, server.of)
                    /\ down'[Len(down) + k + 1] = Item("text", "surplus", server.of)
<1> DEFINE items == Surplus(k)
<1>1. /\ Len(items) = k + 1
      /\ \A i \in 1..k : items[i][1] = "data" /\ items[i][2] = 1
      /\ items[k + 1][1] = "text" /\ items[k + 1][2] = "surplus"
  BY DEF Surplus
<1> HIDE DEF items
<1>2. Item("data", 1, server.of) \in DownItem /\ Item("text", "surplus", server.of) \in DownItem
  BY DEF Item, DownItem, Types, Sentences
<1>3. \A i \in 1..(k + 1) : i \in 1..k \/ i = k + 1
  OBVIOUS
<1>4. \A i \in 1..(k + 1) : Item(items[i][1], items[i][2], server.of) \in DownItem
  <2> HIDE DEF Item
  <2> QED  BY <1>1, <1>2, <1>3
<1>5. Answers(items)
  BY DEF items
<1>6. Adds(k + 1) /\ (open => \A i \in 1..(k + 1) : down'[Len(down) + i] =
                                            Item(items[i][1], items[i][2], server.of))
  <2>1. PICK m \in Nat : m = k + 1
    OBVIOUS
  <2>2. Len(items) = m /\ \A i \in 1..m : Item(items[i][1], items[i][2], server.of) \in DownItem
    <3> HIDE DEF Item
    <3> QED  BY <1>1, <1>4, <2>1
  <2>3. Adds(m) /\ (open => \A i \in 1..m : down'[Len(down) + i] =
                                            Item(items[i][1], items[i][2], server.of))
    <3> HIDE DEF Item
    <3> QED  BY <1>5, <2>2, AnswersAll DEF Adds
  <2> HIDE DEF Item
  <2> QED  BY <2>1, <2>3
<1>7. /\ k + 1 \in 1..(k + 1) /\ \A i \in 1..k : i \in 1..(k + 1)
      /\ Len(down) \in Nat /\ Len(down) + (k + 1) = Len(down) + k + 1 /\ k + 1 \in Nat
  BY DEF Types
<1>8. /\ items[k + 1][1] = "text" /\ items[k + 1][2] = "surplus"
      /\ \A i \in 1..k : items[i][1] = "data" /\ items[i][2] = 1
  BY <1>1
<1>9. ASSUME open
      PROVE  /\ \A i \in 1..k : down'[Len(down) + i] = Item("data", 1, server.of)
             /\ down'[Len(down) + k + 1] = Item("text", "surplus", server.of)
  <2> HIDE DEF Item
  <2>1. \A i \in 1..(k + 1) : down'[Len(down) + i] = Item(items[i][1], items[i][2], server.of)
    BY <1>6, <1>9
  <2>2. down'[Len(down) + (k + 1)] = Item("text", "surplus", server.of)
    BY <1>7, <1>8, <2>1
  <2> QED  BY <1>7, <1>8, <2>1, <2>2
<1> HIDE DEF Item
<1> QED  BY <1>6, <1>7, <1>9

-----------------------------------------------------------------------------
(* Types.                                                                  *)

LEMMA HeadOfUp ==
  ASSUME Types, up # <<>>
  PROVE  /\ Head(up) = up[1] /\ up[1] \in UpItem /\ 1 \in DOMAIN up /\ up[1].of \in 0..n
         /\ up[1].t \in {"cmd", "name"} => up[1].v \in Spoken
         /\ up[1].t \in {"meta", "offset"} => up[1].v \in Size
         /\ Tail(up) \in Seq(UpItem)
         /\ \A i \in DOMAIN Tail(up) : Tail(up)[i].of <= n
<1>1. up \in Seq(UpItem) /\ \A i \in DOMAIN up : up[i].of <= n
  BY DEF Types
<1>2. up[1] \in UpItem /\ 1 \in DOMAIN up /\ Head(up) = up[1]
  BY <1>1
<1>3. /\ up[1].of \in Nat
      /\ up[1].t \in {"cmd", "name"} => up[1].v \in Spoken
      /\ up[1].t \in {"meta", "offset"} => up[1].v \in Size
  BY <1>2 DEF UpItem
<1>4. n \in Nat
  BY DEF Types
<1>5. /\ Tail(up) \in Seq(UpItem) /\ DOMAIN Tail(up) = 1..(Len(up) - 1) /\ DOMAIN up = 1..Len(up)
      /\ \A i \in 1..(Len(up) - 1) : Tail(up)[i] = up[i + 1]
  BY <1>1, Behead
<1>6. ASSUME NEW i \in DOMAIN Tail(up)  PROVE Tail(up)[i].of <= n
  <2>1. i + 1 \in DOMAIN up /\ Tail(up)[i] = up[i + 1]
    BY <1>1, <1>5
  <2> QED  BY <1>1, <2>1
<1> QED  BY <1>1, <1>2, <1>3, <1>4, <1>5, <1>6

LEMMA HeadOfDown ==
  ASSUME Types, down # <<>>
  PROVE  /\ Head(down) = down[1] /\ down[1] \in DownItem /\ 1 \in DOMAIN down
         /\ down[1].t = "offset" => down[1].v \in Size
         /\ down[1].t = "meta" => down[1].v \in 1..MaxSize
         /\ down[1].t = "status" => down[1].v \in {"error", "seccomp", "go", "notfound", "ok"}
         /\ Tail(down) \in Seq(DownItem)
<1>1. down \in Seq(DownItem)
  BY DEF Types
<1>2. down[1] \in DownItem /\ 1 \in DOMAIN down /\ Head(down) = down[1] /\ Tail(down) \in Seq(DownItem)
  BY <1>1
<1> QED  BY <1>2 DEF DownItem

\* One more item for the worker.
LEMMA UpAdds ==
  ASSUME NEW s \in Seq(UpItem), NEW m \in Nat, \A i \in DOMAIN s : s[i].of <= m,
         NEW x \in UpItem, x.of <= m
  PROVE  Append(s, x) \in Seq(UpItem) /\ \A i \in DOMAIN Append(s, x) : Append(s, x)[i].of <= m
<1>1. DOMAIN s = 1..Len(s) /\ Len(s) \in Nat
  OBVIOUS
<1>2. /\ Append(s, x) \in Seq(UpItem) /\ DOMAIN Append(s, x) = 1..(Len(s) + 1)
      /\ \A i \in 1..Len(s) : Append(s, x)[i] = s[i]
      /\ Append(s, x)[Len(s) + 1] = x
  BY Appended
<1> QED  BY <1>1, <1>2

\* A command, and its name if it has one.
LEMMA CommandAdds ==
  ASSUME Types, NEW cmd \in Spoken,
         up' = (up \o <<Item("cmd", cmd, n + 1)>>)
                \o (IF cmd \in {"ls", "pwd"} THEN <<>> ELSE <<Item("name", cmd, n + 1)>>)
  PROVE  up' = IF cmd \in {"ls", "pwd"} THEN Append(up, Item("cmd", cmd, n + 1))
               ELSE Append(Append(up, Item("cmd", cmd, n + 1)), Item("name", cmd, n + 1))
<1>1. up \in Seq(UpItem)
  BY DEF Types
<1>2. Item("cmd", cmd, n + 1) \in UpItem /\ Item("name", cmd, n + 1) \in UpItem
  BY DEF Item, UpItem, Types
<1>3. PICK a \in UpItem : a = Item("cmd", cmd, n + 1)
  BY <1>2
<1>4. PICK b \in UpItem : b = Item("name", cmd, n + 1)
  BY <1>2
<1>5. up \o <<a>> = Append(up, a) /\ Append(up, a) \in Seq(UpItem)
  BY <1>1
<1>6. Append(up, a) \o <<b>> = Append(Append(up, a), b) /\ Append(up, a) \o <<>> = Append(up, a)
  BY <1>5
<1> QED  BY <1>3, <1>4, <1>5, <1>6

LEMMA Stays ==
  ASSUME Types, NEW p \in ClientPlaces, p # "data", Goes(p)
  PROVE  /\ client' \in [at : ClientPlaces, cmd : Spoken \cup {"none"}, size : Size, logged : BOOLEAN]
         /\ client'.at # "data" /\ client'.at = p /\ client'.size = client.size
         /\ client'.logged = client.logged /\ client'.cmd = client.cmd
  BY DEF Types, Goes

LEMMA Items ==
  ASSUME NEW k \in Nat
  PROVE  /\ \A cmd \in Spoken : /\ Item("cmd", cmd, k) \in UpItem /\ Item("name", cmd, k) \in UpItem
                               /\ Item("cmd", cmd, k).of = k /\ Item("name", cmd, k).of = k
         /\ \A v \in {"empty", "some"} :
              Item("password", v, k) \in UpItem /\ Item("password", v, k).of = k
         /\ \A v \in Size : /\ Item("meta", v, k) \in UpItem /\ Item("offset", v, k) \in UpItem
                            /\ Item("meta", v, k).of = k /\ Item("offset", v, k).of = k
         /\ Item("data", 1, k) \in UpItem /\ Item("data", 1, k).of = k
  BY DEF Item, UpItem

\* A new command counts as one more.
LEMMA Counted ==
  ASSUME Types, n < MaxCommands
  PROVE  /\ n + 1 \in 0..MaxCommands /\ n + 1 \in Nat /\ server.of <= n + 1
         /\ \A i \in DOMAIN up : up[i].of <= n + 1
<1>1. /\ up \in Seq(UpItem) /\ \A i \in DOMAIN up : up[i].of <= n
      /\ server.of \in Nat /\ server.of <= n /\ n \in Nat /\ n \in 0..MaxCommands
  BY DEF Types
<1>2. ASSUME NEW i \in DOMAIN up  PROVE up[i].of <= n + 1
  <2>1. up[i] \in UpItem /\ up[i].of <= n
    BY <1>1
  <2>2. up[i].of \in Nat
    BY <2>1 DEF UpItem
  <2> QED  BY <1>1, <2>1, <2>2
<1> QED  BY <1>1, <1>2, BoundsNat

LEMMA PromptTypes ==
  ASSUME Types, \/ Ping \/ SocketEvent \/ Quit
                \/ \E cmd \in {"register", "login"} : Identify(cmd)
                \/ \E v \in {"empty", "some"} : Password(v)
                \/ \E cmd \in Commands : Command(cmd)
  PROVE  Types'
<1>1. /\ up \in Seq(UpItem) /\ down \in Seq(DownItem) /\ n \in Nat /\ n \in 0..MaxCommands
      /\ \A i \in DOMAIN up : up[i].of <= n
  BY DEF Types
<1>2. CASE Ping
  <2>1. Up("cmd", "ping") \in UpItem /\ Up("cmd", "ping").of <= n
    BY <1>1 DEF Up, Item, UpItem, Spoken
  <2>2. up' \in Seq(UpItem) /\ \A i \in DOMAIN up' : up'[i].of <= n
    BY <1>1, <1>2, <2>1, UpAdds DEF Ping
  <2> QED  BY <1>2, <2>2 DEF Ping, Types, ClientPlaces
<1>3. CASE SocketEvent
  <2>1. CASE down' = down
    BY <1>3, <2>1 DEF SocketEvent, Types, ClientPlaces
  <2>2. ASSUME NEW k \in 1..Len(down), down' = SubSeq(down, k + 1, Len(down))  PROVE down' \in Seq(DownItem)
    <3>1. Len(down) \in Nat /\ \A i \in (k + 1)..Len(down) : down[i] \in DownItem
      BY <1>1
    <3> QED  BY <2>2, <3>1, SubSeqProperties
  <2>3. client'.at # "data" /\ client' \in
          [at : ClientPlaces, cmd : Spoken \cup {"none"}, size : Size, logged : BOOLEAN]
    BY <1>3 DEF SocketEvent, Types, ClientPlaces
  <2> QED  BY <1>3, <2>1, <2>2, <2>3 DEF SocketEvent, Types
<1>4. CASE Quit
  <2>1. Up("cmd", "ping") \in UpItem /\ Up("cmd", "ping").of <= n
    BY <1>1 DEF Up, Item, UpItem, Spoken
  <2>2. up' = up \/ up' = Append(up, Up("cmd", "ping"))
    BY <1>4 DEF Quit
  <2>3. up' \in Seq(UpItem) /\ \A i \in DOMAIN up' : up'[i].of <= n
    BY <1>1, <2>1, <2>2, UpAdds
  <2> QED  BY <1>4, <2>3 DEF Quit, Types, ClientPlaces, Fault
<1>5. ASSUME NEW cmd \in {"register", "login"}, Identify(cmd)  PROVE Types'
  <2>1. n < MaxCommands /\ n' = n + 1 /\ cmd \in Spoken /\ cmd \in Identifying
    BY <1>5 DEF Identify, Spoken, Identifying
  <2>2. PICK a \in UpItem : a = Item("cmd", cmd, n + 1) /\ a.of <= n + 1
    <3>1. n + 1 \in Nat /\ n + 1 <= n + 1
      BY <1>1
    <3> HIDE DEF Item
    <3> QED  BY <2>1, <3>1, Items
  <2>3. PICK b \in UpItem : b = Item("name", cmd, n + 1) /\ b.of <= n + 1
    <3>1. n + 1 \in Nat /\ n + 1 <= n + 1
      BY <1>1
    <3> HIDE DEF Item
    <3> QED  BY <2>1, <3>1, Items
  <2>4. Append(up, a) \in Seq(UpItem) /\ \A i \in DOMAIN Append(up, a) : Append(up, a)[i].of <= n + 1
    BY <1>1, <2>1, <2>2, Counted, UpAdds
  <2>5. Append(Append(up, a), b) \in Seq(UpItem)
        /\ \A i \in DOMAIN Append(Append(up, a), b) : Append(Append(up, a), b)[i].of <= n + 1
    BY <2>1, <2>3, <2>4, Counted, UpAdds
  <2>6. up' = Append(Append(up, a), b)
    <3>1. up' = up \o <<a, b>>
      BY <1>5, <2>2, <2>3 DEF Identify
    <3> QED  BY <1>1, <3>1
  <2>7. client'.at # "data" /\ client' \in
          [at : ClientPlaces, cmd : Spoken \cup {"none"}, size : Size, logged : BOOLEAN]
    BY <1>5, <2>1 DEF Identify, Types, ClientPlaces
  <2>8. UNCHANGED <<down, server, open, occurred>>
    BY <1>5 DEF Identify
  <2> HIDE DEF Item
  <2> QED  BY <2>1, <2>5, <2>6, <2>7, <2>8, Counted DEF Types
<1>6. ASSUME NEW v \in {"empty", "some"}, Password(v)  PROVE Types'
  <2>1. Up("password", v) \in UpItem /\ Up("password", v).of <= n
    BY <1>1 DEF Up, Item, UpItem
  <2>2. up' \in Seq(UpItem) /\ \A i \in DOMAIN up' : up'[i].of <= n
    BY <1>1, <1>6, <2>1, UpAdds DEF Password
  <2> QED  BY <1>6, <2>2 DEF Password, Types, ClientPlaces, ClientWaits, LoosePlaces, Fault
<1>7. ASSUME NEW cmd \in Commands, Command(cmd)  PROVE Types'
  <2>1. n < MaxCommands /\ n' = n + 1 /\ cmd \in Spoken
    BY <1>7, CommandsKnown DEF Command, Spoken
  <2>2. PICK a \in UpItem : a = Item("cmd", cmd, n + 1) /\ a.of <= n + 1
    <3>1. n + 1 \in Nat /\ n + 1 <= n + 1
      BY <1>1
    <3> HIDE DEF Item
    <3> QED  BY <2>1, <3>1, Items
  <2>3. PICK b \in UpItem : b = Item("name", cmd, n + 1) /\ b.of <= n + 1
    <3>1. n + 1 \in Nat /\ n + 1 <= n + 1
      BY <1>1
    <3> HIDE DEF Item
    <3> QED  BY <2>1, <3>1, Items
  <2>4. Append(up, a) \in Seq(UpItem) /\ \A i \in DOMAIN Append(up, a) : Append(up, a)[i].of <= n + 1
    BY <1>1, <2>1, <2>2, Counted, UpAdds
  <2>5. Append(Append(up, a), b) \in Seq(UpItem)
        /\ \A i \in DOMAIN Append(Append(up, a), b) : Append(Append(up, a), b)[i].of <= n + 1
    BY <2>1, <2>3, <2>4, Counted, UpAdds
  <2>6. up' = Append(Append(up, a), b) \/ up' = Append(up, a)
    BY <1>7, <2>1, <2>2, <2>3, CommandAdds DEF Command
  <2>7. client'.at # "data" /\ client' \in
          [at : ClientPlaces, cmd : Spoken \cup {"none"}, size : Size, logged : BOOLEAN]
    BY <1>7, <2>1 DEF Command, Types, ClientPlaces, ClientWaits, LoosePlaces, ExactPlaces
  <2>8. UNCHANGED <<down, server, open, occurred>>
    BY <1>7 DEF Command
  <2> QED  BY <2>1, <2>4, <2>5, <2>6, <2>7, <2>8, Counted DEF Types
<1> QED  BY <1>2, <1>3, <1>4, <1>5, <1>6, <1>7

LEMMA InsideTypes ==
  ASSUME Types, \/ LoginReply \/ Reply \/ ReplyPart \/ Changed \/ NewPath
                \/ PutsMeta \/ PutsFails \/ PutsStatus \/ PutsOffset
                \/ GetsStatus \/ GetsMeta \/ GetsData
                \/ ClientLost \/ ClientEndOfFile
  PROVE  Types'
<1>1. /\ up \in Seq(UpItem) /\ down \in Seq(DownItem) /\ n \in Nat /\ MaxSize \in Nat
      /\ \A i \in DOMAIN up : up[i].of <= n
  BY BoundsNat DEF Types
<1>2. ASSUME NEW p \in ClientPlaces, Goes(p), p # "data", up' = up, down' = down \/ down' \in Seq(DownItem),
             n' = n, server' = server, open' = open, occurred' \in SUBSET Fault
      PROVE  Types'
  BY <1>2, Stays DEF Types
<1>3. CASE LoginReply
  <2>1. down' \in Seq(DownItem) /\ UNCHANGED <<up, n, server, open, occurred>>
    BY <1>3, HeadOfDown DEF LoginReply, Receives
  <2>2. Text("success") \in BOOLEAN
    BY DEF Text
  <2>3. client'.at # "data" /\ client' \in
          [at : ClientPlaces, cmd : Spoken \cup {"none"}, size : Size, logged : BOOLEAN]
    BY <1>3, <2>2 DEF LoginReply, Types, ClientPlaces
  <2> QED  BY <2>1, <2>3 DEF Types
<1>4. CASE Reply \/ Changed \/ NewPath \/ PutsStatus \/ GetsStatus
  <2>1. down' \in Seq(DownItem) /\ UNCHANGED <<up, n, server, open, occurred>>
    BY <1>4, HeadOfDown DEF Reply, Changed, NewPath, PutsStatus, GetsStatus, Receives, ReceivesType
  <2>2. \E p \in {"prompt", "path", "gone", "final", "offset", "meta"} : Goes(p)
    BY <1>4 DEF Reply, Changed, NewPath, PutsStatus, GetsStatus
  <2> QED  BY <2>1, <2>2, <1>2 DEF ClientPlaces, ClientWaits, LoosePlaces, ExactPlaces, Types
<1>5. CASE ReplyPart
  <2>1. down # <<>> /\ Head(down).t = "text"
    BY <1>5 DEF ReplyPart, Text
  <2>2. [Head(down) EXCEPT !.v = "rest"] \in DownItem
    BY <2>1, HeadOfDown DEF DownItem, Sentences
  <2>3. PICK x \in DownItem : x = [Head(down) EXCEPT !.v = "rest"]
    BY <2>2
  <2>4. <<x>> \o Tail(down) \in Seq(DownItem)
    BY <2>1, HeadOfDown
  <2>5. down' \in Seq(DownItem)
    BY <1>5, <2>3, <2>4 DEF ReplyPart
  <2> QED  BY <1>5, <2>5, <1>2 DEF ReplyPart, ClientPlaces, Types, Fault
<1>6. CASE PutsMeta
  <2>1. PICK k \in 0..MaxSize : /\ client' = [client EXCEPT !.at = "status", !.size = k]
                                /\ up' = Append(up, Up("meta", k))
    BY <1>6 DEF PutsMeta
  <2>2. Up("meta", k) \in UpItem /\ Up("meta", k).of <= n
    BY <1>1 DEF Up, Item, UpItem, Size
  <2>3. up' \in Seq(UpItem) /\ \A i \in DOMAIN up' : up'[i].of <= n
    BY <1>1, <2>1, <2>2, UpAdds
  <2> QED  BY <1>6, <2>1, <2>3 DEF PutsMeta, Types, ClientPlaces, ClientWaits, ExactPlaces, Size
<1>7. CASE PutsFails
  BY <1>7, <1>2 DEF PutsFails, ClientPlaces, Types, Fault
<1>8. CASE PutsOffset
  <2>1. down' \in Seq(DownItem)
    BY <1>8, HeadOfDown DEF PutsOffset, ReceivesType, Receives
  <2>2. Up("data", 1) \in UpItem /\ Up("data", 1).of <= n
    BY <1>1 DEF Up, Item, UpItem
  <2>3. PICK x \in UpItem : x = Up("data", 1) /\ x.of <= n
    BY <2>2
  <2>4. ASSUME NEW k \in Int  PROVE LET s == up \o [i \in 1..k |-> x] IN
          s \in Seq(UpItem) /\ \A i \in DOMAIN s : s[i].of <= n
    <3> DEFINE f == [i \in 1..k |-> x]
    <3>1. f \in Seq(UpItem) /\ \A i \in 1..Len(f) : f[i] = x
      BY Blocks
    <3> HIDE DEF f
    <3>2. /\ up \o f \in Seq(UpItem) /\ DOMAIN (up \o f) = 1..(Len(up) + Len(f))
          /\ \A i \in 1..Len(up) : (up \o f)[i] = up[i]
          /\ \A i \in 1..Len(f) : (up \o f)[Len(up) + i] = f[i]
      BY <1>1, <3>1, Joined
    <3>3. ASSUME NEW i \in DOMAIN (up \o f)  PROVE (up \o f)[i].of <= n
      <4>1. Len(up) \in Nat /\ Len(f) \in Nat /\ DOMAIN up = 1..Len(up)
        BY <1>1, <3>1
      <4>2. i \in 1..Len(up) \/ (i - Len(up) \in 1..Len(f) /\ i = Len(up) + (i - Len(up)))
        BY <3>2, <4>1
      <4> QED  BY <1>1, <2>3, <3>1, <3>2, <4>1, <4>2
    <3> QED  BY <3>2, <3>3 DEF f
  <2>5. client.size - Head(down).v \in Int
    BY <1>8, HeadOfDown, BoundsNat DEF PutsOffset, ReceivesType, Receives, Types, Size
  <2>6. up' \in Seq(UpItem) /\ \A i \in DOMAIN up' : up'[i].of <= n
    <3> HIDE DEF Up
    <3>1. \/ up' = up \o [i \in 1..(client.size - Head(down).v) |-> x]
          \/ \E k \in Int : up' = up \o [i \in 1..k |-> x]
          \/ up' = up
      <4>1. 0..(client.size - Head(down).v + 1) \subseteq Int
        OBVIOUS
      <4> QED  BY <1>8, <2>3, <4>1 DEF PutsOffset
    <3>2. CASE up' = up \o [i \in 1..(client.size - Head(down).v) |-> x]
      BY <2>4, <2>5, <3>2
    <3>3. ASSUME NEW k \in Int, up' = up \o [i \in 1..k |-> x]
          PROVE  up' \in Seq(UpItem) /\ \A i \in DOMAIN up' : up'[i].of <= n
      BY <2>4, <3>3
    <3> QED  BY <1>1, <3>1, <3>2, <3>3
  <2>7. client'.at # "data" /\ client' \in
          [at : ClientPlaces, cmd : Spoken \cup {"none"}, size : Size, logged : BOOLEAN]
    <3>1. \E p \in {"final", "prompt"} : Goes(p)
      BY <1>8 DEF PutsOffset
    <3> QED  BY <3>1, Stays DEF ClientPlaces, ClientWaits, LoosePlaces
  <2>8. n' = n /\ server' = server /\ open' = open /\ occurred' \in SUBSET Fault
    BY <1>8 DEF PutsOffset, Types, Fault
  <2> QED  BY <2>1, <2>6, <2>7, <2>8 DEF Types
<1>9. CASE GetsMeta
  <2>1. down' \in Seq(DownItem) /\ Head(down).v \in 1..MaxSize
    BY <1>9, HeadOfDown DEF GetsMeta, ReceivesType, Receives
  <2>2. PICK have \in 0..MaxSize :
          /\ up' = Append(up, Up("offset", IF have >= Head(down).v THEN Head(down).v ELSE have))
          /\ \/ /\ client' = [client EXCEPT
                               !.size = Head(down).v - (IF have >= Head(down).v THEN Head(down).v ELSE have),
                               !.at = IF have >= Head(down).v THEN "final" ELSE "data"]
                /\ UNCHANGED occurred
             \/ Goes("prompt") /\ occurred' = occurred \cup {"local"}
    BY <1>9 DEF GetsMeta
  <2>3. PICK m \in 1..MaxSize : m = Head(down).v
    BY <2>1
  <2>4. PICK asked \in Size : asked = (IF have >= m THEN m ELSE have) /\ m - asked \in Size
                              /\ (have < m => m - asked > 0)
    BY <1>1 DEF Size
  <2>5. PICK x \in UpItem : x = Up("offset", asked) /\ x.of <= n
    BY <1>1, Items DEF Up
  <2>6. up' \in Seq(UpItem) /\ \A i \in DOMAIN up' : up'[i].of <= n
    <3>1. up' = Append(up, x)
      BY <2>2, <2>3, <2>4, <2>5
    <3> QED  BY <1>1, <2>5, <3>1, UpAdds
  <2>7. /\ client' \in [at : ClientPlaces, cmd : Spoken \cup {"none"}, size : Size, logged : BOOLEAN]
        /\ client'.at = "data" => client'.size > 0
    <3>1. \/ client' = [client EXCEPT !.size = m - asked, !.at = IF have >= m THEN "final" ELSE "data"]
          \/ Goes("prompt")
      BY <2>2, <2>3, <2>4
    <3>2. have >= m \/ have < m
      BY <1>1
    <3>3. {"final", "data", "prompt"} \subseteq ClientPlaces
      BY DEF ClientPlaces, ClientWaits, LoosePlaces, ExactPlaces
    <3> QED  BY <2>4, <3>1, <3>2, <3>3 DEF Types, Goes
  <2> QED  BY <1>9, <2>1, <2>2, <2>6, <2>7 DEF GetsMeta, Types, Fault
<1>10. CASE GetsData
  <2>1. down' \in Seq(DownItem) /\ UNCHANGED <<up, n, server, open, occurred>> /\ client.at = "data"
    BY <1>10, HeadOfDown DEF GetsData, ReceivesType, Receives
  <2>2. client.size \in Size /\ client.size > 0 /\ client.size - 1 \in Size
    BY <1>1, <2>1 DEF Types, Size
  <2>3. client' = [client EXCEPT !.size = client.size - 1,
                                 !.at = IF client.size = 1 THEN "prompt" ELSE "data"]
    BY <1>10 DEF GetsData
  <2>4. client.size # 1 => client.size - 1 > 0
    BY <1>1, <2>2 DEF Size
  <2>5. {"data", "prompt"} \subseteq ClientPlaces
    BY DEF ClientPlaces, ClientWaits, ExactPlaces
  <2>6. /\ client' \in [at : ClientPlaces, cmd : Spoken \cup {"none"}, size : Size, logged : BOOLEAN]
        /\ client'.at = "data" => client'.size > 0
    BY <2>2, <2>3, <2>4, <2>5 DEF Types
  <2> QED  BY <2>1, <2>6 DEF Types
<1>11. CASE ClientLost \/ ClientEndOfFile
  <2>1. UNCHANGED <<up, down, n, server, open, occurred>> /\ \E p \in {"lost", "gone", "prompt"} : Goes(p)
    BY <1>11 DEF ClientLost, ClientEndOfFile
  <2> QED  BY <2>1, <1>2 DEF Types, ClientPlaces
<1> QED  BY <1>3, <1>4, <1>5, <1>6, <1>7, <1>8, <1>9, <1>10, <1>11

LEMMA Sayings ==
  ASSUME Types
  PROVE  /\ \A v \in Sentences : Item("text", v, server.of) \in DownItem
         /\ \A v \in {"error", "seccomp", "go", "notfound", "ok"} :
              Item("status", v, server.of) \in DownItem
         /\ \A v \in Size : Item("offset", v, server.of) \in DownItem
         /\ \A v \in 1..MaxSize : Item("meta", v, server.of) \in DownItem
  BY DEF Item, DownItem, Types

LEMMA Said ==
  ASSUME Types, NEW v \in Sentences, Answers(<<<<"text", v>>>>)
  PROVE  Adds(1) /\ (open => down'[Len(down) + 1] = Item("text", v, server.of))
  BY Sayings, AnswersOne

\* What an action of the worker leaves to be shown of types.
LEMMA WorkerTypes ==
  ASSUME Types, n' = n, client' = client, open' \in BOOLEAN, occurred' \in SUBSET Fault,
         up' = up \/ (up # <<>> /\ up' = Tail(up)), down' \in Seq(DownItem),
         server' \in [at : ServerPlaces, cmd : Spoken \cup {"none"}, of : Nat, size : Size,
                      logged : BOOLEAN],
         server'.of <= n
  PROVE  Types'
<1>1. up' \in Seq(UpItem) /\ \A i \in DOMAIN up' : up'[i].of <= n
  BY HeadOfUp DEF Types
<1> QED  BY <1>1 DEF Types

LEMMA AwaitsTypes ==
  ASSUME Types, NEW p \in ServerPlaces, Awaits(p)
  PROVE  /\ server' \in [at : ServerPlaces, cmd : Spoken \cup {"none"}, of : Nat, size : Size,
                         logged : BOOLEAN]
         /\ server'.of <= n /\ server'.at = p /\ server'.of = server.of /\ server'.size = server.size
         /\ server'.logged = server.logged /\ server'.cmd = server.cmd
  BY DEF Types, Awaits

LEMMA TakesHead ==
  ASSUME Types, NEW t, Takes(t)
  PROVE  /\ server.at = t /\ up # <<>> /\ up[1] = Head(up) /\ up[1].t = t /\ up' = Tail(up)
         /\ up[1].of \in 0..n /\ up[1] \in UpItem
  BY HeadOfUp DEF Takes

LEMMA ServerTypes ==
  ASSUME Types, ServerStep \/ Expire
  PROVE  Types'
<1>1. /\ down \in Seq(DownItem) /\ n \in Nat /\ MaxSize \in Nat /\ occurred \in SUBSET Fault
      /\ open \in BOOLEAN /\ server.of \in Nat /\ server.of <= n
  BY BoundsNat DEF Types
<1>2. {"cmd", "name", "password", "meta", "data", "offset", "run", "closed", "lost"} \subseteq ServerPlaces
  BY DEF ServerPlaces, ServerWaits
<1>3. CASE ReceiveCommand
  <2>1. /\ up # <<>> /\ up' = Tail(up) /\ Head(up).of \in Nat /\ Head(up).of <= n
        /\ Head(up).v \in Spoken
    BY <1>1, <1>3, TakesHead, HeadOfUp DEF ReceiveCommand
  <2>2. server' = server \/ \E p \in {"run", "name"} :
          server' = [server EXCEPT !.cmd = Head(up).v, !.of = Head(up).of, !.at = p]
    BY <1>3 DEF ReceiveCommand
  <2>3. /\ server' \in [at : ServerPlaces, cmd : Spoken \cup {"none"}, of : Nat, size : Size,
                        logged : BOOLEAN]
        /\ server'.of <= n
    <3>1. CASE server' = server
      BY <3>1 DEF Types
    <3>2. ASSUME NEW p \in {"run", "name"},
                 server' = [server EXCEPT !.cmd = Head(up).v, !.of = Head(up).of, !.at = p]
          PROVE  /\ server' \in [at : ServerPlaces, cmd : Spoken \cup {"none"}, of : Nat, size : Size,
                                 logged : BOOLEAN]
                 /\ server'.of <= n
      <4>1. PICK c \in Spoken : c = Head(up).v
        BY <2>1
      <4>2. PICK k \in Nat : k = Head(up).of /\ k <= n
        BY <2>1
      <4>3. server' = [server EXCEPT !.cmd = c, !.of = k, !.at = p]
        BY <3>2, <4>1, <4>2
      <4> QED  BY <1>2, <4>2, <4>3 DEF Types
    <3> QED  BY <2>2, <3>1, <3>2
  <2> QED  BY <1>1, <1>3, <2>1, <2>3, WorkerTypes DEF ReceiveCommand
<1>4. CASE ReceiveName
  <2>1. \E p \in {"password", "meta", "run"} : Awaits(p)
    BY <1>4 DEF ReceiveName
  <2> QED  BY <1>1, <1>2, <1>4, <2>1, AwaitsTypes, WorkerTypes, TakesHead DEF ReceiveName
<1>5. CASE HandleUser
  <2>1. up # <<>> /\ up' = Tail(up) /\ UNCHANGED <<n, client, open, occurred>>
    BY <1>5, TakesHead DEF HandleUser
  <2>2. CASE Awaits("cmd") /\ UNCHANGED down
    BY <1>1, <1>2, <2>1, <2>2, AwaitsTypes, WorkerTypes
  <2>3. ASSUME NEW v \in {"success", "refused", "norootdir"}, Answers(<<<<"text", v>>>>),
               server' = [server EXCEPT !.at = "cmd", !.logged = v = "success"]
        PROVE  Types'
    <3>1. down' \in Seq(DownItem)
      BY <2>3, Said DEF Sentences, Adds
    <3>2. /\ server' \in [at : ServerPlaces, cmd : Spoken \cup {"none"}, of : Nat, size : Size,
                          logged : BOOLEAN]
          /\ server'.of <= n
      BY <1>1, <1>2, <2>3 DEF Types
    <3> QED  BY <1>1, <2>1, <3>1, <3>2, WorkerTypes
  <2> QED  BY <1>5, <2>2, <2>3 DEF HandleUser
<1>6. ASSUME NEW p \in ServerPlaces, Awaits(p), UNCHANGED <<n, client, open>>,
             up' = up \/ (up # <<>> /\ up' = Tail(up)), down' = down \/ down' \in Seq(DownItem),
             occurred' \in SUBSET Fault
      PROVE  Types'
  BY <1>1, <1>6, AwaitsTypes, WorkerTypes
<1>7. CASE List \/ Pwd \/ Change \/ FinishPuts
  <2>1. PICK v \in {"listing", "failed", "path", "done", "success"} : Answers(<<<<"text", v>>>>)
    BY <1>7 DEF List, Pwd, Change, FinishPuts
  <2>2. down' \in Seq(DownItem)
    BY <2>1, Said DEF Sentences, Adds
  <2>3. Awaits("cmd") /\ UNCHANGED <<up, n, client, open, occurred>>
    BY <1>7 DEF List, Pwd, Change, FinishPuts
  <2> QED  BY <1>1, <1>2, <1>6, <2>2, <2>3
<1>8. CASE Cd
  <2>1. down' \in Seq(DownItem)
    <3>1. CASE Answers(<<<<"text", "failed">>>>)
      BY <3>1, Said DEF Sentences, Adds
    <3>2. ASSUME NEW v \in {"path", "nopath"}, Answers(<<<<"text", "changed">>, <<"text", v>>>>)
          PROVE  down' \in Seq(DownItem)
      <4>1. Item("text", "changed", server.of) \in DownItem /\ Item("text", v, server.of) \in DownItem
        BY Sayings DEF Sentences
      <4> HIDE DEF Item
      <4> QED  BY <3>2, <4>1, AnswersTwo DEF Adds
    <3> QED  BY <1>8, <3>1, <3>2 DEF Cd
  <2>2. Awaits("cmd") /\ UNCHANGED <<up, n, client, open>> /\ occurred' \in SUBSET Fault
    BY <1>1, <1>8 DEF Cd, Faults, Fault
  <2> QED  BY <1>2, <1>6, <2>1, <2>2
<1>9. CASE AnswerPuts
  <2>1. /\ up # <<>> /\ up' = Tail(up) /\ UNCHANGED <<n, client, open>> /\ Head(up).v \in Size
        /\ occurred' \in SUBSET Fault
    BY <1>1, <1>9, TakesHead, HeadOfUp DEF AnswerPuts, Faults, Fault
  <2>2. CASE Answers(<<<<"status", "error">>, <<"text", "failed">>>>) /\ Awaits("cmd")
    <3>1. Item("status", "error", server.of) \in DownItem /\ Item("text", "failed", server.of) \in DownItem
      BY Sayings DEF Sentences
    <3>2. down' \in Seq(DownItem)
      <4> HIDE DEF Item
      <4> QED  BY <2>2, <3>1, AnswersTwo DEF Adds
    <3> QED  BY <1>2, <1>6, <2>1, <2>2, <3>2
  <2>3. CASE Answers(<<<<"status", "seccomp">>>>) /\ Awaits("cmd")
    <3>1. down' \in Seq(DownItem)
      BY <2>3, Sayings, AnswersOne DEF Adds
    <3> QED  BY <1>2, <1>6, <2>1, <2>3, <3>1
  <2>4. ASSUME NEW k \in 0..Head(up).v, Answers(<<<<"status", "go">>, <<"offset", k>>>>),
               server' = [server EXCEPT !.at = "data", !.size = Head(up).v - k]
        PROVE  Types'
    <3>1. k \in Size /\ Head(up).v - k \in Size
      BY <1>1, <2>1 DEF Size
    <3>2. Item("status", "go", server.of) \in DownItem /\ Item("offset", k, server.of) \in DownItem
      BY <3>1, Sayings
    <3>3. down' \in Seq(DownItem)
      <4> HIDE DEF Item
      <4> QED  BY <2>4, <3>2, AnswersTwo DEF Adds
    <3>4. /\ server' \in [at : ServerPlaces, cmd : Spoken \cup {"none"}, of : Nat, size : Size,
                          logged : BOOLEAN]
          /\ server'.of <= n
      BY <1>1, <1>2, <2>4, <3>1 DEF Types
    <3> QED  BY <1>1, <2>1, <3>3, <3>4, WorkerTypes
  <2>5. ASSUME NEW k \in 0..Head(up).v,
               Answers(<<<<"status", "go">>, <<"offset", k>>, <<"status", "error">>>>), Awaits("cmd")
        PROVE  Types'
    <3>1. k \in Size
      BY <1>1, <2>1 DEF Size
    <3>2. /\ Item("status", "go", server.of) \in DownItem /\ Item("offset", k, server.of) \in DownItem
          /\ Item("status", "error", server.of) \in DownItem
      BY <3>1, Sayings
    <3>3. down' \in Seq(DownItem)
      <4> HIDE DEF Item
      <4> QED  BY <2>5, <3>2, AnswersThree DEF Adds
    <3> QED  BY <1>2, <1>6, <2>1, <2>5, <3>3
  <2> QED  BY <1>9, <2>2, <2>3, <2>4, <2>5 DEF AnswerPuts
<1>10. CASE ReceiveData
  <2>1. /\ up # <<>> /\ up' = Tail(up) /\ UNCHANGED <<n, client, open>> /\ server.size > 0
        /\ occurred' \in SUBSET Fault
    BY <1>1, <1>10, TakesHead DEF ReceiveData, Faults, Fault
  <2>2. CASE server' = [server EXCEPT !.size = server.size - 1] /\ UNCHANGED <<down, occurred>>
    <3>1. server.size - 1 \in Size
      BY <1>1, <2>1 DEF Types, Size
    <3>2. /\ server' \in [at : ServerPlaces, cmd : Spoken \cup {"none"}, of : Nat, size : Size,
                          logged : BOOLEAN]
          /\ server'.of <= n
      BY <1>1, <2>2, <3>1 DEF Types
    <3> QED  BY <1>1, <2>1, <2>2, <3>2, WorkerTypes
  <2>3. CASE Answers(<<<<"text", "interrupted">>>>) /\ Awaits("cmd")
    <3>1. down' \in Seq(DownItem)
      BY <2>3, Said DEF Sentences, Adds
    <3> QED  BY <1>2, <1>6, <2>1, <2>3, <3>1
  <2> QED  BY <1>10, <2>2, <2>3 DEF ReceiveData
<1>11. CASE AnswerGets
  <2>1. UNCHANGED <<up, n, client, open>> /\ occurred' \in SUBSET Fault
    BY <1>1, <1>11 DEF AnswerGets, Faults, Fault
  <2>2. CASE Answers(<<<<"status", "notfound">>, <<"text", "failed">>>>) /\ Awaits("cmd")
    <3>1. Item("status", "notfound", server.of) \in DownItem /\ Item("text", "failed", server.of) \in DownItem
      BY Sayings DEF Sentences
    <3>2. down' \in Seq(DownItem)
      <4> HIDE DEF Item
      <4> QED  BY <2>2, <3>1, AnswersTwo DEF Adds
    <3> QED  BY <1>2, <1>6, <2>1, <2>2, <3>2
  <2>3. CASE Answers(<<<<"status", "notfound">>>>) /\ Awaits("cmd")
    <3>1. down' \in Seq(DownItem)
      BY <2>3, Sayings, AnswersOne DEF Adds
    <3> QED  BY <1>2, <1>6, <2>1, <2>3, <3>1
  <2>4. ASSUME NEW k \in 1..MaxSize, Answers(<<<<"status", "ok">>, <<"meta", k>>>>),
               server' = [server EXCEPT !.at = "offset", !.size = k]
        PROVE  Types'
    <3>1. Item("status", "ok", server.of) \in DownItem /\ Item("meta", k, server.of) \in DownItem
      BY Sayings
    <3>2. down' \in Seq(DownItem)
      <4> HIDE DEF Item
      <4> QED  BY <2>4, <3>1, AnswersTwo DEF Adds
    <3>3. k \in Size
      BY <1>1 DEF Size
    <3>4. /\ server' \in [at : ServerPlaces, cmd : Spoken \cup {"none"}, of : Nat, size : Size,
                          logged : BOOLEAN]
          /\ server'.of <= n
      BY <1>1, <1>2, <2>4, <3>3 DEF Types
    <3> QED  BY <1>1, <2>1, <3>2, <3>4, WorkerTypes
  <2> QED  BY <1>11, <2>2, <2>3, <2>4 DEF AnswerGets
<1>12. CASE SendContent
  <2>1. /\ up # <<>> /\ up' = Tail(up) /\ UNCHANGED <<n, client, open>> /\ Awaits("cmd")
        /\ occurred' \in SUBSET Fault /\ server.size - Head(up).v \in Int
    <3>1. Takes("offset") /\ UNCHANGED <<n, client, open>> /\ Awaits("cmd")
      BY <1>12 DEF SendContent
    <3>2. up # <<>> /\ up' = Tail(up) /\ Head(up).v \in Size
      BY <3>1, TakesHead, HeadOfUp
    <3>3. server.size \in Size
      BY DEF Types
    <3>4. \/ occurred' = occurred \/ occurred' = occurred \cup {"missing"}
          \/ occurred' = occurred \cup {"longer"}
      BY <1>12 DEF SendContent, Faults
    <3>5. occurred' \in SUBSET Fault
      BY <1>1, <3>4 DEF Fault
    <3>6. server.size - Head(up).v \in Int
      BY <1>1, <3>2, <3>3 DEF Size
    <3> QED  BY <3>1, <3>2, <3>5, <3>6
  <2>2. PICK left \in Int : left = server.size - Head(up).v
    BY <2>1
  <2>3. \/ \E v \in {"complete", "missing"} : Answers(<<<<"text", v>>>>)
        \/ left > 0 /\ Answers([i \in 1..left |-> <<"data", 1>>])
        \/ \E k \in 0..left : Answers([i \in 1..k |-> <<"data", 1>>])
        \/ left > 0 /\ Answers(Surplus(left))
    <3>1. \/ left <= 0 /\ Answers(<<<<"text", "complete">>>>)
          \/ /\ ~ (left <= 0)
             /\ \/ Answers([i \in 1..left |-> <<"data", 1>>])
                \/ \E k \in 0..left : Answers([i \in 1..k |-> <<"data", 1>>])
                \/ Answers(Surplus(left))
                \/ Answers(<<<<"text", "missing">>>>)
      BY <1>12, <2>2 DEF SendContent, Surplus
    <3>2. ~ (left <= 0) => left > 0
      OBVIOUS
    <3> QED  BY <3>1, <3>2, Zenon
  <2>4. down' \in Seq(DownItem)
    <3>1. CASE \E v \in {"complete", "missing"} : Answers(<<<<"text", v>>>>)
      BY <3>1, Said DEF Sentences, Adds
    <3>2. CASE left > 0 /\ Answers([i \in 1..left |-> <<"data", 1>>])
      <4>1. left \in Nat
        BY <3>2
      <4> QED  BY <3>2, <4>1, AnswersBlocks DEF Adds
    <3>3. ASSUME NEW k \in 0..left, Answers([i \in 1..k |-> <<"data", 1>>])
          PROVE  down' \in Seq(DownItem)
      BY <3>3, AnswersBlocks DEF Adds
    <3>4. CASE left > 0 /\ Answers(Surplus(left))
      <4>1. left \in Nat
        BY <3>4
      <4> QED  BY <3>4, <4>1, AnswersSurplus DEF Adds
    <3> QED  BY <2>3, <3>1, <3>2, <3>3, <3>4
  <2> QED  BY <1>2, <1>6, <2>1, <2>4
<1>13. CASE ServerLost \/ ServerEndOfFile
  <2>1. UNCHANGED <<up, down, n, client, open, occurred>> /\ \E p \in {"lost", "closed"} : Awaits(p)
    BY <1>13 DEF ServerLost, ServerEndOfFile
  <2> QED  BY <1>1, <1>2, <1>6, <2>1
<1>14. CASE Expire
  <2>1. PICK x \in DownItem : x = Item("notice", "notice", 0)
    BY DEF Item, DownItem
  <2>2. down' \in Seq(DownItem)
    BY <1>1, <1>14, <2>1, Appended DEF Expire
  <2>3. UNCHANGED <<up, n, client, server>> /\ open' \in BOOLEAN /\ occurred' \in SUBSET Fault
    BY <1>1, <1>14 DEF Expire, Faults, Fault
  <2> QED  BY <2>2, <2>3, WorkerTypes DEF Types
<1> QED
  BY <1>3, <1>4, <1>5, <1>7, <1>8, <1>9, <1>10, <1>11, <1>12, <1>13, <1>14 DEF ServerStep

LEMMA TypesAlways == Spec => []Types
<1>1. Init => Types
  BY BoundsNat DEF Init, Types, Size, ClientPlaces, ServerPlaces, ServerWaits, Fault
<1>2. ASSUME Types, [Next]_vars  PROVE Types'
  <2>1. CASE UNCHANGED vars
    BY <1>2, <2>1 DEF vars, Types
  <2> QED  BY <1>2, <2>1, PromptTypes, InsideTypes, ServerTypes DEF Next, ClientStep
<1> QED  BY <1>1, <1>2, PTL DEF Spec

-----------------------------------------------------------------------------
(* The login.                                                              *)

\* Nobody is welcomed who is not logged in, and the descriptor stays open
\* unless the wheel closes it.
Welcome ==
  /\ client.logged => server.logged
  /\ client.at \in {"password", "login"} => ~ client.logged
  /\ \A i \in DOMAIN down : down[i].t = "text" /\ down[i].v = "success" => server.logged
  /\ server.at \in {"meta", "data"} => server.logged
  /\ server.at = "password" => ~ server.logged
  /\ "expiry" \notin occurred => open

\* Until the client is logged in the streams carry attempts to be, and at most
\* one password is to be answered, by the one answer there will be.
Knocking ==
  /\ client.at \in {"prompt", "select", "password", "login"}
  /\ client.at # "login" => ~ server.logged /\ down = <<>>
  /\ server.at \in {"cmd", "name", "password", "lost"}
  /\ server.logged => up = <<>> /\ server.at = "cmd"
  /\ \A i \in DOMAIN up :
       /\ up[i].t \in {"cmd", "name", "password"}
       /\ up[i].t # "password" => up[i].v \in Identifying \cup {"ping"}
       /\ up[i].t = "password" => i = Len(up) /\ client.at = "login" /\ down = <<>>
  /\ client.at = "login" => Len(down) <= 1 /\ (server.logged => Text("success"))

Outside == "expiry" \notin occurred /\ ~ client.logged /\ client.at # "gone"
Entering == Outside => Knocking

LEMMA Shown ==
  ASSUME Types, Welcome, NEW v \in Sentences, Answers(<<<<"text", v>>>>),
         v = "success" => server'.logged, server.logged => server'.logged
  PROVE  \A i \in DOMAIN down' : down'[i].t = "text" /\ down'[i].v = "success" => server'.logged
<1>1. Adds(1) /\ (open => down'[Len(down) + 1] = Item("text", v, server.of))
  BY Said
<1>2. DOMAIN down = 1..Len(down) /\ Len(down) \in Nat /\ Item("text", v, server.of).v = v
      /\ open \in BOOLEAN
  BY DEF Types, Item
<1>3. CASE ~ open
  BY <1>1, <1>3 DEF Adds, Welcome
<1>4. CASE open
  <2> SUFFICES ASSUME NEW i \in DOMAIN down', down'[i].t = "text", down'[i].v = "success"
               PROVE  server'.logged
    OBVIOUS
  <2>1. i \in 1..Len(down) \/ i = Len(down) + 1
    BY <1>1, <1>2, <1>4 DEF Adds
  <2>2. CASE i \in 1..Len(down)
    BY <1>1, <1>2, <1>4, <2>2 DEF Adds, Welcome
  <2> QED  BY <1>1, <1>2, <1>4, <2>1, <2>2
<1> QED  BY <1>2, <1>3, <1>4

\* The worker's other answers are no welcome.
Plainly(s, t) == \A i \in DOMAIN t : t[i].t = "text" /\ t[i].v = "success" =>
                   \E j \in DOMAIN s : s[j].t = "text" /\ s[j].v = "success"

LEMMA PlainOnes ==
  ASSUME Types, NEW m \in Nat, Adds(m),
         open => \A i \in 1..m : down'[Len(down) + i].t # "text" \/ down'[Len(down) + i].v # "success"
  PROVE  Plainly(down, down')
<1>1. DOMAIN down = 1..Len(down) /\ Len(down) \in Nat /\ open \in BOOLEAN
  BY DEF Types
<1>2. CASE ~ open
  BY <1>2 DEF Adds, Plainly
<1>3. CASE open
  <2> SUFFICES ASSUME NEW i \in DOMAIN down', down'[i].t = "text", down'[i].v = "success"
               PROVE  \E j \in DOMAIN down : down[j].t = "text" /\ down[j].v = "success"
    BY DEF Plainly
  <2>1. i \in 1..Len(down) \/ (i - Len(down) \in 1..m /\ i = Len(down) + (i - Len(down)))
    BY <1>1, <1>3 DEF Adds
  <2>2. CASE i \in 1..Len(down)
    BY <1>1, <1>3, <2>2 DEF Adds
  <2>3. CASE i - Len(down) \in 1..m /\ i = Len(down) + (i - Len(down))
    BY <1>3, <2>3
  <2> QED  BY <2>1, <2>2, <2>3
<1> QED  BY <1>1, <1>2, <1>3

LEMMA PlainAnswers ==
  ASSUME Types, List \/ Pwd \/ Cd \/ Change \/ AnswerPuts \/ ReceiveData \/ AnswerGets \/ SendContent
  PROVE  Plainly(down, down')
<1>1. ASSUME NEW v \in Sentences, v # "success", Answers(<<<<"text", v>>>>)  PROVE Plainly(down, down')
  <2>1. Adds(1) /\ (open => down'[Len(down) + 1] = Item("text", v, server.of))
    BY <1>1, Said
  <2> QED  BY <1>1, <2>1, PlainOnes DEF Item
<1>2. ASSUME NEW v \in Sentences, v # "success", NEW w \in Sentences, w # "success",
             Answers(<<<<"text", v>>, <<"text", w>>>>)
      PROVE  Plainly(down, down')
  <2>1. Adds(2) /\ (open => /\ down'[Len(down) + 1] = Item("text", v, server.of)
                            /\ down'[Len(down) + 2] = Item("text", w, server.of))
    BY <1>2, Sayings, AnswersTwo
  <2> QED  BY <1>2, <2>1, PlainOnes DEF Item
<1>3. ASSUME NEW v \in {"error", "notfound"}, Answers(<<<<"status", v>>, <<"text", "failed">>>>)
      PROVE  Plainly(down, down')
  <2>1. Adds(2) /\ (open => /\ down'[Len(down) + 1] = Item("status", v, server.of)
                            /\ down'[Len(down) + 2] = Item("text", "failed", server.of))
    <3>1. Item("status", v, server.of) \in DownItem /\ Item("text", "failed", server.of) \in DownItem
      BY Sayings DEF Sentences
    <3> QED  BY <1>3, <3>1, AnswersTwo
  <2> QED  BY <2>1, PlainOnes DEF Item
<1>4. ASSUME NEW v \in {"seccomp", "notfound"}, Answers(<<<<"status", v>>>>)  PROVE Plainly(down, down')
  <2>1. Adds(1) /\ (open => down'[Len(down) + 1] = Item("status", v, server.of))
    BY <1>4, Sayings, AnswersOne
  <2> QED  BY <2>1, PlainOnes DEF Item
<1>5. ASSUME NEW v \in {"go", "ok"}, NEW t \in {"offset", "meta"}, NEW k,
             Item(t, k, server.of) \in DownItem, Answers(<<<<"status", v>>, <<t, k>>>>)
      PROVE  Plainly(down, down')
  <2>1. Adds(2) /\ (open => /\ down'[Len(down) + 1] = Item("status", v, server.of)
                            /\ down'[Len(down) + 2] = Item(t, k, server.of))
    BY <1>5, Sayings, AnswersTwo
  <2> QED  BY <2>1, PlainOnes DEF Item
<1>6. ASSUME NEW k \in Size, Answers(<<<<"status", "go">>, <<"offset", k>>, <<"status", "error">>>>)
      PROVE  Plainly(down, down')
  <2>1. Adds(3) /\ (open => /\ down'[Len(down) + 1] = Item("status", "go", server.of)
                            /\ down'[Len(down) + 2] = Item("offset", k, server.of)
                            /\ down'[Len(down) + 3] = Item("status", "error", server.of))
    BY <1>6, Sayings, AnswersThree
  <2> QED  BY <2>1, PlainOnes DEF Item
<1>7. ASSUME NEW k \in Nat, Answers([i \in 1..k |-> <<"data", 1>>])  PROVE Plainly(down, down')
  <2>1. Adds(k) /\ (open => \A i \in 1..k : down'[Len(down) + i] = Item("data", 1, server.of))
    BY <1>7, AnswersBlocks
  <2>2. Item("data", 1, server.of).t = "data"
    BY DEF Item
  <2> HIDE DEF Item
  <2> QED  BY <2>1, <2>2, PlainOnes
<1>8. down' = down => Plainly(down, down')
  BY DEF Plainly
<1>9. CASE List \/ Pwd \/ Change
  BY <1>1, <1>9 DEF List, Pwd, Change, Sentences
<1>10. CASE Cd
  BY <1>1, <1>2, <1>10 DEF Cd, Sentences
<1>11. CASE AnswerPuts
  <2>1. Head(up).v \in Size
    BY <1>11, TakesHead, HeadOfUp DEF AnswerPuts
  <2>2. \A k \in 0..Head(up).v : k \in Size
    BY <2>1, BoundsNat DEF Size
  <2>3. \A k \in Size : Item("offset", k, server.of) \in DownItem
    BY Sayings
  <2> QED  BY <1>3, <1>4, <1>5, <1>6, <1>11, <2>2, <2>3 DEF AnswerPuts
<1>12. CASE ReceiveData
  BY <1>1, <1>8, <1>12 DEF ReceiveData, Sentences
<1>13. CASE AnswerGets
  <2>1. \A k \in 1..MaxSize : Item("meta", k, server.of) \in DownItem
    BY Sayings
  <2> QED  BY <1>3, <1>4, <1>5, <1>13, <2>1 DEF AnswerGets
<1>14. CASE SendContent
  <2>1. PICK left : left = server.size - Head(up).v
    OBVIOUS
  <2>2. \/ \E v \in {"complete", "missing"} : Answers(<<<<"text", v>>>>)
        \/ left \in Nat /\ Answers([i \in 1..left |-> <<"data", 1>>])
        \/ \E k \in Nat : Answers([i \in 1..k |-> <<"data", 1>>])
        \/ left \in Nat /\ Answers(Surplus(left))
    <3>1. left \in Int
      <4>1. Head(up).v \in Size /\ server.size \in Size
        BY <1>14, TakesHead, HeadOfUp DEF SendContent, Types
      <4> QED  BY <2>1, <4>1, BoundsNat DEF Size
    <3>2. \/ left <= 0 /\ Answers(<<<<"text", "complete">>>>)
          \/ /\ ~ (left <= 0)
             /\ \/ Answers([i \in 1..left |-> <<"data", 1>>])
                \/ \E k \in 0..left : Answers([i \in 1..k |-> <<"data", 1>>])
                \/ Answers(Surplus(left))
                \/ Answers(<<<<"text", "missing">>>>)
      BY <1>14, <2>1 DEF SendContent, Surplus
    <3>3. ~ (left <= 0) => left \in Nat
      BY <3>1
    <3>4. 0..left \subseteq Nat
      OBVIOUS
    <3> QED  BY <3>2, <3>3, <3>4, Zenon
  <2>3. {"complete", "missing"} \subseteq Sentences \ {"success"}
    BY DEF Sentences
  <2>4. ASSUME left \in Nat, Answers(Surplus(left))  PROVE Plainly(down, down')
    <3>1. PICK m \in Nat : m = left + 1
      BY <2>4
    <3>2. /\ Adds(m)
          /\ open => /\ \A i \in 1..left : down'[Len(down) + i] = Item("data", 1, server.of)
                     /\ down'[Len(down) + left + 1] = Item("text", "surplus", server.of)
      <4> HIDE DEF Item
      <4> QED  BY <2>4, <3>1, AnswersSurplus
    <3>3. \A i \in 1..m : i \in 1..left \/ (i = m /\ Len(down) + i = Len(down) + left + 1)
      <4>1. Len(down) \in Nat
        BY DEF Types
      <4> QED  BY <2>4, <3>1, <4>1
    <3>4. Item("data", 1, server.of).t = "data" /\ Item("text", "surplus", server.of).v = "surplus"
      BY DEF Item
    <3>5. open => \A i \in 1..m : down'[Len(down) + i].t # "text" \/ down'[Len(down) + i].v # "success"
      <4> HIDE DEF Item
      <4> QED  BY <3>2, <3>3, <3>4
    <3> QED  BY <3>2, <3>5, PlainOnes
  <2> QED  BY <1>1, <1>7, <2>2, <2>3, <2>4
<1> QED  BY <1>9, <1>10, <1>11, <1>12, <1>13, <1>14

\* The client only takes from the front of what is coming down.
LEMMA ClientTakes ==
  ASSUME Types, ClientStep
  PROVE  \/ down' = down
         \/ down # <<>> /\ down' = Tail(down)
         \/ SocketEvent /\ \E k \in 1..Len(down) : down' = SubSeq(down, k + 1, Len(down))
         \/ ReplyPart
<1>1. CASE Ping \/ Quit \/ (\E cmd \in {"register", "login"} : Identify(cmd))
           \/ (\E v \in {"empty", "some"} : Password(v)) \/ (\E cmd \in Commands : Command(cmd))
           \/ PutsMeta \/ PutsFails \/ ClientLost \/ ClientEndOfFile
  BY <1>1 DEF Ping, Quit, Identify, Password, Command, PutsMeta, PutsFails, ClientLost, ClientEndOfFile
<1>2. CASE LoginReply \/ Reply \/ Changed \/ NewPath \/ PutsStatus \/ PutsOffset
           \/ GetsStatus \/ GetsMeta \/ GetsData
  BY <1>2 DEF LoginReply, Reply, Changed, NewPath, PutsStatus, PutsOffset, GetsStatus, GetsMeta,
              GetsData, ReceivesType, Receives
<1>3. CASE SocketEvent
  BY <1>3 DEF SocketEvent
<1> QED  BY <1>1, <1>2, <1>3 DEF ClientStep

LEMMA Parts ==
  ASSUME NEW S, NEW s \in Seq(S), NEW k \in 1..Len(s), NEW i \in DOMAIN SubSeq(s, k + 1, Len(s))
  PROVE  i + k \in DOMAIN s /\ SubSeq(s, k + 1, Len(s))[i] = s[i + k]
<1>1. Len(s) \in Nat /\ DOMAIN s = 1..Len(s) /\ k + 1 \in 1..(Len(s) + 1) /\ Len(s) \in (k + 1 - 1)..Len(s)
  OBVIOUS
<1>2. /\ DOMAIN SubSeq(s, k + 1, Len(s)) = 1..(Len(s) - k)
      /\ \A j \in 1..(Len(s) - k) : SubSeq(s, k + 1, Len(s))[j] = s[j + k]
  BY <1>1
<1> QED  BY <1>1, <1>2

LEMMA ClientPlain ==
  ASSUME Types, ClientStep
  PROVE  Plainly(down, down')
<1>1. down \in Seq(DownItem)
  BY DEF Types
<1>2. CASE down' = down
  BY <1>2 DEF Plainly
<1>3. CASE down # <<>> /\ down' = Tail(down)
  <2>1. \A i \in DOMAIN down' : i + 1 \in DOMAIN down /\ down'[i] = down[i + 1]
    BY <1>1, <1>3, Behead
  <2> QED  BY <2>1 DEF Plainly
<1>4. CASE \E k \in 1..Len(down) : down' = SubSeq(down, k + 1, Len(down))
  BY <1>1, <1>4, Parts DEF Plainly
<1>5. CASE ReplyPart
  <2>1. PICK rest : rest = [Head(down) EXCEPT !.v = "rest"]
    OBVIOUS
  <2>2. down # <<>> /\ down' = <<rest>> \o Tail(down)
    BY <1>5, <2>1 DEF ReplyPart, Text
  <2>3. Head(down) \in DownItem /\ Head(down).t = "text" /\ Tail(down) \in Seq(DownItem)
    BY <1>5, <2>2, HeadOfDown DEF ReplyPart, Text
  <2>4. rest.v = "rest" /\ rest \in DownItem
    BY <2>1, <2>3 DEF DownItem, Sentences
  <2>5. \A i \in DOMAIN down' : (i = 1 /\ down'[i] = rest) \/ (i \in DOMAIN down /\ down'[i] = down[i])
    <3>1. /\ DOMAIN down' = 1..(1 + Len(Tail(down))) /\ down'[1] = rest
          /\ \A i \in 1..Len(Tail(down)) : down'[1 + i] = Tail(down)[i]
      <4>1. <<rest>> \in Seq(DownItem) /\ Len(<<rest>>) = 1 /\ <<rest>>[1] = rest
        BY <2>4
      <4> QED  BY <2>2, <2>3, <4>1, Joined
    <3>2. /\ Len(Tail(down)) = Len(down) - 1 /\ Len(down) \in Nat \ {0} /\ DOMAIN down = 1..Len(down)
          /\ \A i \in 1..(Len(down) - 1) : Tail(down)[i] = down[i + 1]
      BY <1>1, <2>2, Behead
    <3>3. SUFFICES ASSUME NEW i \in DOMAIN down', i # 1  PROVE i \in DOMAIN down /\ down'[i] = down[i]
      BY <3>1
    <3>4. i - 1 \in 1..(Len(down) - 1) /\ i = 1 + (i - 1) /\ i = (i - 1) + 1 /\ i \in DOMAIN down
      BY <3>1, <3>2, <3>3
    <3> QED  BY <3>1, <3>2, <3>4
  <2> QED  BY <2>4, <2>5 DEF Plainly
<1> QED  BY <1>2, <1>3, <1>4, <1>5, ClientTakes

\* What else of the login the client does.
LEMMA ClientWelcome ==
  ASSUME Types, Welcome, ClientStep
  PROVE  /\ client'.logged => server.logged
         /\ client'.at \in {"password", "login"} => ~ client'.logged
         /\ UNCHANGED <<server, open>> /\ occurred \subseteq occurred'
         /\ "expiry" \in occurred' => "expiry" \in occurred
<1>1. client \in [at : ClientPlaces, cmd : Spoken \cup {"none"}, size : Size, logged : BOOLEAN]
  BY DEF Types
<1>2. ASSUME NEW p, p \notin {"password", "login"}, Goes(p)
      PROVE  (client'.logged => server.logged) /\ client'.at \notin {"password", "login"}
  BY <1>1, <1>2 DEF Goes, Welcome
<1>3. CASE Ping \/ SocketEvent \/ Quit
  BY <1>1, <1>3 DEF Ping, SocketEvent, Quit, Welcome
<1>4. CASE (\E cmd \in {"register", "login"} : Identify(cmd)) \/ (\E v \in {"empty", "some"} : Password(v))
  BY <1>1, <1>4 DEF Identify, Password, Welcome
<1>5. CASE \E cmd \in Commands : Command(cmd)
  <2>1. PICK cmd \in Commands : Command(cmd)
    BY <1>5
  <2>2. \E p \in {"changed", "puts", "getstatus", "reply"} :
          client' = [client EXCEPT !.cmd = cmd, !.at = p]
    BY <2>1 DEF Command
  <2> QED  BY <1>1, <2>1, <2>2 DEF Command, Welcome
<1>6. CASE LoginReply
  <2>1. down # <<>> /\ client' = [client EXCEPT !.at = "prompt", !.logged = Text("success")]
    BY <1>6 DEF LoginReply, Receives
  <2>2. Head(down) = down[1] /\ 1 \in DOMAIN down
    BY <2>1, HeadOfDown
  <2>3. Text("success") => server.logged
    BY <2>2 DEF Text, Welcome
  <2> QED  BY <1>1, <1>6, <2>1, <2>3 DEF LoginReply
<1>7. CASE Reply \/ ReplyPart \/ PutsFails \/ ClientLost
  BY <1>2, <1>7 DEF Reply, ReplyPart, PutsFails, ClientLost
<1>8. CASE Changed \/ NewPath \/ GetsStatus \/ ClientEndOfFile
  <2>1. \E p \in {"path", "prompt", "gone", "final", "meta"} : Goes(p)
    BY <1>8 DEF Changed, NewPath, GetsStatus, ClientEndOfFile
  <2> QED  BY <1>2, <1>8, <2>1 DEF Changed, NewPath, GetsStatus, ClientEndOfFile
<1>9. CASE PutsStatus \/ PutsOffset
  <2>1. \E p \in {"prompt", "final", "offset"} : Goes(p)
    BY <1>9 DEF PutsStatus, PutsOffset
  <2> QED  BY <1>2, <1>9, <2>1 DEF PutsStatus, PutsOffset
<1>10. CASE PutsMeta
  BY <1>1, <1>10 DEF PutsMeta, Welcome
<1>11. CASE GetsMeta
  <2>1. \/ Goes("prompt")
        \/ \E p \in {"final", "data"} : \E k : client' = [client EXCEPT !.size = k, !.at = p]
    BY <1>11 DEF GetsMeta
  <2> QED  BY <1>1, <1>2, <1>11, <2>1 DEF GetsMeta, Welcome
<1>12. CASE GetsData
  <2>1. \E p \in {"prompt", "data"} : \E k : client' = [client EXCEPT !.size = k, !.at = p]
    BY <1>12 DEF GetsData
  <2> QED  BY <1>1, <1>12, <2>1 DEF GetsData, Welcome
<1> QED
  BY <1>3, <1>4, <1>5, <1>6, <1>7, <1>8, <1>9, <1>10, <1>11, <1>12 DEF ClientStep

LEMMA WelcomeKept ==
  ASSUME Types, Welcome, [Next]_vars
  PROVE  Welcome'
<1>1. /\ client \in [at : ClientPlaces, cmd : Spoken \cup {"none"}, size : Size, logged : BOOLEAN]
      /\ server \in [at : ServerPlaces, cmd : Spoken \cup {"none"}, of : Nat, size : Size,
                     logged : BOOLEAN]
  BY DEF Types
<1>2. CASE UNCHANGED vars
  BY <1>2 DEF vars, Welcome
<1>3. CASE ClientStep
  <2>1. \A i \in DOMAIN down' : down'[i].t = "text" /\ down'[i].v = "success" => server'.logged
    BY <1>3, ClientPlain, ClientWelcome DEF Plainly, Welcome
  <2> QED  BY <1>3, <2>1, ClientWelcome DEF Welcome
<1>4. ASSUME UNCHANGED <<client, open>>, occurred \subseteq occurred', Plainly(down, down'),
             server.logged = server'.logged,
             server'.at \in {"meta", "data"} => server.logged,
             server'.at = "password" => ~ server.logged
      PROVE  Welcome'
  <2>1. \A i \in DOMAIN down' : down'[i].t = "text" /\ down'[i].v = "success" => server'.logged
    BY <1>4 DEF Plainly, Welcome
  <2> QED  BY <1>4, <2>1 DEF Welcome
<1>5. ASSUME NEW p \in ServerPlaces, p \notin {"meta", "data", "password"}, Awaits(p),
             UNCHANGED <<client, open>>, occurred \subseteq occurred', Plainly(down, down')
      PROVE  Welcome'
  <2>1. server'.at = p /\ server'.logged = server.logged
    BY <1>1, <1>5 DEF Awaits
  <2> QED  BY <1>4, <1>5, <2>1
<1>6. {"cmd", "name", "run", "closed", "lost"} \subseteq ServerPlaces
  BY DEF ServerPlaces, ServerWaits
<1>7. CASE ReceiveCommand
  <2>1. server' = server \/ \E p \in {"run", "name"} :
          server' = [server EXCEPT !.cmd = Head(up).v, !.of = Head(up).of, !.at = p]
    BY <1>7 DEF ReceiveCommand
  <2>2. UNCHANGED <<client, open, occurred>> /\ Plainly(down, down') /\ server.at = "cmd"
    BY <1>7 DEF ReceiveCommand, Plainly, Takes
  <2> QED  BY <1>1, <1>4, <2>1, <2>2
<1>8. CASE ReceiveName
  <2>1. UNCHANGED <<client, open, occurred>> /\ Plainly(down, down')
    BY <1>8 DEF ReceiveName, Plainly
  <2>2. \/ ~ server.logged /\ Awaits("password")
        \/ server.logged /\ \E p \in {"meta", "run"} : Awaits(p)
    BY <1>8 DEF ReceiveName
  <2> QED  BY <1>1, <1>4, <2>1, <2>2 DEF Awaits
<1>9. CASE HandleUser
  <2>1. UNCHANGED <<client, open, occurred>> /\ server.at = "password" /\ ~ server.logged
    BY <1>9 DEF HandleUser, Takes, Welcome
  <2>2. CASE Awaits("cmd") /\ down' = down
    BY <1>5, <1>6, <2>1, <2>2 DEF Plainly
  <2>3. ASSUME NEW v \in {"success", "refused", "norootdir"}, Answers(<<<<"text", v>>>>),
               server' = [server EXCEPT !.at = "cmd", !.logged = v = "success"]
        PROVE  Welcome'
    <3>1. server'.at = "cmd" /\ (server'.logged <=> v = "success") /\ v \in Sentences
      BY <1>1, <2>3 DEF Sentences
    <3>2. \A i \in DOMAIN down' : down'[i].t = "text" /\ down'[i].v = "success" => server'.logged
      BY <2>1, <2>3, <3>1, Shown
    <3> QED  BY <2>1, <3>1, <3>2 DEF Welcome
  <2> QED  BY <1>9, <2>2, <2>3 DEF HandleUser
<1>10. CASE List \/ Pwd \/ Change \/ Cd \/ SendContent
  <2>1. Awaits("cmd") /\ UNCHANGED <<client, open>> /\ occurred \subseteq occurred'
    <3>1. CASE List \/ Pwd \/ Change
      BY <3>1 DEF List, Pwd, Change
    <3>2. CASE Cd
      BY <3>2 DEF Cd, Faults
    <3>3. CASE SendContent
      BY <3>3 DEF SendContent, Faults
    <3> QED  BY <1>10, <3>1, <3>2, <3>3
  <2> QED  BY <1>5, <1>6, <1>10, <2>1, PlainAnswers
<1>11. CASE AnswerPuts
  <2>1. UNCHANGED <<client, open>> /\ occurred \subseteq occurred' /\ server.at = "meta"
    BY <1>11 DEF AnswerPuts, Takes, Faults
  <2>2. Awaits("cmd") \/ \E m : server' = [server EXCEPT !.at = "data", !.size = m]
    BY <1>11 DEF AnswerPuts
  <2>3. CASE Awaits("cmd")
    BY <1>5, <1>6, <1>11, <2>1, <2>3, PlainAnswers
  <2>4. CASE \E m : server' = [server EXCEPT !.at = "data", !.size = m]
    <3>1. server'.at = "data" /\ server'.logged = server.logged
      BY <1>1, <2>4
    <3> QED  BY <1>4, <1>11, <2>1, <3>1, PlainAnswers DEF Welcome
  <2> QED  BY <2>2, <2>3, <2>4
<1>12. CASE ReceiveData
  <2>1. UNCHANGED <<client, open>> /\ occurred \subseteq occurred' /\ server.at = "data"
    BY <1>12 DEF ReceiveData, Takes, Faults
  <2>2. Awaits("cmd") \/ server' = [server EXCEPT !.size = @ - 1]
    BY <1>12 DEF ReceiveData
  <2> QED  BY <1>1, <1>4, <1>5, <1>6, <1>12, <2>1, <2>2, PlainAnswers DEF Welcome
<1>13. CASE FinishPuts
  <2>1. server.logged /\ Awaits("cmd") /\ UNCHANGED <<client, open, occurred>>
        /\ Answers(<<<<"text", "success">>>>)
    BY <1>13 DEF FinishPuts, Welcome
  <2>2. server'.at = "cmd" /\ server'.logged = server.logged /\ "success" \in Sentences
    BY <1>1, <2>1 DEF Awaits, Sentences
  <2>3. \A i \in DOMAIN down' : down'[i].t = "text" /\ down'[i].v = "success" => server'.logged
    BY <2>1, <2>2, Shown
  <2> QED  BY <2>1, <2>2, <2>3 DEF Welcome
<1>14. CASE AnswerGets
  <2>1. UNCHANGED <<client, open>> /\ occurred \subseteq occurred'
    BY <1>14 DEF AnswerGets, Faults
  <2>2. Awaits("cmd") \/ \E m : server' = [server EXCEPT !.at = "offset", !.size = m]
    BY <1>14 DEF AnswerGets
  <2> QED  BY <1>1, <1>4, <1>5, <1>6, <1>14, <2>1, <2>2, PlainAnswers
<1>15. CASE ServerLost \/ ServerEndOfFile
  BY <1>5, <1>6, <1>15 DEF ServerLost, ServerEndOfFile, Plainly
<1>16. CASE Expire
  <2>1. Plainly(down, down')
    <3>1. PICK x : x = Item("notice", "notice", 0)
      OBVIOUS
    <3>2. down' = Append(down, x) /\ x.t = "notice" /\ x \in DownItem /\ down \in Seq(DownItem)
      BY <1>16, <3>1 DEF Expire, Item, DownItem, Types
    <3>3. /\ DOMAIN down' = 1..(Len(down) + 1) /\ DOMAIN down = 1..Len(down) /\ Len(down) \in Nat
          /\ \A i \in 1..Len(down) : down'[i] = down[i]
          /\ down'[Len(down) + 1] = x
      BY <3>2, Appended
    <3>4. \A i \in DOMAIN down' : i \in DOMAIN down \/ i = Len(down) + 1
      BY <3>3
    <3> QED  BY <3>2, <3>3, <3>4 DEF Plainly
  <2>2. UNCHANGED <<client, server>> /\ "expiry" \in occurred'
    BY <1>16 DEF Expire, Faults
  <2>3. \A i \in DOMAIN down' : down'[i].t = "text" /\ down'[i].v = "success" => server'.logged
    BY <2>1, <2>2 DEF Plainly, Welcome
  <2> QED  BY <2>2, <2>3 DEF Welcome
<1> QED
  BY <1>2, <1>3, <1>7, <1>8, <1>9, <1>10, <1>11, <1>12, <1>13, <1>14, <1>15, <1>16
  DEF Next, ServerStep

\* No password is on its way.
Names(s) == \A i \in DOMAIN s : s[i].t \in {"cmd", "name"} /\ s[i].v \in Identifying \cup {"ping"}

LEMMA NamesGrow ==
  ASSUME NEW s \in Seq(UpItem), Names(s), NEW x \in UpItem,
         x.t \in {"cmd", "name"}, x.v \in Identifying \cup {"ping"}
  PROVE  Append(s, x) \in Seq(UpItem) /\ Names(Append(s, x))
<1>1. /\ Append(s, x) \in Seq(UpItem) /\ DOMAIN Append(s, x) = 1..(Len(s) + 1)
      /\ \A i \in 1..Len(s) : Append(s, x)[i] = s[i]
      /\ Append(s, x)[Len(s) + 1] = x /\ DOMAIN s = 1..Len(s) /\ Len(s) \in Nat
  BY Appended
<1>2. \A i \in DOMAIN Append(s, x) : i \in DOMAIN s \/ i = Len(s) + 1
  BY <1>1
<1> QED  BY <1>1, <1>2 DEF Names

LEMMA KnockingNames ==
  ASSUME Knocking, client.at # "login" \/ down # <<>>
  PROVE  Names(up)
  BY DEF Knocking, Names

\* The client knocks.
LEMMA ClientKnocks ==
  ASSUME Types, Welcome, Entering, ClientStep, Outside'
  PROVE  Knocking'
<1>1. /\ client \in [at : ClientPlaces, cmd : Spoken \cup {"none"}, size : Size, logged : BOOLEAN]
      /\ up \in Seq(UpItem) /\ down \in Seq(DownItem) /\ Len(down) \in Nat /\ n \in Nat
  BY DEF Types
<1>2. server' = server /\ "expiry" \notin occurred
  BY ClientWelcome DEF Outside
<1>3. client.at # "gone" /\ (client.logged => client'.logged)
  <2>1. CASE Ping \/ SocketEvent \/ Quit \/ (\E cmd \in {"register", "login"} : Identify(cmd))
             \/ (\E v \in {"empty", "some"} : Password(v))
    BY <1>1, <2>1 DEF Ping, SocketEvent, Quit, Identify, Password
  <2>2. CASE \E cmd \in Commands : Command(cmd)
    BY <1>1, <2>2 DEF Command
  <2>3. CASE LoginReply
    BY <2>3 DEF LoginReply, Receives, Welcome
  <2>4. CASE Reply \/ ReplyPart \/ Changed \/ NewPath \/ PutsFails \/ PutsStatus \/ PutsOffset
             \/ GetsStatus \/ ClientLost \/ ClientEndOfFile
    <3>1. client.at # "gone"
      BY <2>4 DEF Reply, ReplyPart, Changed, NewPath, PutsFails, PutsStatus, PutsOffset, GetsStatus,
                 ClientLost, ClientEndOfFile, Receives, ReceivesType, ClientWaits, ExactPlaces, LoosePlaces
    <3>2. \E p : Goes(p)
      BY <2>4 DEF Reply, ReplyPart, Changed, NewPath, PutsFails, PutsStatus, PutsOffset, GetsStatus,
                 ClientLost, ClientEndOfFile
    <3> QED  BY <1>1, <3>1, <3>2 DEF Goes
  <2>5. CASE PutsMeta \/ GetsData
    BY <1>1, <2>5 DEF PutsMeta, GetsData, Receives, ReceivesType
  <2>6. CASE GetsMeta
    BY <1>1, <2>6 DEF GetsMeta, Goes, Receives, ReceivesType
  <2> QED  BY <2>1, <2>2, <2>3, <2>4, <2>5, <2>6 DEF ClientStep
<1>4. Knocking /\ ~ client.logged
  BY <1>2, <1>3 DEF Outside, Entering
<1>5. client.at \in {"prompt", "select", "password", "login"}
  BY <1>4 DEF Knocking
<1>6. client.at # "login" => down = <<>> /\ Names(up) /\ ~ server.logged
  BY <1>4, KnockingNames DEF Knocking
<1>7. ASSUME Names(up'), down' = <<>>, ~ server.logged, client'.at \in {"prompt", "select", "password"}
      PROVE  Knocking'
  BY <1>2, <1>4, <1>7 DEF Knocking, Names
<1>8. CASE Ping
  <2>1. PICK x : x = Up("cmd", "ping")
    OBVIOUS
  <2>2. x \in UpItem /\ x.t = "cmd" /\ x.v = "ping"
    BY <1>1, <2>1 DEF Up, Item, UpItem, Spoken
  <2>3. up' = Append(up, x) /\ down' = down /\ client'.at = "select" /\ client.at # "login"
    BY <1>1, <1>8, <2>1 DEF Ping
  <2> QED  BY <1>1, <1>6, <1>7, <2>2, <2>3, NamesGrow
<1>9. CASE SocketEvent
  <2>1. down = <<>> /\ Len(down) = 0
    BY <1>6, <1>9 DEF SocketEvent
  <2>2. client'.at = "gone"
    BY <1>1, <1>9, <2>1 DEF SocketEvent
  <2> QED  BY <2>2 DEF Outside
<1>10. CASE Quit
  BY <1>1, <1>10 DEF Quit, Outside
<1>11. ASSUME NEW cmd \in {"register", "login"}, Identify(cmd)  PROVE Knocking'
  <2>1. PICK x : x = Item("cmd", cmd, n + 1)
    OBVIOUS
  <2>2. PICK y : y = Item("name", cmd, n + 1)
    OBVIOUS
  <2>3. /\ x \in UpItem /\ x.t = "cmd" /\ x.v = cmd /\ y \in UpItem /\ y.t = "name" /\ y.v = cmd
        /\ cmd \in Identifying
    BY <1>1, <2>1, <2>2 DEF Item, UpItem, Spoken, Identifying
  <2>4. up' = up \o <<x, y>> /\ up \o <<x, y>> = Append(Append(up, x), y)
    BY <1>1, <1>11, <2>1, <2>2, <2>3 DEF Identify
  <2>5. Names(up')
    <3>1. client.at # "login"
      BY <1>11 DEF Identify
    <3>2. Append(up, x) \in Seq(UpItem) /\ Names(Append(up, x))
      BY <1>1, <1>6, <2>3, <3>1, NamesGrow
    <3> QED  BY <2>3, <2>4, <3>2, NamesGrow
  <2> QED  BY <1>1, <1>6, <1>7, <1>11, <2>5 DEF Identify
<1>12. ASSUME NEW v \in {"empty", "some"}, Password(v)  PROVE Knocking'
  <2>1. PICK x : x = Up("password", v)
    OBVIOUS
  <2>2. x \in UpItem /\ x.t = "password"
    BY <1>1, <2>1 DEF Up, Item, UpItem
  <2>3. /\ up' = Append(up, x) /\ down' = down /\ client'.at = "login" /\ client.at # "login"
    BY <1>1, <1>12, <2>1 DEF Password
  <2>4. /\ DOMAIN up' = 1..(Len(up) + 1) /\ Len(up') = Len(up) + 1
        /\ \A i \in 1..Len(up) : up'[i] = up[i]
        /\ up'[Len(up) + 1] = x /\ DOMAIN up = 1..Len(up) /\ Len(up) \in Nat
    BY <1>1, <2>2, <2>3, Appended
  <2>5. \A i \in DOMAIN up' :
          /\ up'[i].t \in {"cmd", "name", "password"}
          /\ up'[i].t # "password" => up'[i].v \in Identifying \cup {"ping"}
          /\ up'[i].t = "password" => i = Len(up')
    <3>1. \A i \in DOMAIN up' : i \in DOMAIN up \/ i = Len(up) + 1
      BY <2>4
    <3> QED  BY <1>6, <2>2, <2>3, <2>4, <3>1 DEF Names
  <2>6. Len(down') = 0
    BY <1>6, <2>3
  <2> QED  BY <1>2, <1>4, <1>6, <2>3, <2>5, <2>6 DEF Knocking
<1>13. CASE \E cmd \in Commands : Command(cmd)
  BY <1>4, <1>13 DEF Command
<1>14. CASE LoginReply
  <2>1. /\ client.at = "login" /\ down # <<>> /\ down' = Tail(down) /\ up' = up
        /\ client'.at = "prompt" /\ (client'.logged <=> Text("success"))
    BY <1>1, <1>14 DEF LoginReply, Receives, Text
  <2>2. ~ server.logged
    BY <1>4, <2>1 DEF Outside, Knocking
  <2>3. Len(down) = 1
    <3>1. Len(down) <= 1
      BY <1>4, <2>1 DEF Knocking
    <3>2. Len(down) \in Nat /\ Len(down) # 0
      BY <1>1, <2>1
    <3> QED  BY <3>1, <3>2
  <2>4. down' = <<>>
    BY <1>1, <2>1, <2>3
  <2> QED  BY <1>4, <1>7, <2>1, <2>2, <2>4, KnockingNames
<1>15. CASE Reply \/ ReplyPart \/ Changed \/ NewPath \/ PutsMeta \/ PutsFails \/ PutsStatus
            \/ PutsOffset \/ GetsStatus \/ GetsMeta \/ GetsData \/ ClientLost
  <2>1. client.at \notin {"prompt", "select", "password", "login"}
    BY <1>15 DEF Reply, ReplyPart, Changed, NewPath, PutsMeta, PutsFails, PutsStatus, PutsOffset,
               GetsStatus, GetsMeta, GetsData, ClientLost, Receives, ReceivesType, ExactPlaces
  <2> QED  BY <1>5, <2>1
<1>16. CASE ClientEndOfFile
  BY <1>4, <1>16 DEF ClientEndOfFile, Knocking
<1> QED
  BY <1>8, <1>9, <1>10, <1>11, <1>12, <1>13, <1>14, <1>15, <1>16 DEF ClientStep

\* The worker answers.
LEMMA WorkerAnswersKnock ==
  ASSUME Types, Welcome, Entering, ServerStep, Outside'
  PROVE  Knocking'
<1>1. /\ server \in [at : ServerPlaces, cmd : Spoken \cup {"none"}, of : Nat, size : Size,
                     logged : BOOLEAN]
      /\ up \in Seq(UpItem) /\ down \in Seq(DownItem)
  BY DEF Types
<1>2. client' = client /\ occurred \subseteq occurred'
  BY DEF ServerStep, ReceiveCommand, ReceiveName, HandleUser, List, Pwd, Cd, Change, AnswerPuts,
         ReceiveData, FinishPuts, AnswerGets, SendContent, ServerLost, ServerEndOfFile, Faults
<1>3. Knocking /\ "expiry" \notin occurred /\ client.at # "gone"
  BY <1>2 DEF Outside, Entering
<1>4. open
  BY <1>3 DEF Welcome
<1>5. server.at \in {"cmd", "name", "password", "lost"}
  BY <1>3 DEF Knocking
<1>6. ASSUME up # <<>>, up' = Tail(up), down' = down, server'.at \in {"cmd", "name", "password"},
             server'.logged = server.logged
      PROVE  Knocking'
  <2>1. ~ server.logged
    BY <1>3, <1>6 DEF Knocking
  <2>2. /\ Len(up') = Len(up) - 1 /\ DOMAIN up' = 1..(Len(up) - 1) /\ DOMAIN up = 1..Len(up)
        /\ Len(up) \in Nat \ {0} /\ \A i \in 1..(Len(up) - 1) : up'[i] = up[i + 1]
    BY <1>1, <1>6, Behead
  <2>3. \A i \in DOMAIN up' : i + 1 \in DOMAIN up /\ up'[i] = up[i + 1] /\ (i + 1 = Len(up) => i = Len(up'))
    BY <2>2
  <2>4. \A i \in DOMAIN up' :
           /\ up'[i].t \in {"cmd", "name", "password"}
           /\ up'[i].t # "password" => up'[i].v \in Identifying \cup {"ping"}
           /\ up'[i].t = "password" => i = Len(up') /\ client.at = "login" /\ down = <<>>
    BY <1>3, <2>3 DEF Knocking
  <2>5. client.at \in {"prompt", "select", "password", "login"} /\ (client.at # "login" => down = <<>>)
        /\ (client.at = "login" => Len(down) <= 1)
    BY <1>3 DEF Knocking
  <2> QED  BY <1>2, <1>6, <2>1, <2>4, <2>5 DEF Knocking
<1>7. CASE ReceiveCommand
  <2>1. up # <<>> /\ Head(up) = up[1] /\ up' = Tail(up) /\ up[1].t = "cmd" /\ down' = down /\ 1 \in DOMAIN up
    BY <1>7, HeadOfUp DEF ReceiveCommand, Takes
  <2>2. up[1].v \in Identifying \cup {"ping"}
    BY <1>3, <2>1 DEF Knocking
  <2>3. server' = server \/ server' = [server EXCEPT !.cmd = Head(up).v, !.of = Head(up).of, !.at = "name"]
    BY <1>7, <2>1, <2>2 DEF ReceiveCommand, Identifying
  <2>4. server'.at \in {"cmd", "name"} /\ server'.logged = server.logged
    BY <1>1, <1>7, <2>3 DEF ReceiveCommand, Takes
  <2> QED  BY <1>6, <2>1, <2>4
<1>8. CASE ReceiveName
  <2>1. up # <<>> /\ up' = Tail(up) /\ down' = down
    BY <1>8 DEF ReceiveName, Takes
  <2>2. ~ server.logged
    BY <1>3, <2>1 DEF Knocking
  <2>3. Awaits("password")
    BY <1>8, <2>2 DEF ReceiveName
  <2> QED  BY <1>1, <1>6, <2>1, <2>3 DEF Awaits
<1>9. CASE HandleUser
  <2>1. up # <<>> /\ up[1].t = "password" /\ up' = Tail(up) /\ 1 \in DOMAIN up
    BY <1>9, HeadOfUp DEF HandleUser, Takes
  <2>2. client.at = "login" /\ down = <<>> /\ Len(up) = 1 /\ ~ server.logged
    BY <1>3, <2>1 DEF Knocking
  <2>3. up' = <<>> /\ Len(down) = 0 /\ DOMAIN up' = {}
    BY <1>1, <2>1, <2>2
  <2>4. CASE Awaits("cmd") /\ down' = down
    <3>1. server'.at = "cmd" /\ server'.logged = server.logged
      BY <1>1, <2>4 DEF Awaits
    <3> QED  BY <1>6, <2>1, <2>4, <3>1
  <2>5. ASSUME NEW v \in {"success", "refused", "norootdir"}, Answers(<<<<"text", v>>>>),
               server' = [server EXCEPT !.at = "cmd", !.logged = v = "success"]
        PROVE  Knocking'
    <3>1. server'.at = "cmd" /\ (server'.logged <=> v = "success") /\ v \in Sentences
      BY <1>1, <2>5 DEF Sentences
    <3>2. Adds(1) /\ down'[Len(down) + 1] = Item("text", v, server.of)
      BY <1>4, <2>5, <3>1, Said
    <3>3. down' \in Seq(DownItem) /\ Len(down') = 1 /\ down'[1] = Item("text", v, server.of)
      BY <1>4, <2>3, <3>2 DEF Adds
    <3>4. down' # <<>> /\ Head(down').t = "text" /\ Head(down').v = v
      <4>1. PICK y \in DownItem : y = Item("text", v, server.of)
        BY <3>1, Sayings
      <4>2. y.t = "text" /\ y.v = v
        BY <4>1 DEF Item
      <4>3. Len(down') = 1 /\ down'[1] = y /\ down' \in Seq(DownItem)
        BY <3>3, <4>1
      <4> QED  BY <4>2, <4>3
    <3>5. Text("success")' <=> v = "success"
      BY <3>4 DEF Text
    <3>6. client'.at = "login" /\ Len(down') <= 1
      BY <1>2, <2>2, <3>3
    <3> QED  BY <2>3, <3>1, <3>5, <3>6 DEF Knocking
  <2> QED  BY <1>9, <2>4, <2>5 DEF HandleUser
<1>10. CASE List \/ Pwd \/ Cd \/ Change \/ AnswerPuts \/ ReceiveData \/ FinishPuts \/ AnswerGets \/ SendContent
  <2>1. server.at \in {"run", "meta", "data", "offset"}
    BY <1>10 DEF List, Pwd, Cd, Change, AnswerPuts, ReceiveData, FinishPuts, AnswerGets, SendContent,
                Runs, Takes
  <2> QED  BY <1>5, <2>1
<1>11. CASE ServerLost
  <2>1. up # <<>> /\ UNCHANGED <<up, down>> /\ Awaits("lost")
    BY <1>11 DEF ServerLost
  <2>2. ~ server.logged
    BY <1>3, <2>1 DEF Knocking
  <2>3. server'.at = "lost" /\ server'.logged = server.logged
    BY <1>1, <2>1 DEF Awaits
  <2> QED  BY <1>2, <1>3, <2>1, <2>2, <2>3 DEF Knocking
<1>12. CASE ServerEndOfFile
  BY <1>3, <1>4, <1>12 DEF ServerEndOfFile
<1> QED
  BY <1>7, <1>8, <1>9, <1>10, <1>11, <1>12 DEF ServerStep

LEMMA EnteringAlways == Spec => [](Types /\ Welcome /\ Entering)
<1>1. Init => Welcome /\ Entering
  BY DEF Init, Welcome, Entering, Outside, Knocking
<1>2. ASSUME Types, Welcome, Entering, [Next]_vars  PROVE Entering'
  <2>1. CASE UNCHANGED vars
    BY <1>2, <2>1 DEF vars, Entering, Outside, Knocking, Text
  <2>2. CASE Expire
    BY <2>2 DEF Expire, Faults, Entering, Outside
  <2> QED  BY <1>2, <2>1, <2>2, ClientKnocks, WorkerAnswersKnock DEF Next, Entering
<1> QED  BY <1>1, <1>2, WelcomeKept, TypesAlways, PTL DEF Spec

\* Both have the same idea of whether the user is logged in whenever the client
\* is at its prompt and the worker waits for a command, and no place, size,
\* number or fault is one the other side does not know: a command is never
\* read as an account (client/main.c:137, handle_cmd.c:45, 70, 79).
THEOREM SidesAgreeAlways == Spec => []SidesAgree
<1>1. Types /\ Welcome /\ Entering => SidesAgree
  <2> SUFFICES ASSUME Types, Welcome, Entering  PROVE SidesAgree
    OBVIOUS
  <2>1. TypeOK
    BY DEF Types, TypeOK, ClientPlaces, ServerPlaces, Size
  <2>2. SameLogin
    <3> SUFFICES ASSUME client.at \in {"prompt", "select"}, server.at = "cmd", "expiry" \notin occurred
                 PROVE  client.logged = server.logged
      BY DEF SameLogin
    <3>1. client.logged \in BOOLEAN /\ server.logged \in BOOLEAN
      BY DEF Types
    <3>2. client.logged => server.logged
      BY DEF Welcome
    <3>3. ~ client.logged => ~ server.logged
      BY DEF Entering, Outside, Knocking
    <3> QED  BY <3>1, <3>2, <3>3
  <2> QED  BY <2>1, <2>2 DEF SidesAgree
<1> QED  BY <1>1, EnteringAlways, PTL

-----------------------------------------------------------------------------
(* Both streams, as long as the client can read and write its own files.   *)

\* The type of the item that has to follow x on the stream of the client.
After(x) ==
  IF x.t = "cmd" /\ x.v \notin {"ping", "pwd", "ls"} THEN "name"
  ELSE IF x.t = "name" /\ x.v \in Identifying THEN "password"
  ELSE IF x.t = "name" /\ x.v = "puts" THEN "meta"
  ELSE IF x.t = "name" /\ x.v = "gets" THEN "offset"
  ELSE "cmd"

\* The type the worker will take item i of the stream u for.
First == IF server.at \in {"data", "run"} THEN "cmd" ELSE server.at
Due(u, i) == IF server.at = "data" /\ i <= server.size THEN "data"
             ELSE IF i > 1 THEN After(u[i - 1]) ELSE First
End(u) == Due(u, Len(u) + 1)

\* A name belongs to the command before it, and is no account once logged in.
Named(u, i) == /\ u[i].v = IF i = 1 THEN server.cmd ELSE u[i - 1].v
               /\ u[i].v \in Identifying \/ server.logged
Fits(u) == \A i \in DOMAIN u : u[i].t = Due(u, i) /\ (u[i].t = "name" => Named(u, i))

\* Blocks nobody receives any more; a name of an account where nobody asks for
\* one.  In either case, or closed, the worker is past what the client sends.
Garbage == server.at = "cmd" /\ up # <<>> /\ up[1].t = "data"
Mismatched == server.at = "run" /\ server.cmd \in Identifying
Alive == server.at \notin {"closed", "lost"} /\ ~ Garbage /\ ~ Mismatched

\* After these the client says no more until it is answered.
Closing ==
  \A i \in DOMAIN up :
    /\ up[i].t = "name" /\ up[i].v = "gets" => i = Len(up) /\ client.at \in {"getstatus", "lost"}
    /\ up[i].t = "meta" => /\ i = Len(up) /\ client.at \in {"status", "lost"}
                           /\ client.at = "status" => up[i].v = client.size

Asking == server.at = "run" /\ server.cmd = "gets" => up = <<>> /\ client.at \in {"getstatus", "lost"}

Ordinary == {"prompt", "select", "login", "reply", "changed", "path", "final", "data"}
Turn ==
  /\ client.at \in Ordinary => End(up) = "cmd"
  /\ client.at = "password" => End(up) = "password"
  /\ client.at = "puts" => End(up) = "meta"

Orderly == Alive => Fits(up) /\ End(up) # "name" /\ Closing /\ Asking /\ Turn

Soft(x) == x.t \in {"text", "notice"}
SoftAfter(k) == \A i \in DOMAIN down : i > k => Soft(down[i])
QuietAfter(k) == \A i \in DOMAIN down : i > k => down[i].t = "notice"

\* The offset of an upload is item i of the answer.
Going(i) ==
  /\ i \in DOMAIN down /\ down[i].t = "offset" /\ up = <<>> /\ SoftAfter(i + 1)
  /\ down[i].v <= client.size
  /\ Alive => \/ server.at = "data" /\ server.size = client.size - down[i].v
              \/ /\ server.at = "cmd" /\ (open => Len(down) > i)
                 /\ down[i].v = client.size \/ "open" \in occurred

\* The size of a download is.
Offered(i) ==
  /\ i \in DOMAIN down /\ down[i].t = "meta" /\ up = <<>> /\ QuietAfter(i)
  /\ Alive => server.at = "offset" /\ server.size = down[i].v

Hopeful == down # <<>> /\ ~ Soft(down[1])

StatusOfPuts ==
  /\ down = <<>> /\ open /\ Alive => up # <<>> /\ up[Len(up)].t = "meta"
  /\ Hopeful => /\ down[1].t = "status" /\ up = <<>>
                /\ down[1].v \in {"error", "seccomp", "go"}
                /\ down[1].v = "go" => Going(2)
                /\ down[1].v = "error" => Len(down) >= 2
                /\ down[1].v # "go" => SoftAfter(1) /\ (Alive => server.at = "cmd")

StatusOfGets ==
  /\ down = <<>> /\ open /\ Alive =>
       \/ up # <<>> /\ up[Len(up)].t = "name" /\ up[Len(up)].v = "gets"
       \/ server.at = "run" /\ server.cmd = "gets"
  /\ Hopeful => /\ down[1].t = "status" /\ up = <<>>
                /\ down[1].v \in {"notfound", "ok"}
                /\ down[1].v = "ok" => Offered(2)
                /\ down[1].v = "notfound" => /\ SoftAfter(1) /\ (Alive => server.at = "cmd")
                                             /\ Len(down) >= 2 \/ "mute" \in occurred

Answered ==
  /\ client.at \in {"prompt", "select", "password", "puts", "login", "reply", "changed", "path"} =>
       SoftAfter(0)
  /\ client.at = "final" => SoftAfter(1)
  /\ client.at = "status" => StatusOfPuts
  /\ client.at = "offset" => Going(1)
  /\ client.at = "getstatus" => StatusOfGets
  /\ client.at = "meta" => Offered(1)
  /\ client.at = "data" =>
       \A i \in DOMAIN down : Soft(down[i]) \/ (down[i].t = "data" /\ i <= client.size)

\* While the worker waits for an offset the client has not asked yet, or its
\* question is all there is.
Fetching ==
  Alive /\ open /\ server.at = "offset" =>
    \/ up = <<>> /\ client.at \in {"getstatus", "meta", "lost"}
    \/ /\ up # <<>> /\ client.at \in {"data", "final"} /\ down = <<>>
       /\ up[1].v = server.size - (IF client.at = "data" THEN client.size ELSE 0)

Blocked == server.at = "lost" \/ Garbage => occurred \cap {"open", "write"} # {}

\* A notice is the last the worker says.
Notices == \A i \in DOMAIN down : down[i].t = "notice" => ~ open

Streams == Orderly /\ Answered /\ Fetching /\ Blocked
Talk == occurred \cap {"local", "input"} = {} => Streams

\* What follows an item is never a block.
LEMMA AfterIs ==
  ASSUME NEW x
  PROVE  After(x) \in {"name", "password", "meta", "offset", "cmd"}
  BY DEF After

\* The client goes on with what is due.
LEMMA Extend ==
  ASSUME Types, NEW u \in Seq(UpItem), Fits(u), NEW x \in UpItem, x.t = End(u), x.t # "data",
         x.t = "name" => /\ x.v = IF Len(u) = 0 THEN server.cmd ELSE u[Len(u)].v
                         /\ x.v \in Identifying \/ server.logged
  PROVE  /\ Append(u, x) \in Seq(UpItem) /\ Fits(Append(u, x)) /\ End(Append(u, x)) = After(x)
         /\ Len(Append(u, x)) = Len(u) + 1
<1> DEFINE w == Append(u, x)
<1>1. /\ w \in Seq(UpItem) /\ Len(w) = Len(u) + 1 /\ DOMAIN w = 1..(Len(u) + 1) /\ Len(u) \in Nat
      /\ \A i \in 1..Len(u) : w[i] = u[i]
      /\ w[Len(u) + 1] = x /\ DOMAIN u = 1..Len(u)
  BY Appended
<1> HIDE DEF w
<1>2. server.size \in Nat
  BY BoundsNat DEF Types, Size
<1>3. ASSUME NEW i \in 1..(Len(u) + 1)  PROVE Due(w, i) = Due(u, i)
  <2>1. i > 1 => w[i - 1] = u[i - 1]
    <3>1. i > 1 => i - 1 \in 1..Len(u)
      BY <1>1
    <3> QED  BY <1>1, <3>1
  <2> QED  BY <2>1 DEF Due
<1>4. Fits(w)
  <2> SUFFICES ASSUME NEW i \in DOMAIN w
               PROVE  w[i].t = Due(w, i) /\ (w[i].t = "name" => Named(w, i))
    BY DEF Fits
  <2>1. CASE i \in 1..Len(u)
    <3>1. i > 1 => w[i - 1] = u[i - 1]
      <4>1. i > 1 => i - 1 \in 1..Len(u)
        BY <1>1, <2>1
      <4> QED  BY <1>1, <4>1
    <3> QED  BY <1>1, <1>3, <2>1, <3>1 DEF Fits, Named
  <2>2. CASE i = Len(u) + 1
    <3>1. w[i] = x /\ Due(w, i) = End(u)
      BY <1>1, <1>3, <2>2 DEF End
    <3>2. i # 1 => i - 1 = Len(u) /\ Len(u) # 0 /\ w[i - 1] = u[Len(u)]
      BY <1>1, <2>2
    <3>3. i = 1 => Len(u) = 0
      BY <1>1, <2>2
    <3> QED  BY <3>1, <3>2, <3>3 DEF Named
  <2> QED  BY <1>1, <2>1, <2>2
<1>5. End(w) = After(x)
  <2>1. ~ (server.at = "data" /\ Len(u) + 1 <= server.size)
    BY DEF End, Due
  <2>2. ~ (server.at = "data" /\ Len(w) + 1 <= server.size)
    BY <1>1, <1>2, <2>1
  <2>3. Len(w) + 1 > 1 /\ w[(Len(w) + 1) - 1] = x
    BY <1>1
  <2> QED  BY <2>2, <2>3 DEF End, Due
<1> QED  BY <1>1, <1>4, <1>5 DEF w

\* The worker takes the first item and expects what has to follow it.
LEMMA Shift ==
  ASSUME Types, up # <<>>, up' = Tail(up), Fits(up), First' = After(up[1]),
         \A i \in Nat \ {0} : server'.at = "data" /\ i <= server'.size <=> server.at = "data" /\ i + 1 <= server.size,
         server.logged => server'.logged,
         2 \in DOMAIN up /\ up[2].t = "name" => server'.cmd = up[1].v
  PROVE  Fits(up)' /\ End(up)' = End(up)
<1>1. /\ up' \in Seq(UpItem) /\ Len(up') = Len(up) - 1 /\ Len(up) \in Nat \ {0}
      /\ DOMAIN up' = 1..(Len(up) - 1) /\ DOMAIN up = 1..Len(up)
      /\ \A i \in 1..(Len(up) - 1) : up'[i] = up[i + 1]
  BY Behead DEF Types
<1>2. ASSUME NEW i \in 1..Len(up)  PROVE Due(up, i)' = Due(up, i + 1)
  <2>1. i \in Nat \ {0} /\ i + 1 > 1 /\ (i + 1) - 1 = i
    BY <1>1
  <2>2. i > 1 => up'[i - 1] = up[i]
    <3>1. i > 1 => i - 1 \in 1..(Len(up) - 1) /\ (i - 1) + 1 = i
      BY <1>1
    <3> QED  BY <1>1, <3>1
  <2>3. ~ (i > 1) => i = 1
    BY <2>1
  <2> QED  BY <2>1, <2>2, <2>3 DEF Due
<1>3. ASSUME NEW i \in DOMAIN up'
      PROVE  up'[i].t = Due(up, i)' /\ (up'[i].t = "name" => Named(up, i)')
  <2>1. i \in 1..Len(up) /\ i + 1 \in DOMAIN up /\ up'[i] = up[i + 1] /\ i + 1 # 1 /\ (i + 1) - 1 = i
    BY <1>1
  <2>2. up[i + 1].t = Due(up, i + 1) /\ (up[i + 1].t = "name" => Named(up, i + 1))
    BY <2>1 DEF Fits
  <2>3. up'[i].t = Due(up, i)'
    BY <1>2, <2>1, <2>2
  <2>4. CASE i = 1
    BY <2>1, <2>2, <2>3, <2>4 DEF Named
  <2>5. CASE i # 1
    <3>1. up'[i - 1] = up[i]
      <4>1. i - 1 \in 1..(Len(up) - 1) /\ (i - 1) + 1 = i
        BY <1>1, <2>1, <2>5
      <4> QED  BY <1>1, <4>1
    <3> QED  BY <2>1, <2>2, <2>3, <2>5, <3>1 DEF Named
  <2> QED  BY <2>4, <2>5
<1>4. Fits(up)'
  BY <1>3 DEF Fits
<1>5. End(up)' = End(up)
  <2>1. PICK k \in 1..Len(up) : k = Len(up)
    <3>1. Len(up) \in 1..Len(up)
      BY <1>1
    <3> QED  BY <3>1
  <2>2. Due(up, k)' = Due(up, k + 1)
    BY <1>2
  <2>3. End(up)' = Due(up, k)'
    BY <1>1, <2>1 DEF End, Due
  <2> QED  BY <2>1, <2>2, <2>3 DEF End
<1> QED  BY <1>4, <1>5

\* Only stream and worker decide what fits.
LEMMA SameStream ==
  ASSUME UNCHANGED <<up, server>>
  PROVE  /\ Alive' <=> Alive
         /\ Garbage' <=> Garbage
         /\ Fits(up)' <=> Fits(up)
         /\ End(up)' = End(up)
  BY DEF Alive, Garbage, Mismatched, Fits, End, Due, First, Named

\* What is behind the first item does not bring the worker back into step.
LEMMA Growing ==
  ASSUME server' = server, up # <<>> => up' # <<>> /\ up'[1] = up[1]
  PROVE  /\ Alive' => Alive
         /\ (up = <<>> /\ up' # <<>> => up'[1].t # "data") => (Garbage' => Garbage)
  BY DEF Alive, Garbage, Mismatched

\* An item at the end is the first only of an empty stream.
LEMMA Begins ==
  ASSUME NEW S, NEW s \in Seq(S), NEW x \in S
  PROVE  Append(s, x) # <<>> /\ Append(s, x)[1] = IF s = <<>> THEN x ELSE s[1]
<1>1. /\ Len(s) \in Nat /\ Append(s, x) # <<>> /\ Append(s, x)[Len(s) + 1] = x
      /\ \A i \in 1..Len(s) : Append(s, x)[i] = s[i]
  BY Appended
<1>2. CASE s = <<>>
  BY <1>1, <1>2
<1>3. CASE s # <<>>
  BY <1>1, <1>3
<1> QED  BY <1>2, <1>3

\* What fits the worker of this state fits the unchanged one of the next.
LEMMA Carried ==
  ASSUME server' = server, NEW u, up' = u
  PROVE  /\ Fits(u) => Fits(up)'
         /\ End(up)' = End(u)
  BY DEF Fits, End, Due, First, Named

\* Nothing in s after which the client says no more.
Still(s) == \A i \in DOMAIN s : ~ (s[i].t = "name" /\ s[i].v = "gets") /\ s[i].t # "meta"

LEMMA StillBefore ==
  ASSUME Closing, client.at \notin {"getstatus", "status", "lost"}
  PROVE  Still(up)
  BY DEF Closing, Still

LEMMA StillGrows ==
  ASSUME NEW s \in Seq(UpItem), Still(s), NEW x \in UpItem,
         ~ (x.t = "name" /\ x.v = "gets") /\ x.t # "meta"
  PROVE  Still(Append(s, x))
<1>1. /\ DOMAIN Append(s, x) = 1..(Len(s) + 1) /\ DOMAIN s = 1..Len(s) /\ Len(s) \in Nat
      /\ \A i \in 1..Len(s) : Append(s, x)[i] = s[i]
      /\ Append(s, x)[Len(s) + 1] = x
  BY Appended
<1>2. \A i \in DOMAIN Append(s, x) : i \in DOMAIN s \/ i = Len(s) + 1
  BY <1>1
<1> QED  BY <1>1, <1>2 DEF Still

\* A closing item is the last.
LEMMA ClosingAfter ==
  ASSUME NEW s \in Seq(UpItem), Still(s), NEW x \in UpItem, up' = Append(s, x),
         x.t = "name" /\ x.v = "gets" => client'.at = "getstatus",
         x.t = "meta" => client'.at = "status" /\ x.v = client'.size
  PROVE  Closing'
<1>1. /\ DOMAIN up' = 1..(Len(s) + 1) /\ DOMAIN s = 1..Len(s) /\ Len(s) \in Nat
      /\ Len(up') = Len(s) + 1
      /\ \A i \in 1..Len(s) : up'[i] = s[i]
      /\ up'[Len(s) + 1] = x
  BY Appended
<1>2. \A i \in DOMAIN up' : i \in DOMAIN s \/ i = Len(s) + 1
  BY <1>1
<1> QED  BY <1>1, <1>2 DEF Still, Closing

\* The client takes one answer.
LEMMA Quieter ==
  ASSUME Types, down # <<>>, down' = Tail(down)
  PROVE  /\ down' \in Seq(DownItem) /\ Len(down') = Len(down) - 1 /\ Len(down) \in Nat \ {0}
         /\ \A i \in DOMAIN down' : i \in Nat /\ i + 1 \in DOMAIN down /\ down'[i] = down[i + 1]
         /\ \A k \in Nat : SoftAfter(k + 1) => SoftAfter(k)'
         /\ \A k \in Nat : QuietAfter(k + 1) => QuietAfter(k)'
         /\ \A k \in Nat : k > 0 /\ k + 1 \in DOMAIN down => k \in DOMAIN down' /\ down'[k] = down[k + 1]
<1>1. /\ down' \in Seq(DownItem) /\ Len(down') = Len(down) - 1 /\ Len(down) \in Nat \ {0}
      /\ DOMAIN down' = 1..(Len(down) - 1) /\ DOMAIN down = 1..Len(down)
      /\ \A i \in 1..(Len(down) - 1) : down'[i] = down[i + 1]
  BY Behead DEF Types
<1>2. \A i \in DOMAIN down' : i \in Nat /\ i + 1 \in DOMAIN down /\ down'[i] = down[i + 1]
  BY <1>1
<1>3. ASSUME NEW k \in Nat  PROVE SoftAfter(k + 1) => SoftAfter(k)'
  BY <1>2 DEF SoftAfter, Soft
<1>4. ASSUME NEW k \in Nat  PROVE QuietAfter(k + 1) => QuietAfter(k)'
  BY <1>2 DEF QuietAfter
<1>5. \A k \in Nat : k > 0 /\ k + 1 \in DOMAIN down => k \in DOMAIN down' /\ down'[k] = down[k + 1]
  BY <1>1
<1> QED  BY <1>1, <1>2, <1>3, <1>4, <1>5

\* Words and notices are no answer.
LEMMA Softly ==
  ASSUME Types
  PROVE  /\ SoftAfter(0) => ~ Hopeful
         /\ \A k \in Nat : SoftAfter(0) => SoftAfter(k)
         /\ \A k \in Nat : QuietAfter(k) => SoftAfter(k)
<1>1. down \in Seq(DownItem)
  BY DEF Types
<1>2. \A i \in DOMAIN down : i \in Nat /\ i > 0
  BY <1>1
<1>3. down # <<>> => 1 \in DOMAIN down
  BY <1>1
<1>4. SoftAfter(0) => ~ Hopeful
  BY <1>2, <1>3 DEF SoftAfter, Hopeful
<1>5. \A k \in Nat : SoftAfter(0) => SoftAfter(k)
  BY <1>2 DEF SoftAfter
<1>6. \A k \in Nat : QuietAfter(k) => SoftAfter(k)
  BY DEF SoftAfter, QuietAfter, Soft
<1> QED  BY <1>4, <1>5, <1>6

\* A step of the client that says nothing and leaves it neither asking nor lost.
LEMMA Ordinarily ==
  ASSUME Types, Streams, UNCHANGED <<up, server, open>>, occurred \subseteq occurred', Answered',
         \/ client.at \in Ordinary /\ client'.at \in Ordinary
         \/ client.at \in Ordinary \cup {"password"} /\ client'.at = "gone",
         client.at \in {"data", "final"} => down # <<>> \/ server.at = "closed"
  PROVE  Streams'
<1>1. /\ Alive' <=> Alive
      /\ Garbage' <=> Garbage
      /\ Fits(up)' <=> Fits(up)
      /\ End(up)' = End(up)
  BY SameStream
<1>2. client.at \notin {"getstatus", "status", "lost", "meta"}
  BY DEF Ordinary
<1>3. Orderly'
  <2> SUFFICES ASSUME Alive'  PROVE (Fits(up) /\ End(up) # "name" /\ Closing /\ Asking /\ Turn)'
    BY DEF Orderly
  <2>1. Fits(up) /\ End(up) # "name" /\ Closing /\ Asking /\ Turn
    BY <1>1 DEF Streams, Orderly
  <2>2. Closing'
    BY <1>2, <2>1 DEF Closing
  <2>3. Asking'
    BY <1>2, <2>1 DEF Asking
  <2>4. Turn'
    BY <1>1, <2>1 DEF Turn, Ordinary
  <2> QED  BY <1>1, <2>1, <2>2, <2>3, <2>4
<1>4. Fetching'
  BY <1>1, <1>2 DEF Streams, Fetching, Alive
<1>5. Blocked'
  BY <1>1 DEF Streams, Blocked
<1> QED  BY <1>3, <1>4, <1>5 DEF Streams

\* The client at its prompt.
LEMMA PromptStreams ==
  ASSUME Types, Types', Welcome, Streams, occurred' \cap {"local", "input"} = {},
         \/ Ping \/ SocketEvent \/ Quit
         \/ \E cmd \in {"register", "login"} : Identify(cmd)
         \/ \E v \in {"empty", "some"} : Password(v)
         \/ \E cmd \in Commands : Command(cmd)
  PROVE  Streams'
<1>1. /\ up \in Seq(UpItem) /\ down \in Seq(DownItem) /\ n \in Nat
      /\ client \in [at : ClientPlaces, cmd : Spoken \cup {"none"}, size : Size, logged : BOOLEAN]
  BY DEF Types
<1>2. Orderly /\ Answered /\ Fetching /\ Blocked
  BY DEF Streams
<1>3. \A cmd \in Spoken : Item("cmd", cmd, n + 1) \in UpItem /\ Item("name", cmd, n + 1) \in UpItem
  <2>1. n + 1 \in Nat
    BY <1>1
  <2> HIDE DEF Item
  <2> QED  BY <2>1, Items
\* One item or two: u is the stream without the last one.
<1>4. ASSUME client.at \in {"prompt", "select", "password"},
             NEW u \in Seq(UpItem), NEW x \in UpItem, up' = Append(u, x),
             up = <<>> => up'[1].t # "data", up # <<>> => up'[1] = up[1],
             UNCHANGED <<down, server, open>>, occurred \subseteq occurred',
             Alive => /\ Fits(u) /\ Still(u) /\ x.t = End(u) /\ x.t # "data" /\ x.t # "meta"
                      /\ x.t = "name" => /\ x.v = IF Len(u) = 0 THEN server.cmd ELSE u[Len(u)].v
                                         /\ x.v \in Identifying \/ server.logged
                      /\ After(x) # "name",
             x.t = "name" /\ x.v = "gets" => client'.at = "getstatus",
             \/ client'.at \in Ordinary /\ After(x) = "cmd"
             \/ client'.at = "password" /\ After(x) = "password"
             \/ client'.at = "puts" /\ After(x) = "meta"
             \/ client'.at = "getstatus" /\ x.t = "name" /\ x.v = "gets"
             \/ client'.at = "gone" /\ After(x) = "cmd",
             client'.at \in {"select", "password", "login", "reply", "changed", "puts", "getstatus", "gone"}
      PROVE  Streams'
  <2>1. up' # <<>> /\ up'[Len(up')] = x
    BY <1>4, Appended
  <2>2. (Alive' => Alive) /\ (Garbage' => Garbage)
    BY <1>4, <2>1, Growing
  <2>3. SoftAfter(0) /\ ~ Hopeful
    BY <1>2, <1>4, Softly DEF Answered
  <2>4. SoftAfter(0)' /\ ~ Hopeful'
    BY <1>4, <2>3 DEF SoftAfter, Hopeful
  <2>5. Orderly'
    <3> SUFFICES ASSUME Alive'  PROVE (Fits(up) /\ End(up) # "name" /\ Closing /\ Asking /\ Turn)'
      BY DEF Orderly
    <3>1. Alive /\ Asking
      BY <1>2, <2>2 DEF Orderly
    <3>2. Fits(Append(u, x)) /\ End(Append(u, x)) = After(x)
      BY <1>4, <3>1, Extend
    <3>3. Fits(up)' /\ End(up)' = After(x)
      BY <1>4, <3>2, Carried
    <3>4. Closing'
      BY <1>4, <3>1, ClosingAfter
    <3>5. Asking'
      BY <1>4, <3>1 DEF Asking
    <3>6. Turn'
      BY <1>4, <3>3 DEF Turn, Ordinary
    <3>7. End(up)' # "name"
      BY <1>4, <3>1, <3>3
    <3> QED  BY <3>3, <3>4, <3>5, <3>6, <3>7
  <2>6. Answered'
    <3>1. client'.at = "getstatus" => StatusOfGets'
      BY <1>4, <2>1, <2>4, AfterIs DEF StatusOfGets, Ordinary
    <3> QED  BY <1>4, <2>4, <3>1 DEF Answered
  <2>7. Fetching'
    BY <1>2, <1>4, <2>2 DEF Fetching
  <2>8. Blocked'
    BY <1>2, <1>4, <2>2 DEF Blocked
  <2> QED  BY <2>5, <2>6, <2>7, <2>8 DEF Streams
<1>5. client.at \in {"prompt", "select"} /\ Alive => Fits(up) /\ End(up) = "cmd" /\ Still(up)
  BY <1>2, StillBefore DEF Orderly, Turn, Ordinary
<1>6. ASSUME NEW x \in UpItem, up' = Append(up, x), x.t # "data"
      PROVE  (up = <<>> => up'[1].t # "data") /\ (up # <<>> => up'[1] = up[1])
  BY <1>1, <1>6, Begins
<1>7. CASE Ping
  <2>1. PICK x \in UpItem : x = Up("cmd", "ping")
    BY <1>1 DEF Up, Item, UpItem, Spoken
  <2>2. x.t = "cmd" /\ x.v = "ping" /\ After(x) = "cmd"
    BY <2>1 DEF Up, Item, After
  <2>3. /\ up' = Append(up, x) /\ client.at = "prompt" /\ client'.at = "select"
        /\ UNCHANGED <<down, server, open, occurred>>
    BY <1>1, <1>7, <2>1 DEF Ping
  <2> QED  BY <1>1, <1>4, <1>5, <1>6, <2>2, <2>3 DEF Ordinary
<1>8. CASE SocketEvent
  <2>1. /\ client.at = "select" /\ client'.at \in {"prompt", "gone"}
        /\ UNCHANGED <<up, server, open, occurred>>
    BY <1>1, <1>8 DEF SocketEvent
  <2>2. SoftAfter(0)'
    <3>1. SoftAfter(0)
      BY <1>2, <2>1 DEF Answered
    <3>2. CASE down' = down
      BY <3>1, <3>2 DEF SoftAfter
    <3>3. ASSUME NEW k \in 1..Len(down), down' = SubSeq(down, k + 1, Len(down))  PROVE SoftAfter(0)'
      <4>1. \A i \in DOMAIN down' : i + k \in DOMAIN down /\ down'[i] = down[i + k]
        BY <1>1, <3>3, Parts
      <4>2. \A i \in DOMAIN down : i > 0
        BY <1>1
      <4> QED  BY <3>1, <4>1, <4>2 DEF SoftAfter, Soft
    <3> QED  BY <1>8, <3>2, <3>3 DEF SocketEvent
  <2>3. Answered'
    BY <2>1, <2>2 DEF Answered
  <2> QED  BY <2>1, <2>3, Ordinarily DEF Ordinary
<1>9. CASE Quit
  <2>1. /\ client.at = "select" /\ client'.at = "gone"
        /\ UNCHANGED <<down, server, open, occurred>>
        /\ up' = up \/ up' = Append(up, Up("cmd", "ping"))
    BY <1>1, <1>9 DEF Quit
  <2>2. CASE up' = up
    <3>1. Answered'
      BY <2>1 DEF Answered
    <3> QED  BY <2>1, <2>2, <3>1, Ordinarily DEF Ordinary
  <2>3. CASE up' = Append(up, Up("cmd", "ping"))
    <3>1. PICK x \in UpItem : x = Up("cmd", "ping")
      BY <1>1 DEF Up, Item, UpItem, Spoken
    <3>2. x.t = "cmd" /\ x.v = "ping" /\ After(x) = "cmd"
      BY <3>1 DEF Up, Item, After
    <3>3. up' = Append(up, x)
      BY <2>3, <3>1
    <3> QED  BY <1>1, <1>4, <1>5, <1>6, <2>1, <3>2, <3>3
  <2> QED  BY <2>1, <2>2, <2>3
<1>10. ASSUME NEW cmd \in Spoken \ {"ping", "ls", "pwd"}, client.at = "select", server' = server,
             up' = Append(Append(up, Item("cmd", cmd, n + 1)), Item("name", cmd, n + 1)),
             cmd \in Identifying \/ client.logged,
             UNCHANGED <<down, open, occurred>>,
             client'.at = CASE cmd \in Identifying -> "password" [] cmd = "cd" -> "changed"
                            [] cmd = "puts" -> "puts" [] cmd = "gets" -> "getstatus" [] OTHER -> "reply"
      PROVE  Streams'
  <2>1. PICK x \in UpItem : x = Item("cmd", cmd, n + 1)
    BY <1>3
  <2>2. PICK y \in UpItem : y = Item("name", cmd, n + 1)
    BY <1>3
  <2>3. x.t = "cmd" /\ x.v = cmd /\ y.t = "name" /\ y.v = cmd /\ After(x) = "name"
    BY <1>10, <2>1, <2>2 DEF Item, After
  <2>4. PICK u \in Seq(UpItem) : u = Append(up, x)
    BY <1>1, Appended
  <2>5. up' = Append(u, y)
    BY <1>10, <2>1, <2>2, <2>4
  <2>6. Len(u) # 0 /\ u[Len(u)] = x
    BY <1>1, <2>4, Appended
  <2>7. up'[1] = (IF up = <<>> THEN x ELSE up[1])
    <3>1. u # <<>> /\ u[1] = IF up = <<>> THEN x ELSE up[1]
      BY <1>1, <2>4, Begins
    <3> QED  BY <2>5, <3>1, Begins
  <2>8. Alive => Fits(u) /\ End(u) = "name" /\ Still(u)
    <3> SUFFICES ASSUME Alive  PROVE Fits(u) /\ End(u) = "name" /\ Still(u)
      OBVIOUS
    <3>1. Fits(up) /\ End(up) = "cmd" /\ Still(up)
      BY <1>5, <1>10
    <3>2. Fits(u) /\ End(u) = "name"
      BY <1>1, <2>3, <2>4, <3>1, Extend
    <3>3. Still(u)
      BY <1>1, <2>3, <2>4, <3>1, StillGrows
    <3> QED  BY <3>2, <3>3
  <2>9. cmd \in Identifying \/ server.logged
    BY <1>10 DEF Welcome
  <2>10. /\ After(y) # "name"
         /\ \/ client'.at \in Ordinary /\ After(y) = "cmd"
            \/ client'.at = "password" /\ After(y) = "password"
            \/ client'.at = "puts" /\ After(y) = "meta"
            \/ client'.at = "getstatus" /\ y.v = "gets"
         /\ y.v = "gets" => client'.at = "getstatus"
         /\ client'.at \in {"password", "reply", "changed", "puts", "getstatus"}
    BY <1>10, <2>3 DEF After, Ordinary, Identifying
  <2> QED  BY <1>4, <1>10, <2>3, <2>5, <2>6, <2>7, <2>8, <2>9, <2>10
<1>11. ASSUME NEW cmd \in {"register", "login"}, Identify(cmd)  PROVE Streams'
  <2>1. cmd \in Spoken \ {"ping", "ls", "pwd"} /\ cmd \in Identifying
    BY DEF Spoken, Identifying
  <2>2. /\ client.at = "select" /\ client'.at = "password"
        /\ UNCHANGED <<down, server, open, occurred>>
        /\ up' = up \o <<Item("cmd", cmd, n + 1), Item("name", cmd, n + 1)>>
    BY <1>1, <1>11 DEF Identify
  <2>3. PICK x \in UpItem : x = Item("cmd", cmd, n + 1)
    BY <1>3, <2>1
  <2>4. PICK y \in UpItem : y = Item("name", cmd, n + 1)
    BY <1>3, <2>1
  <2>5. up' = Append(Append(up, x), y)
    BY <1>1, <2>2, <2>3, <2>4
  <2> QED  BY <1>10, <2>1, <2>2, <2>3, <2>4, <2>5
<1>12. ASSUME NEW v \in {"empty", "some"}, Password(v)  PROVE Streams'
  <2>1. PICK x \in UpItem : x = Up("password", v)
    BY <1>1 DEF Up, Item, UpItem
  <2>2. x.t = "password" /\ After(x) = "cmd"
    BY <2>1 DEF Up, Item, After
  <2>3. /\ up' = Append(up, x) /\ client.at = "password" /\ client'.at = "login"
        /\ UNCHANGED <<down, server, open>> /\ occurred \subseteq occurred'
    BY <1>1, <1>12, <2>1 DEF Password
  <2>4. Alive => Fits(up) /\ End(up) = "password" /\ Still(up)
    BY <1>2, <2>3, StillBefore DEF Orderly, Turn
  <2> QED  BY <1>1, <1>4, <1>6, <2>2, <2>3, <2>4 DEF Ordinary
<1>13. ASSUME NEW cmd \in Commands, Command(cmd)  PROVE Streams'
  <2>1. cmd \in AllCommands /\ cmd \in Spoken /\ cmd \notin Identifying /\ cmd # "ping"
    BY CommandsKnown DEF Spoken, AllCommands, Identifying
  <2>2. /\ client.at = "select" /\ client.logged /\ UNCHANGED <<down, server, open, occurred>>
        /\ up' = (up \o <<Item("cmd", cmd, n + 1)>>)
                   \o (IF cmd \in {"ls", "pwd"} THEN <<>> ELSE <<Item("name", cmd, n + 1)>>)
        /\ client'.at = CASE cmd = "cd" -> "changed" [] cmd = "puts" -> "puts"
                          [] cmd = "gets" -> "getstatus" [] OTHER -> "reply"
    BY <1>1, <1>13 DEF Command
  <2>3. up' = IF cmd \in {"ls", "pwd"} THEN Append(up, Item("cmd", cmd, n + 1))
              ELSE Append(Append(up, Item("cmd", cmd, n + 1)), Item("name", cmd, n + 1))
    BY <2>1, <2>2, CommandAdds
  <2>4. CASE cmd \in {"ls", "pwd"}
    <3>1. PICK x \in UpItem : x = Item("cmd", cmd, n + 1)
      BY <1>3, <2>1
    <3>2. x.t = "cmd" /\ After(x) = "cmd" /\ up' = Append(up, x) /\ client'.at = "reply"
      BY <2>2, <2>3, <2>4, <3>1 DEF Item, After
    <3> QED  BY <1>1, <1>4, <1>5, <1>6, <2>2, <3>2 DEF Ordinary
  <2>5. CASE cmd \notin {"ls", "pwd"}
    <3>1. up' = Append(Append(up, Item("cmd", cmd, n + 1)), Item("name", cmd, n + 1))
      BY <2>3, <2>5
    <3>2. client'.at = CASE cmd \in Identifying -> "password" [] cmd = "cd" -> "changed"
                         [] cmd = "puts" -> "puts" [] cmd = "gets" -> "getstatus" [] OTHER -> "reply"
      BY <2>1, <2>2
    <3> HIDE DEF Item
    <3> QED  BY <1>10, <2>1, <2>2, <2>5, <3>1, <3>2
  <2> QED  BY <2>4, <2>5
<1> QED  BY <1>7, <1>8, <1>9, <1>11, <1>12, <1>13

\* The client inside a command.
LEMMA InsideStreams ==
  ASSUME Types, Types', Notices, Streams, occurred' \cap {"local", "input"} = {},
         \/ LoginReply \/ Reply \/ ReplyPart \/ Changed \/ NewPath
         \/ PutsMeta \/ PutsFails \/ PutsStatus \/ PutsOffset
         \/ GetsStatus \/ GetsMeta \/ GetsData
         \/ ClientLost \/ ClientEndOfFile
  PROVE  Streams'
<1>1. /\ up \in Seq(UpItem) /\ down \in Seq(DownItem) /\ n \in Nat /\ open \in BOOLEAN
      /\ client \in [at : ClientPlaces, cmd : Spoken \cup {"none"}, size : Size, logged : BOOLEAN]
      /\ client.size \in Nat /\ server.size \in Nat /\ client.size <= MaxSize /\ MaxSize \in Nat
  BY BoundsNat DEF Types, Size
<1>2. Orderly /\ Answered /\ Fetching /\ Blocked
  BY DEF Streams
<1>3. SoftAfter(0)' => SoftAfter(1)'
  BY Softly DEF SoftAfter, Types
\* A message is read that is for the user.
<1>4. ASSUME down # <<>>, down' = Tail(down) \/ SoftAfter(0)', UNCHANGED <<up, server, open>>,
             occurred \subseteq occurred', SoftAfter(1),
             client.at \in Ordinary, client'.at \in {"prompt", "path", "gone"}
      PROVE  Streams'
  <2>1. SoftAfter(0)'
    <3>1. SoftAfter(0 + 1) => (down' = Tail(down) => SoftAfter(0)')
      BY <1>4, Quieter
    <3> QED  BY <1>4, <3>1
  <2>2. Answered'
    BY <1>4, <2>1 DEF Answered
  <2> QED  BY <1>4, <2>2, Ordinarily DEF Ordinary
<1>5. CASE LoginReply \/ Reply \/ Changed \/ NewPath
  <2>1. /\ down # <<>> /\ down' = Tail(down) /\ UNCHANGED <<up, server, open, occurred>>
        /\ client.at \in {"login", "reply", "final", "changed", "path"}
        /\ client'.at \in {"prompt", "path", "gone"}
    BY <1>1, <1>5 DEF LoginReply, Reply, Changed, NewPath, Receives, Goes
  <2>2. SoftAfter(1)
    BY <1>2, <2>1, Softly DEF Answered
  <2> QED  BY <1>4, <2>1, <2>2 DEF Ordinary
<1>6. CASE ReplyPart
  <2>1. /\ client.at = "reply" /\ down # <<>> /\ UNCHANGED <<up, server, open>>
        /\ occurred \subseteq occurred' /\ client'.at = "prompt" /\ Head(down).t = "text"
    BY <1>1, <1>6 DEF ReplyPart, Goes, Text
  <2>2. SoftAfter(0) /\ SoftAfter(1)
    BY <1>2, <2>1, Softly DEF Answered
  <2>3. PICK x \in DownItem : x = [Head(down) EXCEPT !.v = "rest"] /\ x.t = "text"
    <3>1. Head(down) \in DownItem /\ Head(down).t = "text"
      BY <2>1, HeadOfDown
    <3>2. PICK h \in DownItem : h = Head(down) /\ h.t = "text"
      BY <3>1
    <3>3. [h EXCEPT !.v = "rest"] \in DownItem /\ [h EXCEPT !.v = "rest"].t = "text"
      BY <3>2 DEF DownItem, Sentences
    <3> QED  BY <3>2, <3>3
  <2>4. down' = <<x>> \o Tail(down)
    BY <1>6, <2>3 DEF ReplyPart
  <2>5. \A i \in DOMAIN down' : Soft(down'[i])
    <3>1. /\ Tail(down) \in Seq(DownItem) /\ DOMAIN Tail(down) = 1..(Len(down) - 1)
          /\ Len(Tail(down)) = Len(down) - 1 /\ Len(down) \in Nat \ {0} /\ DOMAIN down = 1..Len(down)
          /\ \A i \in 1..(Len(down) - 1) : Tail(down)[i] = down[i + 1]
      BY <1>1, <2>1, Behead
    <3>2. <<x>> \in Seq(DownItem) /\ Len(<<x>>) = 1 /\ <<x>>[1] = x
      OBVIOUS
    <3>3. /\ DOMAIN down' = 1..(1 + (Len(down) - 1)) /\ down'[1] = x
          /\ \A i \in 1..(Len(down) - 1) : down'[1 + i] = Tail(down)[i]
      BY <2>4, <3>1, <3>2, Joined
    <3>4. SUFFICES ASSUME NEW i \in DOMAIN down', i # 1  PROVE Soft(down'[i])
      BY <2>3, <3>3 DEF Soft
    <3>5. i - 1 \in 1..(Len(down) - 1) /\ i = 1 + (i - 1) /\ i = (i - 1) + 1 /\ i \in DOMAIN down /\ i > 0
      BY <3>1, <3>3, <3>4
    <3>6. down'[i] = down[i]
      BY <3>1, <3>3, <3>5
    <3> QED  BY <2>2, <3>5, <3>6 DEF SoftAfter
  <2>6. SoftAfter(0)'
    BY <2>5 DEF SoftAfter, Soft
  <2> QED  BY <1>4, <2>1, <2>2, <2>6 DEF Ordinary
<1>7. CASE PutsMeta
  <2>1. PICK k \in 0..MaxSize : /\ client' = [client EXCEPT !.at = "status", !.size = k]
                                /\ up' = Append(up, Up("meta", k))
    BY <1>7 DEF PutsMeta
  <2>2. PICK x \in UpItem : x = Up("meta", k)
    BY <1>1 DEF Up, Item, UpItem, Size
  <2>3. x.t = "meta" /\ x.v = k /\ After(x) = "cmd"
    BY <2>2 DEF Up, Item, After
  <2>4. /\ up' = Append(up, x) /\ client.at = "puts" /\ client'.at = "status" /\ client'.size = k
        /\ UNCHANGED <<down, server, open, occurred>>
    BY <1>1, <1>7, <2>1, <2>2 DEF PutsMeta
  <2>5. /\ up' # <<>> /\ up'[1] = (IF up = <<>> THEN x ELSE up[1]) /\ up'[Len(up')] = x
    BY <1>1, <2>4, Begins, Appended
  <2>6. (Alive' => Alive) /\ (Garbage' => Garbage)
    BY <2>3, <2>4, <2>5, Growing
  <2>7. ~ Hopeful'
    <3>1. ~ Hopeful
      BY <1>2, <2>4, Softly DEF Answered
    <3> QED  BY <2>4, <3>1 DEF Hopeful
  <2>8. Orderly'
    <3> SUFFICES ASSUME Alive'  PROVE (Fits(up) /\ End(up) # "name" /\ Closing /\ Asking /\ Turn)'
      BY DEF Orderly
    <3>1. Alive /\ Fits(up) /\ Closing /\ Asking /\ End(up) = "meta" /\ Still(up)
      BY <1>2, <2>4, <2>6, StillBefore DEF Orderly, Turn
    <3>2. Fits(Append(up, x)) /\ End(Append(up, x)) = "cmd"
      BY <1>1, <2>3, <3>1, Extend
    <3>3. Fits(up)' /\ End(up)' = "cmd"
      BY <2>4, <3>2, Carried
    <3>4. Closing'
      BY <1>1, <2>3, <2>4, <3>1, ClosingAfter
    <3>5. Asking' /\ Turn'
      BY <2>4, <3>1 DEF Asking, Turn, Ordinary
    <3> QED  BY <3>3, <3>4, <3>5
  <2>9. Answered'
    BY <2>3, <2>4, <2>5, <2>7 DEF Answered, StatusOfPuts
  <2>10. Fetching' /\ Blocked'
    BY <1>2, <2>4, <2>6 DEF Fetching, Blocked
  <2> QED  BY <2>8, <2>9, <2>10 DEF Streams
<1>8. CASE PutsFails
  BY <1>8 DEF PutsFails
<1>9. CASE PutsStatus
  <2>1. /\ client.at = "status" /\ down # <<>> /\ down' = Tail(down) /\ down[1].t = "status"
        /\ UNCHANGED <<up, server, open, occurred>> /\ client'.size = client.size
        /\ client'.at = CASE down[1].v = "error" -> "final"
                          [] down[1].v = "seccomp" -> "prompt"
                          [] OTHER -> "offset"
    BY <1>1, <1>9, HeadOfDown DEF PutsStatus, ReceivesType, Receives, Goes
  <2>2. /\ up = <<>> /\ down[1].v \in {"error", "seccomp", "go"}
        /\ down[1].v = "go" => Going(2)
        /\ down[1].v # "go" => SoftAfter(1) /\ (Alive => server.at = "cmd")
    BY <1>2, <2>1 DEF Answered, StatusOfPuts, Hopeful, Soft
  <2>3. /\ Alive' <=> Alive
        /\ Garbage' <=> Garbage
        /\ Fits(up)' <=> Fits(up)
        /\ End(up)' = End(up)
    BY <2>1, SameStream
  <2>4. Len(up) = 0 /\ DOMAIN up = {} /\ up' = <<>>
    BY <2>1, <2>2
  <2>5. Orderly'
    <3> SUFFICES ASSUME Alive'  PROVE (Fits(up) /\ End(up) # "name" /\ Closing /\ Asking /\ Turn)'
      BY DEF Orderly
    <3>1. server.at \in {"cmd", "data"} /\ (down[1].v # "go" => server.at = "cmd")
      BY <2>2, <2>3 DEF Going
    <3>2. Closing' /\ Asking'
      BY <2>1, <2>4, <3>1 DEF Closing, Asking
    <3>3. Turn'
      <4>1. down[1].v # "go" => End(up) = "cmd"
        BY <2>4, <3>1 DEF End, Due, First
      <4> QED  BY <2>1, <2>2, <2>3, <4>1 DEF Turn, Ordinary
    <3> QED  BY <1>2, <2>3, <3>2, <3>3 DEF Orderly
  <2>6. Answered'
    <3>1. CASE down[1].v # "go"
      <4>1. SoftAfter(0)'
        <5>1. SoftAfter(0 + 1)
          BY <2>2, <3>1
        <5> QED  BY <2>1, <5>1, Quieter
      <4> QED  BY <1>3, <2>1, <2>2, <3>1, <4>1 DEF Answered
    <3>2. CASE down[1].v = "go"
      <4>1. Going(2)
        BY <2>2, <3>2
      <4>2. 1 \in DOMAIN down' /\ down'[1] = down[2] /\ Len(down') = Len(down) - 1 /\ Len(down) \in Nat
        <5>1. 1 + 1 \in DOMAIN down
          BY <4>1 DEF Going
        <5> QED  BY <2>1, <5>1, Quieter
      <4>3. SoftAfter(2)'
        <5>1. SoftAfter(2 + 1)
          BY <4>1 DEF Going
        <5> QED  BY <2>1, <5>1, Quieter
      <4>4. Going(1)'
        <5>1. SoftAfter(1 + 1)'
          BY <4>3
        <5>2. Len(down) > 2 => Len(down') > 1
          BY <4>2
        <5> QED  BY <2>1, <2>3, <2>4, <4>1, <4>2, <5>1, <5>2 DEF Going
      <4> QED  BY <2>1, <3>2, <4>4 DEF Answered
    <3> QED  BY <3>1, <3>2
  <2>7. Fetching'
    BY <2>2, <2>1, <2>3 DEF Fetching, Going
  <2>8. Blocked'
    BY <1>2, <2>1, <2>3 DEF Blocked
  <2> QED  BY <2>5, <2>6, <2>7, <2>8 DEF Streams
<1>10. CASE GetsStatus
  <2>1. /\ client.at = "getstatus" /\ down # <<>> /\ down' = Tail(down) /\ down[1].t = "status"
        /\ UNCHANGED <<up, server, open, occurred>> /\ client'.size = client.size
        /\ client'.at = IF down[1].v = "notfound" THEN "final" ELSE "meta"
    BY <1>1, <1>10, HeadOfDown DEF GetsStatus, ReceivesType, Receives, Goes
  <2>2. /\ up = <<>> /\ down[1].v \in {"notfound", "ok"}
        /\ down[1].v = "ok" => Offered(2)
        /\ down[1].v = "notfound" => SoftAfter(1) /\ (Alive => server.at = "cmd")
    BY <1>2, <2>1 DEF Answered, StatusOfGets, Hopeful, Soft
  <2>3. /\ Alive' <=> Alive
        /\ Garbage' <=> Garbage
        /\ Fits(up)' <=> Fits(up)
        /\ End(up)' = End(up)
    BY <2>1, SameStream
  <2>4. Len(up) = 0 /\ DOMAIN up = {} /\ up' = <<>>
    BY <2>1, <2>2
  <2>5. Orderly'
    <3> SUFFICES ASSUME Alive'  PROVE (Fits(up) /\ End(up) # "name" /\ Closing /\ Asking /\ Turn)'
      BY DEF Orderly
    <3>1. server.at \in {"cmd", "offset"} /\ (down[1].v = "notfound" => server.at = "cmd")
      BY <2>2, <2>3 DEF Offered
    <3>2. Closing' /\ Asking'
      BY <2>1, <2>4, <3>1 DEF Closing, Asking
    <3>3. Turn'
      <4>1. down[1].v = "notfound" => End(up) = "cmd"
        BY <2>4, <3>1 DEF End, Due, First
      <4> QED  BY <2>1, <2>2, <2>3, <4>1 DEF Turn, Ordinary
    <3> QED  BY <1>2, <2>3, <3>2, <3>3 DEF Orderly
  <2>6. Answered'
    <3>1. CASE down[1].v = "notfound"
      <4>1. SoftAfter(0)'
        <5>1. SoftAfter(0 + 1)
          BY <2>2, <3>1
        <5> QED  BY <2>1, <5>1, Quieter
      <4> QED  BY <1>3, <2>1, <3>1, <4>1 DEF Answered
    <3>2. CASE down[1].v = "ok"
      <4>1. Offered(2)
        BY <2>2, <3>2
      <4>2. 1 \in DOMAIN down' /\ down'[1] = down[2]
        <5>1. 1 + 1 \in DOMAIN down
          BY <4>1 DEF Offered
        <5> QED  BY <2>1, <5>1, Quieter
      <4>3. QuietAfter(1)'
        <5>1. QuietAfter(1 + 1)
          BY <4>1 DEF Offered
        <5> QED  BY <2>1, <5>1, Quieter
      <4>4. Offered(1)'
        BY <2>1, <2>3, <2>4, <4>1, <4>2, <4>3 DEF Offered
      <4> QED  BY <2>1, <3>2, <4>4 DEF Answered
    <3> QED  BY <2>2, <3>1, <3>2
  <2>7. Fetching'
    BY <2>2, <2>1, <2>3 DEF Fetching, Offered
  <2>8. Blocked'
    BY <1>2, <2>1, <2>3 DEF Blocked
  <2> QED  BY <2>5, <2>6, <2>7, <2>8 DEF Streams

<1>11. CASE PutsOffset
  <2>1. /\ client.at = "offset" /\ down # <<>> /\ down' = Tail(down) /\ down[1].t = "offset"
        /\ UNCHANGED <<server, open, occurred>> /\ client'.size = client.size /\ client'.at = "final"
        /\ up' = up \o [i \in 1..(client.size - down[1].v) |-> Up("data", 1)]
        /\ down[1].v \in Size
    BY <1>1, <1>11, HeadOfDown DEF PutsOffset, ReceivesType, Receives, Goes
  <2>2. Going(1)
    BY <1>2, <2>1 DEF Answered
  <2>3. PICK left \in Nat : left = client.size - down[1].v
    <3>1. down[1].v <= client.size /\ down[1].v \in Nat
      BY <1>1, <2>1, <2>2 DEF Going, Size
    <3>2. client.size - down[1].v \in Nat
      BY <1>1, <3>1
    <3> QED  BY <3>2
  <2>4. PICK x \in UpItem : x = Up("data", 1)
    BY <1>1 DEF Up, Item, UpItem
  <2>5. x.t = "data" /\ After(x) = "cmd"
    BY <2>4 DEF Up, Item, After
  <2>6. up = <<>> /\ up' = [i \in 1..left |-> x]
    <3>1. up = <<>> /\ up' = up \o [i \in 1..left |-> x]
      BY <2>1, <2>2, <2>3, <2>4 DEF Going
    <3>2. [i \in 1..left |-> x] \in Seq(UpItem)
      OBVIOUS
    <3> QED  BY <3>1, <3>2
  <2>7. /\ up' \in Seq(UpItem) /\ Len(up') = left /\ DOMAIN up' = 1..left
        /\ \A i \in 1..left : up'[i] = x
        /\ up' # <<>> => left > 0
    BY <2>6
  <2>8. Alive' => Alive
    BY <2>1, <2>6, Growing
  <2>9. Orderly'
    <3> SUFFICES ASSUME Alive'  PROVE (Fits(up) /\ End(up) # "name" /\ Closing /\ Asking /\ Turn)'
      BY DEF Orderly
    <3>1. CASE server.at = "data" /\ server.size = left
      <4>1. ASSUME NEW i \in DOMAIN up'  PROVE up'[i].t = Due(up, i)' /\ up'[i].t # "name"
        <5>1. i <= server.size /\ up'[i] = x
          BY <2>7, <3>1
        <5> QED  BY <2>1, <2>5, <3>1, <5>1 DEF Due
      <4>2. End(up)' = "cmd"
        <5>1. ~ (left + 1 <= server'.size) /\ (left + 1 > 1 => left \in 1..left) /\ (left + 1) - 1 = left
          BY <2>1, <3>1
        <5>2. left + 1 > 1 => up'[(left + 1) - 1] = x
          BY <2>7, <5>1
        <5> QED  BY <2>1, <2>5, <2>7, <3>1, <5>1, <5>2 DEF End, Due, First
      <4>3. Fits(up)'
        BY <4>1 DEF Fits
      <4>4. Closing' /\ Asking' /\ Turn'
        BY <2>1, <2>5, <2>7, <3>1, <4>2 DEF Closing, Asking, Turn
      <4> QED  BY <4>2, <4>3, <4>4
    <3>2. CASE server.at = "cmd"
      <4>1. up' = <<>> /\ DOMAIN up' = {} /\ Len(up') = 0
        <5>1. CASE left = 0
          BY <2>6, <5>1
        <5>2. CASE left # 0
          <6>1. 1 \in 1..left
            BY <5>2
          <6>2. up' # <<>> /\ up'[1].t = "data"
            BY <2>5, <2>7, <6>1
          <6> QED  BY <2>1, <3>2, <6>2 DEF Alive, Garbage
        <5> QED  BY <5>1, <5>2
      <4>2. End(up)' = "cmd"
        <5>1. server'.at = "cmd"
          BY <2>1, <3>2
        <5>2. Len(up') = 0
          BY <4>1
        <5>3. ~ (Len(up') + 1 > 1)
          BY <5>2
        <5> QED  BY <5>1, <5>3 DEF End, Due, First
      <4> QED  BY <2>1, <3>2, <4>1, <4>2 DEF Fits, Closing, Asking, Turn
    <3> QED  BY <2>2, <2>3, <2>8, <3>1, <3>2 DEF Going
  <2>10. Answered'
    <3>1. SoftAfter(1 + 1) => SoftAfter(1)'
      BY <2>1, Quieter
    <3> QED  BY <2>1, <2>2, <3>1 DEF Answered, Going
  <2>11. Fetching'
    BY <2>1, <2>2, <2>8 DEF Fetching, Going
  <2>12. Blocked'
    <3>1. ASSUME Garbage'  PROVE occurred' \cap {"open", "write"} # {}
      <4>1. server.at = "cmd" /\ up' # <<>> /\ Alive
        BY <2>1, <2>6, <3>1 DEF Garbage, Alive, Mismatched
      <4>2. down[1].v # client.size
        BY <1>1, <2>3, <2>7, <4>1
      <4> QED  BY <2>1, <2>2, <4>1, <4>2 DEF Going
    <3> QED  BY <1>2, <2>1, <3>1 DEF Blocked
  <2> QED  BY <2>9, <2>10, <2>11, <2>12 DEF Streams
<1>12. CASE GetsMeta
  <2>1. /\ client.at = "meta" /\ down # <<>> /\ down' = Tail(down) /\ down[1].t = "meta"
        /\ UNCHANGED <<server, open>> /\ down[1].v \in 1..MaxSize
    BY <1>12, HeadOfDown DEF GetsMeta, ReceivesType, Receives
  <2>2. PICK size \in 1..MaxSize : size = down[1].v
    BY <2>1
  <2>3. PICK have \in 0..MaxSize :
          /\ up' = Append(up, Up("offset", IF have >= size THEN size ELSE have))
          /\ client' = [client EXCEPT !.size = size - (IF have >= size THEN size ELSE have),
                                      !.at = IF have >= size THEN "final" ELSE "data"]
          /\ UNCHANGED occurred
    BY <1>12, <2>1, <2>2, HeadOfDown DEF GetsMeta
  <2>4. PICK asked \in Size : /\ asked = (IF have >= size THEN size ELSE have)
                              /\ (have >= size => asked = size)
    BY <1>1 DEF Size
  <2>5. PICK x \in UpItem : x = Up("offset", asked)
    BY <1>1 DEF Up, Item, UpItem
  <2>6. x.t = "offset" /\ x.v = asked /\ After(x) = "cmd"
    BY <2>5 DEF Up, Item, After
  <2>7. /\ up' = Append(up, x) /\ client'.size = size - asked
        /\ client'.at \in {"final", "data"} /\ (client'.at = "final" => asked = size)
    BY <1>1, <2>3, <2>4, <2>5
  <2>8. Offered(1) /\ up = <<>>
    BY <1>2, <2>1 DEF Answered, Offered
  <2>9. up' = <<x>> /\ up' # <<>> /\ DOMAIN up' = {1} /\ Len(up') = 1 /\ up'[1] = x
    BY <2>7, <2>8
  <2>10. (Alive' => Alive) /\ (Garbage' => Garbage)
    BY <2>1, <2>6, <2>8, <2>9, Growing
  <2>11. Orderly'
    <3> SUFFICES ASSUME Alive'  PROVE (Fits(up) /\ End(up) # "name" /\ Closing /\ Asking /\ Turn)'
      BY DEF Orderly
    <3>1. server.at = "offset"
      BY <2>8, <2>10 DEF Offered
    <3>2. Fits(up)'
      BY <2>1, <2>6, <2>9, <3>1 DEF Fits, Due, First
    <3>3. End(up)' = "cmd"
      <4>1. (Len(up') + 1) - 1 = 1 /\ Len(up') + 1 > 1
        BY <2>9
      <4> QED  BY <2>1, <2>6, <2>9, <3>1, <4>1 DEF End, Due
    <3>4. Closing' /\ Asking' /\ Turn'
      BY <2>1, <2>6, <2>7, <2>9, <3>1, <3>3 DEF Closing, Asking, Turn
    <3> QED  BY <3>2, <3>3, <3>4
  <2>12. QuietAfter(0)'
    <3>1. QuietAfter(0 + 1) => QuietAfter(0)'
      BY <2>1, Quieter
    <3> QED  BY <2>8, <3>1 DEF Offered
  <2>13. SoftAfter(0)' /\ SoftAfter(1)' /\ \A i \in DOMAIN down' : Soft(down'[i])
    <3>1. \A i \in DOMAIN down' : i > 0
      BY <2>1, Quieter
    <3> QED  BY <2>12, <3>1 DEF QuietAfter, SoftAfter, Soft
  <2>14. Answered'
    BY <2>7, <2>13 DEF Answered, Soft
  <2>15. Fetching'
    <3> SUFFICES ASSUME Alive', open', server'.at = "offset"
                 PROVE  /\ up' # <<>> /\ client'.at \in {"data", "final"} /\ down' = <<>>
                        /\ up'[1].v = server'.size - (IF client'.at = "data" THEN client'.size ELSE 0)
      BY DEF Fetching
    <3>1. server'.size = size /\ server.size = size /\ open
      BY <2>1, <2>2, <2>8, <2>10 DEF Offered
    <3>2. down' = <<>>
      <4>1. \A i \in DOMAIN down' : FALSE
        <5>1. \A i \in DOMAIN down' : i > 0 /\ i + 1 \in DOMAIN down /\ down'[i] = down[i + 1]
          BY <2>1, Quieter
        <5> QED  BY <2>12, <3>1, <5>1 DEF QuietAfter, Notices
      <4>2. down' \in Seq(DownItem)
        BY <2>1, Quieter
      <4>3. down' # <<>> => 1 \in DOMAIN down'
        BY <4>2
      <4> QED  BY <4>1, <4>3
    <3>3. asked = size - (IF client'.at = "data" THEN size - asked ELSE 0)
      BY <1>1, <2>4, <2>7 DEF Size
    <3> QED  BY <2>6, <2>7, <2>9, <3>1, <3>2, <3>3
  <2>16. Blocked'
    BY <1>2, <2>1, <2>3, <2>10 DEF Blocked
  <2> QED  BY <2>11, <2>14, <2>15, <2>16 DEF Streams
<1>13. CASE GetsData
  <2>1. /\ client.at = "data" /\ down # <<>> /\ down' = Tail(down) /\ down[1].t = "data"
        /\ UNCHANGED <<up, server, open, occurred>> /\ client'.size = client.size - 1
        /\ client'.at = IF client.size = 1 THEN "prompt" ELSE "data"
    BY <1>1, <1>13, HeadOfDown DEF GetsData, ReceivesType, Receives
  <2>2. \A i \in DOMAIN down : Soft(down[i]) \/ (down[i].t = "data" /\ i <= client.size)
    BY <1>2, <2>1 DEF Answered
  <2>3. \A i \in DOMAIN down' : i \in Nat /\ i + 1 \in DOMAIN down /\ down'[i] = down[i + 1] /\ i > 0
    BY <2>1, Quieter
  <2>4. \A i \in DOMAIN down' : Soft(down'[i]) \/ (down'[i].t = "data" /\ i + 1 <= client.size)
    BY <2>2, <2>3
  <2>5. Answered'
    <3>1. CASE client.size = 1
      <4>1. \A i \in DOMAIN down' : Soft(down'[i])
        BY <2>3, <2>4, <3>1
      <4> QED  BY <2>1, <3>1, <4>1 DEF Answered, SoftAfter, Soft
    <3>2. CASE client.size # 1
      <4>1. \A i \in DOMAIN down' : i + 1 <= client.size => i <= client.size - 1
        BY <1>1, <2>3
      <4> QED  BY <2>1, <2>4, <3>2, <4>1 DEF Answered, Soft
    <3> QED  BY <3>1, <3>2
  <2> QED  BY <2>1, <2>5, Ordinarily DEF Ordinary
<1>14. CASE ClientLost
  <2>1. /\ client.at \in ExactPlaces \cup {"changed"} /\ client'.at = "lost" /\ down # <<>>
        /\ UNCHANGED <<up, down, server, open, occurred>>
    BY <1>1, <1>14 DEF ClientLost, Goes, Text
  <2>2. /\ Alive' <=> Alive
        /\ Garbage' <=> Garbage
        /\ Fits(up)' <=> Fits(up)
        /\ End(up)' = End(up)
    BY <2>1, SameStream
  <2>3. Orderly'
    <3> SUFFICES ASSUME Alive'  PROVE (Fits(up) /\ End(up) # "name" /\ Closing /\ Asking /\ Turn)'
      BY DEF Orderly
    <3>1. Fits(up) /\ End(up) # "name" /\ Closing /\ Asking
      BY <1>2, <2>2 DEF Orderly
    <3>2. Closing' /\ Asking' /\ Turn'
      BY <2>1, <3>1 DEF Closing, Asking, Turn, Ordinary
    <3> QED  BY <2>2, <3>1, <3>2
  <2>4. Answered'
    BY <2>1 DEF Answered
  <2>5. Fetching'
    BY <1>2, <2>1, <2>2 DEF Fetching, ExactPlaces
  <2>6. Blocked'
    BY <1>2, <2>1, <2>2 DEF Blocked
  <2> QED  BY <2>3, <2>4, <2>5, <2>6 DEF Streams
<1>15. CASE ClientEndOfFile
  <2>1. /\ client'.at \in {"gone", "prompt"} /\ down = <<>> /\ server.at = "closed"
        /\ UNCHANGED <<up, down, server, open, occurred>>
    BY <1>1, <1>15 DEF ClientEndOfFile, Goes
  <2>2. ~ Alive' /\ ~ Garbage'
    BY <2>1 DEF Alive, Garbage
  <2>3. Answered'
    BY <2>1 DEF Answered, SoftAfter
  <2> QED  BY <1>2, <2>1, <2>2, <2>3 DEF Streams, Orderly, Fetching, Blocked
<1> QED  BY <1>5, <1>6, <1>7, <1>8, <1>9, <1>10, <1>11, <1>12, <1>13, <1>14, <1>15

\* What the worker says is behind what it said before.
LEMMA Later ==
  ASSUME Types, NEW m \in Nat, Adds(m)
  PROVE  /\ down' \in Seq(DownItem) /\ DOMAIN down = 1..Len(down) /\ Len(down) \in Nat
         /\ Len(down') >= Len(down) /\ Len(down') \in Nat
         /\ down' = <<>> => down = <<>> /\ ~ (open /\ m > 0)
         /\ \A i \in DOMAIN down : i \in DOMAIN down' /\ down'[i] = down[i] /\ i \in Nat /\ i > 0
         /\ \A i \in DOMAIN down' : i \in DOMAIN down \/ (open /\ \E j \in 1..m : i = Len(down) + j)
<1>1. down \in Seq(DownItem) /\ open \in BOOLEAN /\ Len(down) \in Nat /\ DOMAIN down = 1..Len(down)
  BY DEF Types
<1>2. CASE ~ open
  <2>1. down' = down
    BY <1>2 DEF Adds
  <2>2. \A i \in DOMAIN down : i \in Nat /\ i > 0
    BY <1>1
  <2> QED  BY <1>1, <1>2, <2>1, <2>2
<1>3. CASE open
  <2>1. /\ down' \in Seq(DownItem) /\ Len(down') = Len(down) + m /\ DOMAIN down' = 1..(Len(down) + m)
        /\ \A i \in 1..Len(down) : down'[i] = down[i]
    BY <1>3 DEF Adds
  <2>2. ASSUME NEW i \in DOMAIN down', i \notin DOMAIN down  PROVE \E j \in 1..m : i = Len(down) + j
    <3>1. i - Len(down) \in 1..m /\ i = Len(down) + (i - Len(down))
      BY <1>1, <2>1, <2>2
    <3> QED  BY <3>1
  <2>3. down' = <<>> => down = <<>> /\ ~ (m > 0)
    <3>1. down' = <<>> => Len(down') = 0
      OBVIOUS
    <3> QED  BY <1>1, <2>1, <3>1
  <2>4. Len(down') >= Len(down) /\ Len(down') \in Nat
    BY <1>1, <2>1
  <2> QED  BY <1>1, <1>3, <2>1, <2>2, <2>3, <2>4
<1> QED  BY <1>1, <1>2, <1>3

Softens(m) == Adds(m) /\ (open => \A j \in 1..m : Soft(down'[Len(down) + j]))

\* More words change nothing in what was said.
LEMMA SoftAdded ==
  ASSUME Types, NEW m \in Nat, Softens(m)
  PROVE  /\ \A k \in Nat : SoftAfter(k) => SoftAfter(k)'
         /\ Hopeful' => Hopeful
         /\ down # <<>> => down'[1] = down[1]
         /\ \A i \in DOMAIN down' : i \in DOMAIN down \/ Soft(down'[i])
<1>1. /\ down' \in Seq(DownItem) /\ DOMAIN down = 1..Len(down) /\ Len(down) \in Nat
      /\ \A i \in DOMAIN down : i \in DOMAIN down' /\ down'[i] = down[i] /\ i \in Nat /\ i > 0
      /\ \A i \in DOMAIN down' : i \in DOMAIN down \/ (open /\ \E j \in 1..m : i = Len(down) + j)
  BY Later DEF Softens
<1>2. \A i \in DOMAIN down' : i \in DOMAIN down \/ Soft(down'[i])
  BY <1>1 DEF Softens
<1>3. \A k \in Nat : SoftAfter(k) => SoftAfter(k)'
  BY <1>1, <1>2 DEF SoftAfter, Soft
<1>4. down # <<>> => down'[1] = down[1]
  <2>1. down \in Seq(DownItem)
    BY DEF Types
  <2>2. down # <<>> => 1 \in DOMAIN down
    BY <2>1
  <2> QED  BY <1>1, <2>2
<1>5. Hopeful' => Hopeful
  <2> SUFFICES ASSUME down' # <<>>, ~ Soft(down'[1])  PROVE down # <<>> /\ ~ Soft(down[1])
    BY DEF Hopeful, Soft
  <2>1. 1 \in DOMAIN down'
    BY <1>1
  <2>2. 1 \in DOMAIN down
    BY <1>2, <2>1
  <2>3. down # <<>>
    BY <1>1, <2>2
  <2> QED  BY <1>1, <2>2, <2>3
<1> QED  BY <1>2, <1>3, <1>4, <1>5

\* The last item stays the last until it is the only one.
LEMMA LastStays ==
  ASSUME NEW s \in Seq(UpItem), s # <<>>
  PROVE  /\ Tail(s) # <<>> => Tail(s)[Len(Tail(s))] = s[Len(s)]
         /\ Tail(s) = <<>> => Len(s) = 1 /\ s[1] = s[Len(s)]
<1>1. /\ Tail(s) \in Seq(UpItem) /\ Len(Tail(s)) = Len(s) - 1 /\ Len(s) \in Nat \ {0}
      /\ \A i \in 1..(Len(s) - 1) : Tail(s)[i] = s[i + 1]
  BY Behead
<1>2. ASSUME Tail(s) # <<>>  PROVE Tail(s)[Len(Tail(s))] = s[Len(s)]
  <2>1. Len(Tail(s)) # 0
    BY <1>1, <1>2
  <2>2. Len(s) - 1 \in 1..(Len(s) - 1) /\ (Len(s) - 1) + 1 = Len(s)
    BY <1>1, <2>1
  <2> QED  BY <1>1, <2>2
<1>3. Tail(s) = <<>> => Len(Tail(s)) = 0
  <2>1. Len(<<>>) = 0
    OBVIOUS
  <2> QED  BY <2>1, Zenon
<1>4. Tail(s) = <<>> => Len(s) = 1
  BY <1>1, <1>3
<1> QED  BY <1>2, <1>4

\* The worker goes on with what the client sent, or answers it in words.
LEMMA Unheard ==
  ASSUME Types, Streams, Alive, UNCHANGED <<client, open>>,
         up # <<>> \/ server.at = "run", NEW m \in Nat, Softens(m),
         \/ m > 0
         \/ /\ up # <<>> /\ up' = Tail(up) /\ server.at \notin {"meta", "run"} /\ up[1].t = server.at
            /\ server.at = "name" /\ up[1].v = "gets" => server'.at = "run" /\ server'.cmd = "gets"
  PROVE  Answered'
<1>1. Answered /\ up \in Seq(UpItem)
  BY DEF Streams, Types
<1>2. /\ \A k \in Nat : SoftAfter(k) => SoftAfter(k)'
      /\ Hopeful' => Hopeful
      /\ \A i \in DOMAIN down' : i \in DOMAIN down \/ Soft(down'[i])
  BY SoftAdded
<1>3. \A i \in DOMAIN down : i \in DOMAIN down' /\ down'[i] = down[i]
  BY Later DEF Softens
<1>4. down' = <<>> => down = <<>> /\ ~ (open /\ m > 0)
  BY Later DEF Softens
<1>5. client.at \notin {"offset", "meta"}
  BY <1>1 DEF Answered, Going, Offered
<1>6. client.at = "status" => StatusOfPuts'
  <2> SUFFICES ASSUME client.at = "status"  PROVE StatusOfPuts'
    OBVIOUS
  <2>1. StatusOfPuts
    BY <1>1 DEF Answered
  <2>2. ~ Hopeful'
    BY <1>2, <2>1 DEF StatusOfPuts, Going
  <2>3. ASSUME down' = <<>>, open'  PROVE up' # <<>> /\ up'[Len(up')].t = "meta"
    <3>1. /\ up # <<>> /\ up' = Tail(up) /\ server.at \notin {"meta", "run"} /\ up[1].t = server.at
          /\ up[Len(up)].t = "meta"
      BY <1>4, <2>1, <2>3 DEF StatusOfPuts
    <3>2. /\ up' # <<>> => up'[Len(up')] = up[Len(up)]
          /\ up' = <<>> => up[1] = up[Len(up)]
      BY <1>1, <3>1, LastStays
    <3> QED  BY <3>1, <3>2
  <2> QED  BY <2>2, <2>3 DEF StatusOfPuts
<1>7. client.at = "getstatus" => StatusOfGets'
  <2> SUFFICES ASSUME client.at = "getstatus"  PROVE StatusOfGets'
    OBVIOUS
  <2>1. StatusOfGets
    BY <1>1 DEF Answered
  <2>2. ~ Hopeful'
    BY <1>2, <2>1 DEF StatusOfGets, Offered
  <2>3. ASSUME down' = <<>>, open'
        PROVE  \/ up' # <<>> /\ up'[Len(up')].t = "name" /\ up'[Len(up')].v = "gets"
               \/ server'.at = "run" /\ server'.cmd = "gets"
    <3>1. /\ up # <<>> /\ up' = Tail(up) /\ up[1].t = server.at
          /\ server.at = "name" /\ up[1].v = "gets" => server'.at = "run" /\ server'.cmd = "gets"
          /\ up[Len(up)].t = "name" /\ up[Len(up)].v = "gets"
      BY <1>4, <2>1, <2>3 DEF StatusOfGets
    <3>2. /\ up' # <<>> => up'[Len(up')] = up[Len(up)]
          /\ up' = <<>> => up[1] = up[Len(up)]
      BY <1>1, <3>1, LastStays
    <3> QED  BY <3>1, <3>2
  <2> QED  BY <2>2, <2>3 DEF StatusOfGets
<1>8. client.at = "data" =>
        \A i \in DOMAIN down' : Soft(down'[i]) \/ (down'[i].t = "data" /\ i <= client.size)
  BY <1>1, <1>2, <1>3 DEF Answered
<1> QED  BY <1>1, <1>2, <1>5, <1>6, <1>7, <1>8 DEF Answered, Soft

\* Nobody listens to the client any more, or says anything to it but a notice.
LEMMA Aside ==
  ASSUME Types, Streams, UNCHANGED <<up, client>>, ~ (open' /\ Alive'),
         Alive' => Alive /\ UNCHANGED server, occurred \subseteq occurred',
         NEW m \in Nat, Adds(m), open => \A j \in 1..m : down'[Len(down) + j].t = "notice"
  PROVE  Answered'
<1>1. Answered
  BY DEF Streams
<1>2. Softens(m)
  BY DEF Softens, Soft
<1>3. /\ \A k \in Nat : SoftAfter(k) => SoftAfter(k)'
      /\ Hopeful' => Hopeful
      /\ down # <<>> => down'[1] = down[1]
      /\ \A i \in DOMAIN down' : i \in DOMAIN down \/ Soft(down'[i])
  BY <1>2, SoftAdded
<1>4. /\ \A i \in DOMAIN down : i \in DOMAIN down' /\ down'[i] = down[i]
      /\ \A i \in DOMAIN down' : i \in DOMAIN down \/ (open /\ \E j \in 1..m : i = Len(down) + j)
      /\ Len(down') >= Len(down) /\ Len(down') \in Nat /\ Len(down) \in Nat
  BY Later
<1>5. \A k \in Nat : QuietAfter(k) => QuietAfter(k)'
  BY <1>4 DEF QuietAfter
<1>6. ASSUME NEW i \in {1, 2}, Going(i)  PROVE Going(i)'
  <2>1. SoftAfter(i + 1)'
    BY <1>3, <1>6 DEF Going
  <2> QED  BY <1>4, <1>6, <2>1 DEF Going
<1>7. ASSUME NEW i \in {1, 2}, Offered(i)  PROVE Offered(i)'
  <2>1. QuietAfter(i)'
    BY <1>5, <1>7 DEF Offered
  <2> QED  BY <1>4, <1>7, <2>1 DEF Offered
<1>8. Len(down) >= 2 => Len(down') >= 2
  BY <1>4
<1>9. StatusOfPuts => StatusOfPuts'
  <2> SUFFICES ASSUME StatusOfPuts, Hopeful'
               PROVE  /\ down'[1].t = "status" /\ up' = <<>>
                      /\ down'[1].v \in {"error", "seccomp", "go"}
                      /\ down'[1].v = "go" => Going(2)'
                      /\ down'[1].v = "error" => Len(down') >= 2
                      /\ down'[1].v # "go" => SoftAfter(1)' /\ (Alive' => server'.at = "cmd")
    BY DEF StatusOfPuts
  <2>1. /\ Hopeful /\ down[1].t = "status" /\ up = <<>>
        /\ down[1].v \in {"error", "seccomp", "go"}
        /\ down[1].v = "go" => Going(2)
        /\ down[1].v = "error" => Len(down) >= 2
        /\ down[1].v # "go" => SoftAfter(1) /\ (Alive => server.at = "cmd")
    BY <1>3 DEF StatusOfPuts
  <2>2. down'[1] = down[1]
    BY <1>3, <2>1 DEF Hopeful
  <2> QED  BY <1>3, <1>6, <1>8, <2>1, <2>2
<1>10. StatusOfGets => StatusOfGets'
  <2> SUFFICES ASSUME StatusOfGets, Hopeful'
               PROVE  /\ down'[1].t = "status" /\ up' = <<>>
                      /\ down'[1].v \in {"notfound", "ok"}
                      /\ down'[1].v = "ok" => Offered(2)'
                      /\ down'[1].v = "notfound" => /\ SoftAfter(1)' /\ (Alive' => server'.at = "cmd")
                                                    /\ Len(down') >= 2 \/ "mute" \in occurred'
    BY DEF StatusOfGets
  <2>1. /\ Hopeful /\ down[1].t = "status" /\ up = <<>>
        /\ down[1].v \in {"notfound", "ok"}
        /\ down[1].v = "ok" => Offered(2)
        /\ down[1].v = "notfound" => /\ SoftAfter(1) /\ (Alive => server.at = "cmd")
                                     /\ Len(down) >= 2 \/ "mute" \in occurred
    BY <1>3 DEF StatusOfGets
  <2>2. down'[1] = down[1]
    BY <1>3, <2>1 DEF Hopeful
  <2> QED  BY <1>3, <1>7, <1>8, <2>1, <2>2
<1>11. client.at = "data" =>
         \A i \in DOMAIN down' : Soft(down'[i]) \/ (down'[i].t = "data" /\ i <= client.size)
  BY <1>1, <1>3, <1>4 DEF Answered
<1> QED  BY <1>1, <1>3, <1>6, <1>7, <1>9, <1>10, <1>11 DEF Answered, Soft

\* Who is heard is in step.
LEMMA TakerAlive ==
  ASSUME Types, NEW t, Takes(t)
  PROVE  Alive
<1>1. server.at = t /\ up # <<>> /\ up[1].t = t /\ up[1] \in UpItem
  BY TakesHead
<1>2. t \notin {"closed", "lost", "run"}
  BY <1>1 DEF UpItem
<1> QED  BY <1>1, <1>2 DEF Alive, Garbage, Mismatched

\* The next item is taken.
LEMMA ShiftOrderly ==
  ASSUME Types, Orderly, Alive, up # <<>>, up' = Tail(up), client' = client,
         First' = After(up[1]),
         \A i \in Nat \ {0} : server'.at = "data" /\ i <= server'.size <=> server.at = "data" /\ i + 1 <= server.size,
         server.logged => server'.logged,
         2 \in DOMAIN up /\ up[2].t = "name" => server'.cmd = up[1].v,
         ~ (server'.at = "run" /\ server'.cmd = "gets")
  PROVE  Orderly' /\ ~ Garbage'
<1>1. Fits(up) /\ End(up) # "name" /\ Closing /\ Turn
  BY DEF Orderly
<1>2. Fits(up)' /\ End(up)' = End(up)
  BY <1>1, Shift
<1>3. /\ Len(up') = Len(up) - 1 /\ Len(up) \in Nat \ {0}
      /\ DOMAIN up' = 1..(Len(up) - 1) /\ DOMAIN up = 1..Len(up)
      /\ \A i \in 1..(Len(up) - 1) : up'[i] = up[i + 1]
  BY Behead DEF Types
<1>4. \A i \in DOMAIN up' : i + 1 \in DOMAIN up /\ up'[i] = up[i + 1] /\ (i + 1 = Len(up) => i = Len(up'))
  BY <1>3
<1>5. Closing'
  BY <1>1, <1>4 DEF Closing
<1>6. Asking' /\ Turn'
  BY <1>1, <1>2 DEF Asking, Turn
<1>7. ~ Garbage'
  <2> SUFFICES ASSUME server'.at = "cmd", up' # <<>>, up'[1].t = "data"  PROVE FALSE
    BY DEF Garbage
  <2>1. 1 \in DOMAIN up'
    <3>1. up' \in Seq(UpItem)
      BY Behead DEF Types
    <3> QED  BY <3>1
  <2>2. up'[1].t = Due(up, 1)'
    BY <1>2, <2>1 DEF Fits
  <2>3. Due(up, 1)' = "cmd"
    BY DEF Due, First
  <2> QED  BY <2>2, <2>3
<1> QED  BY <1>1, <1>2, <1>5, <1>6, <1>7 DEF Orderly

\* The command is done, and what comes next is another.
LEMMA Reported ==
  ASSUME Types, Orderly, Alive, up' = up, client' = client, server' = [server EXCEPT !.at = "cmd"],
         server.at = "run" \/ (server.at = "data" /\ server.size = 0)
  PROVE  Orderly' /\ ~ Garbage'
<1>1. server'.at = "cmd" /\ server'.cmd = server.cmd /\ server'.logged = server.logged
  BY DEF Types
<1>2. Fits(up) /\ End(up) # "name" /\ Closing /\ Turn
  BY DEF Orderly
<1>3. up \in Seq(UpItem) /\ DOMAIN up = 1..Len(up) /\ Len(up) \in Nat
  BY DEF Types
<1>4. ASSUME NEW i \in 1..(Len(up) + 1)  PROVE Due(up, i)' = Due(up, i)
  <2>1. ~ (server.at = "data" /\ i <= server.size)
    BY <1>3
  <2> QED  BY <1>1, <2>1 DEF Due, First
<1>5. Fits(up)'
  <2>1. ASSUME NEW i \in DOMAIN up'  PROVE up'[i].t = Due(up, i)' /\ (up'[i].t = "name" => Named(up, i)')
    <3>1. i \in DOMAIN up /\ i \in 1..(Len(up) + 1) /\ up'[i] = up[i]
      BY <1>3
    <3> QED  BY <1>1, <1>2, <1>4, <3>1 DEF Fits, Named
  <2> QED  BY <2>1 DEF Fits
<1>6. End(up)' = End(up)
  <2>1. PICK k \in 1..(Len(up) + 1) : k = Len(up) + 1
    <3>1. Len(up) + 1 \in 1..(Len(up) + 1)
      BY <1>3
    <3> QED  BY <3>1
  <2>2. Due(up, k)' = Due(up, k)
    BY <1>4
  <2>3. End(up)' = Due(up, k)'
    BY <2>1 DEF End, Due
  <2> QED  BY <2>1, <2>2, <2>3 DEF End
<1>7. Closing' /\ Asking' /\ Turn'
  BY <1>1, <1>2, <1>6 DEF Closing, Asking, Turn
<1>8. ~ Garbage'
  <2> SUFFICES ASSUME up' # <<>>, up'[1].t = "data"  PROVE FALSE
    BY DEF Garbage
  <2>1. 1 \in DOMAIN up'
    BY <1>3
  <2>2. up'[1].t = Due(up, 1)'
    BY <1>5, <2>1 DEF Fits
  <2>3. Due(up, 1)' = "cmd"
    BY <1>1 DEF Due, First
  <2> QED  BY <2>2, <2>3
<1> QED  BY <1>2, <1>5, <1>6, <1>7, <1>8 DEF Orderly

\* Nothing more is on the way, nor will be until the client is answered.
LEMMA Emptied ==
  ASSUME up' = <<>>, client' = client, client.at \in {"status", "getstatus", "lost"},
         server'.at \in {"cmd", "data", "offset", "run"},
         server'.at = "run" /\ server'.cmd = "gets" => client.at # "status"
  PROVE  Orderly' /\ ~ Garbage'
<1>1. DOMAIN up' = {} /\ Len(up') = 0
  OBVIOUS
<1>2. End(up)' # "name"
  <2>1. ~ (Len(up') + 1 > 1)
    BY <1>1
  <2> QED  BY <2>1 DEF End, Due, First
<1>3. Fits(up)' /\ Closing'
  BY <1>1 DEF Fits, Closing
<1>4. Asking' /\ Turn' /\ ~ Garbage'
  BY DEF Asking, Turn, Garbage, Ordinary
<1> QED  BY <1>2, <1>3, <1>4 DEF Orderly

\* What is to be shown of a worker that neither waits for an offset nor is lost.
LEMMA Onward ==
  ASSUME Orderly' \/ ~ Alive', ~ Garbage', Answered', server'.at \notin {"offset", "lost"}
  PROVE  Streams'
  BY DEF Streams, Orderly, Fetching, Blocked

LEMMA Silence ==
  ASSUME Types, down' = down
  PROVE  Softens(0)
<1>1. down \in Seq(DownItem) /\ Len(down) \in Nat /\ DOMAIN down = 1..Len(down)
  BY DEF Types
<1>2. Len(down) + 0 = Len(down) /\ 1..0 = {}
  BY <1>1
<1> QED  BY <1>1, <1>2 DEF Softens, Adds

LEMMA Sentence ==
  ASSUME Types, NEW v \in Sentences, Answers(<<<<"text", v>>>>)
  PROVE  Softens(1)
<1>1. Adds(1) /\ (open => down'[Len(down) + 1] = Item("text", v, server.of))
  BY Said
<1> QED  BY <1>1 DEF Softens, Soft, Item

\* The worker reads what it is to do.
LEMMA ReadingStreams ==
  ASSUME Types, Types', Welcome, Streams, ReceiveCommand \/ ReceiveName \/ HandleUser
  PROVE  Streams'
<1>1. /\ up \in Seq(UpItem) /\ DOMAIN up = 1..Len(up) /\ Len(up) \in Nat /\ 2 - 1 = 1
      /\ server \in [at : ServerPlaces, cmd : Spoken \cup {"none"}, of : Nat, size : Size,
                     logged : BOOLEAN]
  BY DEF Types
<1>2. PICK t \in {"cmd", "name", "password"} : Takes(t)
  BY DEF ReceiveCommand, ReceiveName, HandleUser
<1>3. /\ server.at = t /\ up # <<>> /\ up[1] = Head(up) /\ up[1].t = t /\ up' = Tail(up)
      /\ up[1] \in UpItem /\ 1 \in DOMAIN up /\ (t # "password" => up[1].v \in Spoken)
  BY <1>2, TakesHead, HeadOfUp
<1>4. Alive
  BY <1>2, TakerAlive
<1>5. Orderly /\ Fits(up) /\ Closing
  BY <1>4 DEF Streams, Orderly
<1>6. UNCHANGED <<client, open>>
  BY DEF ReceiveCommand, ReceiveName, HandleUser
<1>7. 2 \in DOMAIN up /\ up[2].t = "name" => After(up[1]) = "name"
  <2>1. 2 \in DOMAIN up => up[2].t = Due(up, 2)
    BY <1>5 DEF Fits
  <2>2. Due(up, 2) = After(up[1])
    BY <1>1, <1>3 DEF Due
  <2> QED  BY <2>1, <2>2
<1>8. server'.at # "data" =>
        \A i \in Nat \ {0} : server'.at = "data" /\ i <= server'.size <=> server.at = "data" /\ i + 1 <= server.size
  BY <1>3
<1>9. CASE ReceiveCommand
  <2>1. t = "cmd" /\ down' = down
    BY <1>3, <1>9 DEF ReceiveCommand, Takes
  <2>2. PICK cmd \in Spoken : cmd = up[1].v
    BY <1>3, <2>1
  <2>3. \/ cmd = "ping" /\ server' = server
        \/ /\ cmd # "ping" /\ server'.cmd = cmd /\ server'.logged = server.logged
           /\ server'.at = IF cmd \in {"pwd", "ls"} THEN "run" ELSE "name"
    BY <1>1, <1>3, <1>9, <2>2 DEF ReceiveCommand
  <2>4. /\ First' = After(up[1]) /\ (cmd = "ping" => After(up[1]) = "cmd")
        /\ server'.at \in {"cmd", "run", "name"} /\ server'.logged = server.logged
        /\ ~ (server'.at = "run" /\ server'.cmd = "gets")
    BY <1>3, <2>1, <2>2, <2>3 DEF First, After
  <2>5. Orderly' /\ ~ Garbage'
    BY <1>3, <1>4, <1>5, <1>6, <1>7, <1>8, <2>2, <2>3, <2>4, ShiftOrderly
  <2>6. Answered'
    BY <1>3, <1>4, <1>6, <2>1, Silence, Unheard
  <2> QED  BY <2>4, <2>5, <2>6, Onward
<1>10. CASE ReceiveName
  <2>1. t = "name" /\ down' = down
    BY <1>3, <1>10 DEF ReceiveName, Takes
  <2>2. /\ server'.at = (IF ~ server.logged THEN "password" ELSE IF server.cmd = "puts" THEN "meta" ELSE "run")
        /\ server'.cmd = server.cmd /\ server'.logged = server.logged
    BY <1>1, <1>10 DEF ReceiveName, Awaits
  <2>3. up[1].v = server.cmd /\ (up[1].v \in Identifying \/ server.logged)
    BY <1>3, <1>5, <2>1 DEF Fits, Named
  <2>4. server'.at \in {"password", "meta", "run"} /\ ~ Garbage'
    BY <2>2 DEF Garbage
  <2>5. After(up[1]) # "name"
    BY <1>3, <2>1 DEF After
  <2>6. Orderly' \/ ~ Alive'
    <3>1. CASE server'.at = "run" /\ server.cmd \in Identifying
      BY <2>2, <3>1 DEF Alive, Mismatched
    <3>2. CASE server'.at = "run" /\ server.cmd = "gets"
      <4>1. Len(up) = 1 /\ client.at \in {"getstatus", "lost"}
        BY <1>3, <1>5, <2>1, <2>3, <3>2 DEF Closing
      <4>2. up' = <<>>
        BY <1>1, <1>3, <4>1
      <4> QED  BY <1>6, <3>2, <4>1, <4>2, Emptied
    <3>3. CASE server'.at = "run" => server.cmd \notin Identifying \cup {"gets"}
      <4>1. First' = After(up[1])
        BY <1>3, <2>1, <2>2, <2>3, <3>3 DEF First, After, Identifying
      <4> QED  BY <1>3, <1>4, <1>5, <1>6, <1>7, <1>8, <2>2, <2>4, <2>5, <3>3, <4>1, ShiftOrderly
    <3> QED  BY <3>1, <3>2, <3>3
  <2>7. Answered'
    <3>1. up[1].v = "gets" => server'.at = "run" /\ server'.cmd = "gets"
      BY <2>2, <2>3 DEF Identifying
    <3> QED  BY <1>3, <1>4, <1>6, <2>1, <3>1, Silence, Unheard
  <2> QED  BY <2>4, <2>6, <2>7, Onward
<1>11. CASE HandleUser
  <2>1. t = "password"
    BY <1>3, <1>11 DEF HandleUser, Takes
  <2>2. /\ server'.at = "cmd" /\ server'.cmd = server.cmd
        /\ \/ Softens(0)
           \/ Softens(1)
    <3>1. CASE Awaits("cmd") /\ UNCHANGED down
      BY <1>1, <3>1, Silence DEF Awaits
    <3>2. ASSUME NEW v \in {"success", "refused", "norootdir"}, Answers(<<<<"text", v>>>>),
                 server' = [server EXCEPT !.at = "cmd", !.logged = v = "success"]
          PROVE  server'.at = "cmd" /\ server'.cmd = server.cmd /\ Softens(1)
      BY <1>1, <3>2, Sentence DEF Sentences
    <3> QED  BY <1>11, <3>1, <3>2 DEF HandleUser
  <2>3. First' = After(up[1]) /\ After(up[1]) = "cmd"
    BY <1>3, <2>1, <2>2 DEF First, After
  <2>4. ~ server.logged
    BY <1>3, <2>1 DEF Welcome
  <2>5. Orderly' /\ ~ Garbage'
    BY <1>3, <1>4, <1>5, <1>6, <1>7, <1>8, <2>2, <2>3, <2>4, ShiftOrderly
  <2>6. Answered'
    <3>1. PICK m \in {0, 1} : Softens(m)
      BY <2>2
    <3>2. m \in Nat
      OBVIOUS
    <3> QED  BY <1>3, <1>4, <1>6, <2>1, <3>1, <3>2, Unheard
  <2> QED  BY <2>2, <2>5, <2>6, Onward
<1> QED  BY <1>9, <1>10, <1>11

\* The worker answers in words.
LEMMA SayingStreams ==
  ASSUME Types, Types', Streams, List \/ Pwd \/ Cd \/ Change
  PROVE  Streams'
<1>1. server \in [at : ServerPlaces, cmd : Spoken \cup {"none"}, of : Nat, size : Size,
                  logged : BOOLEAN]
  BY DEF Types
<1>2. /\ server.at = "run" /\ server.cmd \in {"ls", "pwd", "cd", "mkdir", "rmdir", "remove"}
      /\ server' = [server EXCEPT !.at = "cmd"] /\ UNCHANGED <<up, client, open>>
  BY DEF List, Pwd, Cd, Change, Runs, Awaits
<1>3. Alive
  BY <1>2 DEF Alive, Garbage, Mismatched, Identifying
<1>4. Softens(1) \/ Softens(2)
  <2>1. CASE \E v \in Sentences : Answers(<<<<"text", v>>>>)
    BY <2>1, Sentence
  <2>2. ASSUME NEW v \in {"path", "nopath"}, Answers(<<<<"text", "changed">>, <<"text", v>>>>)
        PROVE  Softens(2)
    <3>1. Item("text", "changed", server.of) \in DownItem /\ Item("text", v, server.of) \in DownItem
      BY Sayings DEF Sentences
    <3>2. Adds(2) /\ (open => /\ down'[Len(down) + 1] = Item("text", "changed", server.of)
                              /\ down'[Len(down) + 2] = Item("text", v, server.of))
      <4> HIDE DEF Item
      <4> QED  BY <2>2, <3>1, AnswersTwo
    <3>3. Item("text", "changed", server.of).t = "text" /\ Item("text", v, server.of).t = "text"
      BY DEF Item
    <3> HIDE DEF Item
    <3>4. \A j \in 1..2 : j = 1 \/ j = 2
      OBVIOUS
    <3> QED  BY <3>2, <3>3, <3>4 DEF Softens, Soft
  <2>3. \/ \E v \in Sentences : Answers(<<<<"text", v>>>>)
        \/ \E v \in {"path", "nopath"} : Answers(<<<<"text", "changed">>, <<"text", v>>>>)
    BY DEF List, Pwd, Cd, Change, Sentences
  <2> QED  BY <2>1, <2>2, <2>3
<1>5. PICK m \in {1, 2} : Softens(m)
  BY <1>4
<1>6. m \in Nat /\ m > 0
  OBVIOUS
<1>7. Answered'
  BY <1>2, <1>3, <1>5, <1>6, Unheard
<1>8. Orderly' /\ ~ Garbage'
  BY <1>2, <1>3, Reported DEF Streams
<1>9. server'.at = "cmd"
  BY <1>1, <1>2
<1> QED  BY <1>7, <1>8, <1>9, Onward

\* The worker has size and hash, and nothing else is on the way.
LEMMA PutsStreams ==
  ASSUME Types, Types', Streams, AnswerPuts
  PROVE  Streams'
<1>1. /\ up \in Seq(UpItem) /\ DOMAIN up = 1..Len(up) /\ Len(up) \in Nat
      /\ down \in Seq(DownItem) /\ Len(down) \in Nat /\ open \in BOOLEAN
      /\ server \in [at : ServerPlaces, cmd : Spoken \cup {"none"}, of : Nat, size : Size,
                     logged : BOOLEAN]
  BY DEF Types
<1>2. Takes("meta") /\ UNCHANGED <<client, open>>
  BY DEF AnswerPuts
<1>3. /\ server.at = "meta" /\ up # <<>> /\ up[1] = Head(up) /\ up[1].t = "meta" /\ up' = Tail(up)
      /\ 1 \in DOMAIN up /\ up[1].v \in Size
  BY <1>2, TakesHead, HeadOfUp
<1>4. Alive
  BY <1>2, TakerAlive
<1>5. Len(up) = 1 /\ client.at \in {"status", "lost"} /\ (client.at = "status" => up[1].v = client.size)
  BY <1>3, <1>4 DEF Streams, Orderly, Closing
<1>6. up' = <<>>
  BY <1>1, <1>3, <1>5
\* The answer in full, if there is anybody to hear it and nothing in front of it.
<1>7. ASSUME Orderly', ~ Garbage', server'.at \in {"cmd", "data"}, NEW m \in Nat, m > 0, Adds(m),
             open /\ down = <<>> /\ client.at = "status" =>
               /\ down'[1].t = "status"
               /\ down'[1].v \in {"error", "seccomp", "go"}
               /\ down'[1].v = "go" => Going(2)'
               /\ down'[1].v = "error" => Len(down') >= 2
               /\ down'[1].v # "go" => SoftAfter(1)' /\ (Alive' => server'.at = "cmd")
      PROVE  Streams'
  <2>1. Answered'
    <3>1. ASSUME client.at = "status"  PROVE StatusOfPuts'
      <4>1. ~ Hopeful
        BY <1>3, <3>1 DEF Streams, Answered, StatusOfPuts
      <4>2. CASE down # <<>>
        <5>1. /\ 1 \in DOMAIN down
          BY <1>1, <4>2
        <5>2. down'[1] = down[1] /\ down' # <<>>
          BY <1>7, <4>2, <5>1, Later
        <5>3. ~ Hopeful'
          BY <4>1, <4>2, <5>2 DEF Hopeful, Soft
        <5> QED  BY <5>2, <5>3 DEF StatusOfPuts
      <4>3. CASE ~ open
        <5>1. down' = down
          BY <1>7, <4>3 DEF Adds
        <5>2. ~ Hopeful'
          BY <4>1, <5>1 DEF Hopeful, Soft
        <5> QED  BY <1>2, <4>3, <5>2 DEF StatusOfPuts
      <4>4. CASE open /\ down = <<>>
        <5>1. down' # <<>>
          BY <1>7, <4>4, Later
        <5> QED  BY <1>6, <1>7, <3>1, <4>4, <5>1 DEF StatusOfPuts
      <4> QED  BY <1>1, <4>2, <4>3, <4>4
    <3> QED  BY <1>2, <1>5, <3>1 DEF Answered
  <2> QED  BY <1>7, <2>1, Onward
<1>8. server'.at \in {"cmd", "data"} => Orderly' /\ ~ Garbage'
  BY <1>2, <1>5, <1>6, Emptied
<1>9. CASE Answers(<<<<"status", "error">>, <<"text", "failed">>>>) /\ Awaits("cmd")
  <2>1. server'.at = "cmd"
    BY <1>1, <1>9 DEF Awaits
  <2>2. Item("status", "error", server.of) \in DownItem /\ Item("text", "failed", server.of) \in DownItem
    BY Sayings DEF Sentences
  <2>3. Adds(2) /\ (open => /\ down'[Len(down) + 1] = Item("status", "error", server.of)
                            /\ down'[Len(down) + 2] = Item("text", "failed", server.of))
    <3> HIDE DEF Item
    <3> QED  BY <1>9, <2>2, AnswersTwo
  <2>4. open /\ down = <<>> =>
          /\ down'[1].t = "status" /\ down'[1].v = "error" /\ down'[2].t = "text"
          /\ Len(down') = 2 /\ DOMAIN down' = 1..2
    BY <2>3 DEF Adds, Item
  <2>5. open /\ down = <<>> => SoftAfter(1)' /\ Len(down') >= 2
    <3> SUFFICES ASSUME open, down = <<>>  PROVE SoftAfter(1)' /\ Len(down') >= 2
      OBVIOUS
    <3>1. \A i \in 1..2 : i > 1 => i = 2
      OBVIOUS
    <3>2. \A i \in DOMAIN down' : i > 1 => down'[i].t = "text"
      BY <2>4, <3>1
    <3>3. Len(down') = 2
      BY <2>4
    <3>4. Len(down') >= 2
      BY <3>3
    <3> QED  BY <3>2, <3>4 DEF SoftAfter, Soft
  <2> QED  BY <1>7, <1>8, <2>1, <2>3, <2>4, <2>5
<1>10. CASE Answers(<<<<"status", "seccomp">>>>) /\ Awaits("cmd")
  <2>1. server'.at = "cmd"
    BY <1>1, <1>10 DEF Awaits
  <2>2. Adds(1) /\ (open => down'[Len(down) + 1] = Item("status", "seccomp", server.of))
    BY <1>10, Sayings, AnswersOne
  <2>3. open /\ down = <<>> =>
          /\ down'[1].t = "status" /\ down'[1].v = "seccomp" /\ DOMAIN down' = 1..1
    BY <2>2 DEF Adds, Item
  <2>4. open /\ down = <<>> => SoftAfter(1)'
    BY <2>3 DEF SoftAfter
  <2> QED  BY <1>7, <1>8, <2>1, <2>2, <2>3, <2>4
<1>11. ASSUME NEW k \in 0..Head(up).v, Answers(<<<<"status", "go">>, <<"offset", k>>>>),
              server' = [server EXCEPT !.at = "data", !.size = Head(up).v - k]
       PROVE  Streams'
  <2>1. server'.at = "data" /\ server'.size = up[1].v - k /\ k \in Size /\ k <= up[1].v
    BY <1>1, <1>3, <1>11, BoundsNat DEF Size
  <2>2. Item("status", "go", server.of) \in DownItem /\ Item("offset", k, server.of) \in DownItem
    BY <2>1, Sayings
  <2>3. Adds(2) /\ (open => /\ down'[Len(down) + 1] = Item("status", "go", server.of)
                            /\ down'[Len(down) + 2] = Item("offset", k, server.of))
    <3> HIDE DEF Item
    <3> QED  BY <1>11, <2>2, AnswersTwo
  <2>4. open /\ down = <<>> =>
          /\ down'[1].t = "status" /\ down'[1].v = "go" /\ down'[2].t = "offset" /\ down'[2].v = k
          /\ DOMAIN down' = 1..2
    BY <2>3 DEF Adds, Item
  <2>5. open /\ down = <<>> /\ client.at = "status" => Going(2)'
    <3> SUFFICES ASSUME open, down = <<>>, client.at = "status"  PROVE Going(2)'
      OBVIOUS
    <3>1. 2 \in DOMAIN down' /\ SoftAfter(2 + 1)'
      BY <2>4 DEF SoftAfter
    <3> QED  BY <1>2, <1>5, <1>6, <2>1, <2>4, <3>1 DEF Going
  <2> QED  BY <1>7, <1>8, <2>1, <2>3, <2>4, <2>5
<1>12. ASSUME NEW k \in 0..Head(up).v,
              Answers(<<<<"status", "go">>, <<"offset", k>>, <<"status", "error">>>>), Awaits("cmd"),
              Faults({"open"})
       PROVE  Streams'
  <2>1. server'.at = "cmd" /\ k \in Size /\ k <= up[1].v /\ "open" \in occurred'
    BY <1>1, <1>3, <1>12, BoundsNat DEF Size, Awaits, Faults
  <2>2. /\ Item("status", "go", server.of) \in DownItem /\ Item("offset", k, server.of) \in DownItem
        /\ Item("status", "error", server.of) \in DownItem
    BY <2>1, Sayings
  <2>3. Adds(3) /\ (open => /\ down'[Len(down) + 1] = Item("status", "go", server.of)
                            /\ down'[Len(down) + 2] = Item("offset", k, server.of))
    <3> HIDE DEF Item
    <3> QED  BY <1>12, <2>2, AnswersThree
  <2>4. open /\ down = <<>> =>
          /\ down'[1].t = "status" /\ down'[1].v = "go" /\ down'[2].t = "offset" /\ down'[2].v = k
          /\ DOMAIN down' = 1..3 /\ Len(down') = 3
    BY <2>3 DEF Adds, Item
  <2>5. open /\ down = <<>> /\ client.at = "status" => Going(2)'
    <3>0. SUFFICES ASSUME open, down = <<>>, client.at = "status"  PROVE Going(2)'
      OBVIOUS
    <3>1. 2 \in DOMAIN down' /\ SoftAfter(2 + 1)' /\ Len(down') > 2
      <4>1. \A i \in 1..3 : ~ (i > 2 + 1)
        OBVIOUS
      <4>2. DOMAIN down' = 1..3 /\ Len(down') = 3
        BY <2>4, <3>0
      <4>3. SoftAfter(2 + 1)'
        BY <4>1, <4>2 DEF SoftAfter
      <4> QED  BY <4>2, <4>3
    <3> QED  BY <1>2, <1>5, <1>6, <2>1, <2>4, <3>0, <3>1 DEF Going
  <2> QED  BY <1>7, <1>8, <2>1, <2>3, <2>4, <2>5
<1> QED  BY <1>9, <1>10, <1>11, <1>12 DEF AnswerPuts

\* A block arrives, or cannot be written.
LEMMA DataStreams ==
  ASSUME Types, Types', Streams, ReceiveData
  PROVE  Streams'
<1>1. /\ up \in Seq(UpItem) /\ DOMAIN up = 1..Len(up) /\ Len(up) \in Nat /\ 2 - 1 = 1
      /\ server \in [at : ServerPlaces, cmd : Spoken \cup {"none"}, of : Nat, size : Size,
                     logged : BOOLEAN]
      /\ server.size \in Nat /\ MaxSize \in Nat
  BY BoundsNat DEF Types, Size
<1>2. Takes("data") /\ server.size > 0 /\ UNCHANGED <<client, open>>
  BY DEF ReceiveData
<1>3. /\ server.at = "data" /\ up # <<>> /\ up[1].t = "data" /\ up' = Tail(up) /\ 1 \in DOMAIN up
  BY <1>2, TakesHead, HeadOfUp
<1>4. Alive
  BY <1>2, TakerAlive
<1>5. Orderly /\ Fits(up) /\ Turn
  BY <1>4 DEF Streams, Orderly
<1>6. After(up[1]) = "cmd"
  BY <1>3 DEF After
<1>7. 2 \in DOMAIN up => up[2].t = IF 2 <= server.size THEN "data" ELSE "cmd"
  <2>1. 2 \in DOMAIN up => up[2].t = Due(up, 2)
    BY <1>5 DEF Fits
  <2> QED  BY <1>1, <1>3, <1>6, <2>1 DEF Due
<1>8. CASE server' = [server EXCEPT !.size = @ - 1] /\ UNCHANGED <<down, occurred>>
  <2>1. server'.at = "data" /\ server'.size = server.size - 1 /\ server'.logged = server.logged
    BY <1>1, <1>3, <1>8
  <2>2. \A i \in Nat \ {0} : server'.at = "data" /\ i <= server'.size <=> server.at = "data" /\ i + 1 <= server.size
    BY <1>1, <1>3, <2>1
  <2>3. First' = After(up[1])
    BY <1>6, <2>1 DEF First
  <2>4. Orderly' /\ ~ Garbage'
    BY <1>2, <1>3, <1>4, <1>5, <1>7, <2>1, <2>2, <2>3, ShiftOrderly
  <2>5. Answered'
    BY <1>2, <1>3, <1>4, <1>8, Silence, Unheard
  <2> QED  BY <2>1, <2>4, <2>5, Onward
<1>9. CASE Answers(<<<<"text", "interrupted">>>>) /\ Awaits("cmd") /\ Faults({"write"})
  <2>1. server'.at = "cmd" /\ server'.logged = server.logged /\ "write" \in occurred'
    BY <1>1, <1>9 DEF Awaits, Faults
  <2>2. Answered'
    <3>1. Softens(1) /\ 1 \in Nat /\ 1 > 0
      BY <1>9, Sentence DEF Sentences
    <3> QED  BY <1>2, <1>3, <1>4, <3>1, Unheard
  <2>3. Orderly' \/ ~ Alive'
    <3>1. CASE server.size = 1
      <4>1. \A i \in Nat \ {0} : server'.at = "data" /\ i <= server'.size <=> server.at = "data" /\ i + 1 <= server.size
        BY <2>1, <3>1
      <4>2. First' = After(up[1])
        BY <1>6, <2>1 DEF First
      <4> QED  BY <1>2, <1>3, <1>4, <1>5, <1>7, <2>1, <4>1, <4>2, ShiftOrderly
    <3>2. CASE server.size # 1 /\ up' = <<>>
      <4>1. Len(up) = 1 /\ 2 <= server.size
        BY <1>1, <1>2, <1>3, <3>2, LastStays
      <4>2. End(up) = "data"
        <5>1. Len(up) + 1 = 2
          BY <4>1
        <5> QED  BY <1>3, <4>1, <5>1 DEF End, Due
      <4>3. DOMAIN up' = {} /\ Len(up') = 0
        BY <3>2
      <4>4. End(up)' = "cmd"
        <5>1. ~ (Len(up') + 1 > 1)
          BY <4>3
        <5> QED  BY <2>1, <5>1 DEF End, Due, First
      <4>5. Turn' /\ Asking'
        BY <1>2, <1>5, <2>1, <4>2, <4>4 DEF Turn, Asking
      <4> QED  BY <4>3, <4>4, <4>5 DEF Orderly, Fits, Closing
    <3>3. CASE server.size # 1 /\ up' # <<>>
      <4>1. 2 \in DOMAIN up /\ 2 <= server.size /\ up'[1] = up[2]
        <5>1. /\ up' \in Seq(UpItem) /\ Len(up') = Len(up) - 1 /\ \A i \in 1..(Len(up) - 1) : up'[i] = up[i + 1]
          BY <1>1, <1>3, Behead
        <5>2. Len(up') # 0
          BY <3>3, <5>1
        <5>3. 1 \in 1..(Len(up) - 1) /\ 1 + 1 = 2 /\ 2 \in DOMAIN up /\ 2 <= server.size
          BY <1>1, <1>2, <3>3, <5>1, <5>2
        <5> QED  BY <5>1, <5>3
      <4>2. up'[1].t = "data"
        BY <1>7, <4>1
      <4> QED  BY <2>1, <3>3, <4>2 DEF Alive, Garbage
    <3> QED  BY <3>1, <3>2, <3>3
  <2> QED  BY <2>1, <2>2, <2>3 DEF Streams, Orderly, Fetching, Blocked
<1> QED  BY <1>8, <1>9 DEF ReceiveData

\* The upload is complete.
LEMMA FinishStreams ==
  ASSUME Types, Types', Streams, FinishPuts
  PROVE  Streams'
<1>1. /\ server \in [at : ServerPlaces, cmd : Spoken \cup {"none"}, of : Nat, size : Size,
                     logged : BOOLEAN]
      /\ client.size \in Nat /\ MaxSize \in Nat /\ open \in BOOLEAN /\ down \in Seq(DownItem)
      /\ Len(down) \in Nat /\ DOMAIN down = 1..Len(down)
  BY BoundsNat DEF Types, Size
<1>2. /\ server.at = "data" /\ server.size = 0 /\ UNCHANGED <<up, client, open, occurred>>
      /\ server' = [server EXCEPT !.at = "cmd"] /\ server'.at = "cmd"
  BY <1>1 DEF FinishPuts, Awaits
<1>3. Alive
  BY <1>2 DEF Alive, Garbage, Mismatched
<1>4. Orderly' /\ ~ Garbage'
  BY <1>2, <1>3, Reported DEF Streams
<1>5. Softens(1) /\ 1 \in Nat
  BY Sentence DEF FinishPuts, Sentences
<1>6. /\ \A k \in Nat : SoftAfter(k) => SoftAfter(k)'
      /\ Hopeful' => Hopeful
      /\ down # <<>> => down'[1] = down[1]
      /\ \A i \in DOMAIN down' : i \in DOMAIN down \/ Soft(down'[i])
  BY <1>5, SoftAdded
<1>7. /\ \A i \in DOMAIN down : i \in DOMAIN down' /\ down'[i] = down[i]
      /\ open => down' # <<>>
  BY <1>5, Later DEF Softens
<1>8. Answered
  BY DEF Streams
<1>9. ASSUME NEW i \in {1, 2}, Going(i)  PROVE Going(i)'
  <2>1. i \in DOMAIN down' /\ down'[i] = down[i] /\ SoftAfter(i + 1)'
    BY <1>6, <1>7, <1>9 DEF Going
  <2>2. open => Len(down') > i
    <3>1. open => Len(down') = Len(down) + 1
      BY <1>5 DEF Softens, Adds
    <3>2. i <= Len(down)
      BY <1>1, <1>9 DEF Going
    <3> QED  BY <1>1, <3>1, <3>2
  <2>3. down[i].v = client.size
    <3>1. 0 = client.size - down[i].v
      BY <1>2, <1>3, <1>9 DEF Going
    <3>2. down[i] \in DownItem /\ down[i].t = "offset"
      BY <1>1, <1>9 DEF Going
    <3>3. down[i].v \in Nat
      BY <1>1, <3>2 DEF DownItem, Size
    <3> QED  BY <1>1, <3>1, <3>3
  <2> QED  BY <1>2, <1>9, <2>1, <2>2, <2>3 DEF Going
<1>10. client.at \in {"getstatus", "meta"} => client.at = "getstatus" /\ ~ Hopeful
  BY <1>2, <1>3, <1>8 DEF Answered, StatusOfGets, Offered
<1>11. client.at = "status" => StatusOfPuts'
  <2> SUFFICES ASSUME client.at = "status"  PROVE StatusOfPuts'
    OBVIOUS
  <2>1. Hopeful => down[1].t = "status" /\ up = <<>> /\ down[1].v = "go" /\ Going(2)
    BY <1>2, <1>3, <1>8 DEF Answered, StatusOfPuts
  <2>2. Hopeful' => Hopeful /\ down'[1] = down[1]
    BY <1>6 DEF Hopeful
  <2> QED  BY <1>2, <1>7, <1>9, <2>1, <2>2 DEF StatusOfPuts
<1>12. client.at = "getstatus" => StatusOfGets'
  BY <1>2, <1>6, <1>7, <1>10 DEF StatusOfGets
<1>13. client.at = "data" =>
         \A i \in DOMAIN down' : Soft(down'[i]) \/ (down'[i].t = "data" /\ i <= client.size)
  BY <1>6, <1>7, <1>8 DEF Answered
<1>14. Answered'
  BY <1>2, <1>6, <1>8, <1>9, <1>10, <1>11, <1>12, <1>13 DEF Answered, Soft
<1> QED  BY <1>2, <1>4, <1>14, Onward

\* The answer to gets, which the client awaits with nothing on the way.
LEMMA GetsStreams ==
  ASSUME Types, Types', Streams, AnswerGets
  PROVE  Streams'
<1>1. /\ server \in [at : ServerPlaces, cmd : Spoken \cup {"none"}, of : Nat, size : Size,
                     logged : BOOLEAN]
      /\ MaxSize \in Nat /\ open \in BOOLEAN /\ down \in Seq(DownItem) /\ Len(down) \in Nat
  BY BoundsNat DEF Types
<1>2. server.at = "run" /\ server.cmd = "gets" /\ UNCHANGED <<up, client, open>>
  BY DEF AnswerGets, Runs
<1>3. Alive
  BY <1>2 DEF Alive, Garbage, Mismatched, Identifying
<1>4. up = <<>> /\ client.at \in {"getstatus", "lost"}
  BY <1>2, <1>3 DEF Streams, Orderly, Asking
<1>5. ASSUME server'.at \in {"cmd", "offset"}, NEW m \in Nat, m > 0, Adds(m),
             open /\ down = <<>> /\ client.at = "getstatus" =>
               /\ down'[1].t = "status"
               /\ down'[1].v \in {"notfound", "ok"}
               /\ down'[1].v = "ok" => Offered(2)'
               /\ down'[1].v = "notfound" => /\ SoftAfter(1)' /\ (Alive' => server'.at = "cmd")
                                             /\ Len(down') >= 2 \/ "mute" \in occurred'
      PROVE  Streams'
  <2>1. Orderly' /\ ~ Garbage'
    BY <1>2, <1>4, <1>5, Emptied
  <2>2. ASSUME client.at = "getstatus"  PROVE StatusOfGets'
    <3>1. ~ Hopeful
      BY <1>2, <1>3, <2>2 DEF Streams, Answered, StatusOfGets, Offered
    <3>2. CASE down # <<>>
      <4>1. 1 \in DOMAIN down
        BY <1>1, <3>2
      <4>2. down'[1] = down[1] /\ down' # <<>>
        BY <1>5, <3>2, <4>1, Later
      <4>3. ~ Hopeful'
        BY <3>1, <3>2, <4>2 DEF Hopeful, Soft
      <4> QED  BY <4>2, <4>3 DEF StatusOfGets
    <3>3. CASE ~ open
      <4>1. down' = down
        BY <1>5, <3>3 DEF Adds
      <4>2. ~ Hopeful'
        BY <3>1, <4>1 DEF Hopeful, Soft
      <4> QED  BY <1>2, <3>3, <4>2 DEF StatusOfGets
    <3>4. CASE open /\ down = <<>>
      <4>1. down' # <<>>
        BY <1>5, <3>4, Later
      <4> QED  BY <1>2, <1>4, <1>5, <2>2, <3>4, <4>1 DEF StatusOfGets
    <3> QED  BY <1>1, <3>2, <3>3, <3>4
  <2>3. Answered'
    BY <1>2, <1>4, <2>2 DEF Answered
  <2>4. Fetching'
    BY <1>2, <1>4 DEF Fetching
  <2>5. Blocked'
    BY <1>5, <2>1 DEF Blocked
  <2> QED  BY <2>1, <2>3, <2>4, <2>5 DEF Streams
<1>6. CASE Answers(<<<<"status", "notfound">>, <<"text", "failed">>>>) /\ Awaits("cmd")
  <2>1. server'.at = "cmd"
    BY <1>1, <1>6 DEF Awaits
  <2>2. Item("status", "notfound", server.of) \in DownItem /\ Item("text", "failed", server.of) \in DownItem
    BY Sayings DEF Sentences
  <2>3. Adds(2) /\ (open => /\ down'[Len(down) + 1] = Item("status", "notfound", server.of)
                            /\ down'[Len(down) + 2] = Item("text", "failed", server.of))
    <3> HIDE DEF Item
    <3> QED  BY <1>6, <2>2, AnswersTwo
  <2>4. open /\ down = <<>> =>
          /\ down'[1].t = "status" /\ down'[1].v = "notfound" /\ down'[2].t = "text"
          /\ Len(down') = 2 /\ DOMAIN down' = 1..2
    BY <2>3 DEF Adds, Item
  <2>5. open /\ down = <<>> => SoftAfter(1)' /\ Len(down') >= 2
    <3> SUFFICES ASSUME open, down = <<>>  PROVE SoftAfter(1)' /\ Len(down') >= 2
      OBVIOUS
    <3>1. \A i \in 1..2 : i > 1 => i = 2
      OBVIOUS
    <3>2. \A i \in DOMAIN down' : i > 1 => down'[i].t = "text"
      BY <2>4, <3>1
    <3>3. Len(down') = 2
      BY <2>4
    <3>4. Len(down') >= 2
      BY <3>3
    <3> QED  BY <3>2, <3>4 DEF SoftAfter, Soft
  <2> QED  BY <1>5, <2>1, <2>3, <2>4, <2>5
<1>7. CASE Answers(<<<<"status", "notfound">>>>) /\ Awaits("cmd") /\ Faults({"mute"})
  <2>1. server'.at = "cmd" /\ "mute" \in occurred'
    BY <1>1, <1>7 DEF Awaits, Faults
  <2>2. Adds(1) /\ (open => down'[Len(down) + 1] = Item("status", "notfound", server.of))
    BY <1>7, Sayings, AnswersOne
  <2>3. open /\ down = <<>> =>
          /\ down'[1].t = "status" /\ down'[1].v = "notfound" /\ DOMAIN down' = 1..1
    BY <2>2 DEF Adds, Item
  <2>4. open /\ down = <<>> => SoftAfter(1)'
    BY <2>3 DEF SoftAfter
  <2> QED  BY <1>5, <2>1, <2>2, <2>3, <2>4
<1>8. ASSUME NEW k \in 1..MaxSize, Answers(<<<<"status", "ok">>, <<"meta", k>>>>),
             server' = [server EXCEPT !.at = "offset", !.size = k]
      PROVE  Streams'
  <2>1. server'.at = "offset" /\ server'.size = k
    BY <1>1, <1>8
  <2>2. Item("status", "ok", server.of) \in DownItem /\ Item("meta", k, server.of) \in DownItem
    BY Sayings
  <2>3. Adds(2) /\ (open => /\ down'[Len(down) + 1] = Item("status", "ok", server.of)
                            /\ down'[Len(down) + 2] = Item("meta", k, server.of))
    <3> HIDE DEF Item
    <3> QED  BY <1>8, <2>2, AnswersTwo
  <2>4. open /\ down = <<>> =>
          /\ down'[1].t = "status" /\ down'[1].v = "ok" /\ down'[2].t = "meta" /\ down'[2].v = k
          /\ DOMAIN down' = 1..2
    BY <2>3 DEF Adds, Item
  <2>5. open /\ down = <<>> => Offered(2)'
    <3> SUFFICES ASSUME open, down = <<>>  PROVE Offered(2)'
      OBVIOUS
    <3>1. QuietAfter(2)' /\ 2 \in DOMAIN down'
      BY <2>4 DEF QuietAfter
    <3> QED  BY <1>2, <1>4, <2>1, <2>4, <3>1 DEF Offered
  <2> QED  BY <1>5, <2>1, <2>3, <2>4, <2>5
<1> QED  BY <1>6, <1>7, <1>8 DEF AnswerGets

\* The content the client asked for, or a sentence.
LEMMA ContentStreams ==
  ASSUME Types, Types', Streams, SendContent
  PROVE  Streams'
<1>1. /\ up \in Seq(UpItem) /\ DOMAIN up = 1..Len(up) /\ Len(up) \in Nat /\ 2 - 1 = 1
      /\ server \in [at : ServerPlaces, cmd : Spoken \cup {"none"}, of : Nat, size : Size,
                     logged : BOOLEAN]
      /\ server.size \in Nat /\ client.size \in Nat /\ MaxSize \in Nat /\ open \in BOOLEAN
      /\ down \in Seq(DownItem) /\ Len(down) \in Nat /\ DOMAIN down = 1..Len(down)
  BY BoundsNat DEF Types, Size
<1>2. Takes("offset") /\ Awaits("cmd") /\ UNCHANGED <<client, open>>
  BY DEF SendContent
<1>3. /\ server.at = "offset" /\ up # <<>> /\ up[1] = Head(up) /\ up[1].t = "offset" /\ up' = Tail(up)
      /\ 1 \in DOMAIN up /\ up[1].v \in Nat
  BY <1>1, <1>2, TakesHead, HeadOfUp DEF Size
<1>4. Alive
  BY <1>2, TakerAlive
<1>5. Orderly /\ Fits(up)
  BY <1>4 DEF Streams, Orderly
<1>6. server'.at = "cmd" /\ server'.logged = server.logged
  BY <1>1, <1>2 DEF Awaits
<1>7. After(up[1]) = "cmd" /\ First' = "cmd"
  BY <1>3, <1>6 DEF After, First
<1>8. 2 \in DOMAIN up => up[2].t = "cmd"
  <2>1. 2 \in DOMAIN up => up[2].t = Due(up, 2)
    BY <1>5 DEF Fits
  <2> QED  BY <1>1, <1>3, <1>7, <2>1 DEF Due
<1>9. Orderly' /\ ~ Garbage'
  BY <1>2, <1>3, <1>4, <1>5, <1>6, <1>7, <1>8, ShiftOrderly
<1>10. PICK left \in Int : left = server.size - up[1].v
  BY <1>1, <1>3
<1>11. \/ \E v \in {"complete", "missing"} : Answers(<<<<"text", v>>>>)
       \/ \E k \in Nat : /\ k <= left /\ left > 0
                         /\ Answers([i \in 1..k |-> <<"data", 1>>]) \/ Answers(Surplus(k))
  <2>1. \/ left <= 0 /\ Answers(<<<<"text", "complete">>>>)
        \/ /\ ~ (left <= 0)
           /\ \/ Answers([i \in 1..left |-> <<"data", 1>>])
              \/ \E k \in 0..left : Answers([i \in 1..k |-> <<"data", 1>>])
              \/ Answers(Surplus(left))
              \/ Answers(<<<<"text", "missing">>>>)
    BY <1>3, <1>10 DEF SendContent, Surplus
  <2>2. ~ (left <= 0) => left \in Nat /\ left <= left /\ left > 0
    OBVIOUS
  <2>3. \A k \in 0..left : k \in Nat /\ k <= left
    OBVIOUS
  <2> QED  BY <2>1, <2>2, <2>3, Zenon
<1>12. Answered'
  <2>1. ASSUME NEW m \in Nat, Softens(m)  PROVE Answered'
    BY <1>2, <1>3, <1>4, <2>1, Unheard
  <2>2. CASE \E v \in {"complete", "missing"} : Answers(<<<<"text", v>>>>)
    <3>1. Softens(1) /\ 1 \in Nat
      BY <2>2, Sentence DEF Sentences
    <3> QED  BY <2>1, <3>1
  <2>3. ASSUME NEW k \in Nat, k <= left, left > 0,
               Answers([i \in 1..k |-> <<"data", 1>>]) \/ Answers(Surplus(k))
        PROVE  Answered'
    <3>1. PICK m \in Nat :
            /\ m = k \/ m = k + 1
            /\ Adds(m)
            /\ open => /\ \A i \in 1..k : down'[Len(down) + i] = Item("data", 1, server.of)
                       /\ m = k + 1 => down'[Len(down) + k + 1] = Item("text", "surplus", server.of)
      <4> HIDE DEF Item
      <4>1. CASE Answers([i \in 1..k |-> <<"data", 1>>])
        <5>1. k # k + 1
          OBVIOUS
        <5> QED  BY <4>1, <5>1, AnswersBlocks
      <4>2. CASE Answers(Surplus(k))
        BY <4>2, AnswersSurplus
      <4> QED  BY <2>3, <4>1, <4>2
    <3>2. CASE ~ open
      BY <2>1, <3>1, <3>2 DEF Softens
    <3>3. CASE open
      <4>1. /\ client.at \in {"data", "final"} /\ down = <<>>
            /\ up[1].v = server.size - (IF client.at = "data" THEN client.size ELSE 0)
        BY <1>3, <1>4, <3>3 DEF Streams, Fetching
      <4>2. client.at = "data" /\ left = client.size
        BY <1>1, <1>3, <1>10, <2>3, <4>1
      <4>3. Item("data", 1, server.of).t = "data" /\ Item("text", "surplus", server.of).t = "text"
        BY DEF Item
      <4>4. \A i \in DOMAIN down' : Soft(down'[i]) \/ (down'[i].t = "data" /\ i <= client.size)
        <5>1. Len(down) = 0 /\ 0 + m = m /\ \A i \in 1..k : 0 + i = i /\ i <= client.size
          BY <1>1, <2>3, <4>1, <4>2
        <5>2. DOMAIN down' = 1..m /\ 0 + k + 1 = k + 1
          BY <3>1, <3>3, <5>1 DEF Adds
        <5>3. \A i \in 1..k : down'[i] = Item("data", 1, server.of)
          <6> HIDE DEF Item
          <6> QED  BY <3>1, <3>3, <5>1
        <5>4. m = k + 1 => down'[m] = Item("text", "surplus", server.of)
          <6> HIDE DEF Item
          <6> QED  BY <3>1, <3>3, <5>1, <5>2
        <5>5. \A i \in 1..m : i \in 1..k \/ (i = m /\ m = k + 1)
          BY <3>1
        <5> HIDE DEF Item
        <5> QED  BY <4>3, <5>1, <5>2, <5>3, <5>4, <5>5 DEF Soft
      <4> QED  BY <1>2, <4>2, <4>4 DEF Answered
    <3> QED  BY <1>1, <3>2, <3>3
  <2>4. CASE \E k \in Nat : /\ k <= left /\ left > 0
                            /\ Answers([i \in 1..k |-> <<"data", 1>>]) \/ Answers(Surplus(k))
    <3>1. PICK k \in Nat : /\ k <= left /\ left > 0
                           /\ Answers([i \in 1..k |-> <<"data", 1>>]) \/ Answers(Surplus(k))
      BY <2>4
    <3> HIDE DEF Surplus
    <3> QED  BY <2>3, <3>1
  <2> QED  BY <1>11, <2>2, <2>4
<1> QED  BY <1>6, <1>9, <1>12, Onward

\* The worker is lost, or ends, or the wheel closes the connection.
LEMMA EndStreams ==
  ASSUME Types, Types', Streams, ServerLost \/ ServerEndOfFile \/ Expire
  PROVE  Streams'
<1>1. /\ server \in [at : ServerPlaces, cmd : Spoken \cup {"none"}, of : Nat, size : Size,
                     logged : BOOLEAN]
      /\ up \in Seq(UpItem) /\ server.size \in Nat /\ MaxSize \in Nat
  BY BoundsNat DEF Types, Size
<1>2. Orderly /\ Answered /\ Fetching /\ Blocked
  BY DEF Streams
<1>3. CASE ServerLost \/ ServerEndOfFile
  <2>1. /\ server'.at \in {"lost", "closed"} /\ UNCHANGED <<up, down, client, open, occurred>>
    BY <1>1, <1>3 DEF ServerLost, ServerEndOfFile, Awaits
  <2>2. ~ Alive' /\ ~ Garbage'
    BY <2>1 DEF Alive, Garbage
  <2>3. Answered'
    <3>1. Softens(0) /\ 0 \in Nat
      BY <2>1, Silence
    <3>2. Adds(0) /\ \A j \in 1..0 : down'[Len(down) + j].t = "notice"
      BY <3>1 DEF Softens
    <3> QED  BY <2>1, <2>2, <3>1, <3>2, Aside
  <2>4. Blocked'
    <3>1. CASE ServerEndOfFile
      BY <1>1, <2>2, <3>1 DEF ServerEndOfFile, Awaits, Blocked
    <3>2. CASE ServerLost
      <4>1. /\ server.at \in ServerWaits /\ up # <<>> /\ up[1].t # server.at
            /\ ~ (server.at = "data" /\ server.size = 0)
        BY <3>2, HeadOfUp DEF ServerLost
      <4>2. 1 \in DOMAIN up
        BY <1>1, <4>1
      <4>3. Due(up, 1) = server.at
        <5>1. server.at = "data" => 1 <= server.size
          BY <1>1, <4>1
        <5>2. server.at # "run"
          BY <4>1 DEF ServerWaits
        <5> QED  BY <5>1, <5>2 DEF Due, First
      <4>4. ~ Alive
        BY <1>2, <4>1, <4>2, <4>3 DEF Orderly, Fits
      <4>5. Garbage
        BY <4>1, <4>4 DEF Alive, Mismatched, ServerWaits
      <4> QED  BY <1>2, <2>1, <4>5 DEF Blocked
    <3> QED  BY <1>3, <3>1, <3>2
  <2> QED  BY <2>2, <2>3, <2>4 DEF Streams, Orderly, Fetching
<1>4. CASE Expire
  <2>1. /\ UNCHANGED <<up, client, server>> /\ ~ open' /\ occurred \subseteq occurred'
    BY <1>4 DEF Expire, Faults
  <2>2. /\ Alive' <=> Alive
        /\ Garbage' <=> Garbage
        /\ Fits(up)' <=> Fits(up)
        /\ End(up)' = End(up)
    BY <2>1, SameStream
  <2>3. Orderly'
    BY <1>2, <2>1, <2>2 DEF Orderly, Closing, Asking, Turn
  <2>4. Answered'
    <3>1. PICK x \in DownItem : x = Item("notice", "notice", 0)
      BY DEF Item, DownItem
    <3>2. x.t = "notice" /\ down' = Append(down, x) /\ down \in Seq(DownItem) /\ open
      BY <1>4, <3>1 DEF Expire, Item, Types
    <3>3. Adds(1) /\ down'[Len(down) + 1] = x
      BY <3>2, Appended DEF Adds
    <3>4. 1 \in Nat /\ \A j \in 1..1 : down'[Len(down) + j].t = "notice"
      BY <3>2, <3>3
    <3> QED  BY <2>1, <2>2, <3>3, <3>4, Aside
  <2>5. Fetching' /\ Blocked'
    BY <1>2, <2>1, <2>2 DEF Fetching, Blocked
  <2> QED  BY <2>3, <2>4, <2>5 DEF Streams
<1> QED  BY <1>3, <1>4

-----------------------------------------------------------------------------
\* The client sheds the front of what is coming down, and may leave a rest of
\* the first sentence.
LEMMA ClientSheds ==
  ASSUME Types, ClientStep
  PROVE  \E k \in Nat :
           /\ Len(down') + k = Len(down)
           /\ \A i \in DOMAIN down' :
                /\ i + k \in DOMAIN down
                /\ down'[i] = down[i + k] \/ (down'[i].t = "text" /\ down'[i].v = "rest")
<1>1. down \in Seq(DownItem) /\ Len(down) \in Nat /\ DOMAIN down = 1..Len(down)
  BY DEF Types
<1>2. CASE down' = down
  <2>1. Len(down') + 0 = Len(down) /\ \A i \in DOMAIN down' : i + 0 \in DOMAIN down /\ i + 0 = i
    BY <1>1, <1>2
  <2> QED  BY <1>2, <2>1
<1>3. CASE down # <<>> /\ down' = Tail(down)
  <2>1. /\ Len(down') + 1 = Len(down)
        /\ \A i \in DOMAIN down' : i + 1 \in DOMAIN down /\ down'[i] = down[i + 1]
    BY <1>1, <1>3, Behead
  <2> QED  BY <2>1
<1>4. ASSUME NEW k \in 1..Len(down), down' = SubSeq(down, k + 1, Len(down))
      PROVE  /\ k \in Nat /\ Len(down') + k = Len(down)
             /\ \A i \in DOMAIN down' : i + k \in DOMAIN down /\ down'[i] = down[i + k]
  <2>1. Len(down') = Len(down) - k
    <3>1. k + 1 \in Int /\ Len(down) \in Int /\ \A i \in (k + 1)..Len(down) : down[i] \in DownItem
      BY <1>1
    <3>2. Len(SubSeq(down, k + 1, Len(down))) =
            IF k + 1 <= Len(down) THEN Len(down) - (k + 1) + 1 ELSE 0
      BY <3>1, SubSeqProperties
    <3>3. /\ k + 1 <= Len(down) => Len(down) - k = Len(down) - (k + 1) + 1
          /\ ~ (k + 1 <= Len(down)) => Len(down) - k = 0
      <4>1. PICK z \in Nat : z = Len(down)
        BY <1>1
      <4>2. k \in 1..z
        BY <4>1
      <4> QED  BY <4>1, <4>2
    <3> QED  BY <1>4, <3>2, <3>3, Zenon
  <2>2. \A i \in DOMAIN down' : i + k \in DOMAIN down /\ down'[i] = down[i + k]
    BY <1>1, <1>4, Parts
  <2> QED  BY <1>1, <2>1, <2>2
<1>5. CASE ReplyPart
  <2>1. PICK rest : rest = [Head(down) EXCEPT !.v = "rest"]
    OBVIOUS
  <2>2. down # <<>> /\ down' = <<rest>> \o Tail(down)
    BY <1>5, <2>1 DEF ReplyPart, Text
  <2>3. Head(down) \in DownItem /\ Head(down).t = "text" /\ Tail(down) \in Seq(DownItem)
    BY <1>5, <2>2, HeadOfDown DEF ReplyPart, Text
  <2>4. rest.t = "text" /\ rest.v = "rest" /\ rest \in DownItem
    BY <2>1, <2>3 DEF DownItem, Sentences
  <2>5. /\ Len(down') = 1 + Len(Tail(down)) /\ DOMAIN down' = 1..(1 + Len(Tail(down)))
        /\ down'[1] = rest
        /\ \A i \in 1..Len(Tail(down)) : down'[1 + i] = Tail(down)[i]
    <3>1. <<rest>> \in Seq(DownItem) /\ Len(<<rest>>) = 1 /\ <<rest>>[1] = rest
      BY <2>4
    <3> QED  BY <2>2, <2>3, <3>1, Joined
  <2>6. /\ Len(Tail(down)) = Len(down) - 1 /\ Len(down) \in Nat \ {0}
        /\ \A i \in 1..(Len(down) - 1) : Tail(down)[i] = down[i + 1]
    BY <1>1, <2>2, Behead
  <2>7. ASSUME NEW i \in DOMAIN down'
        PROVE  i + 0 \in DOMAIN down /\ (down'[i] = down[i + 0] \/ (down'[i].t = "text" /\ down'[i].v = "rest"))
    <3>1. i \in DOMAIN down /\ i + 0 = i
      BY <1>1, <2>5, <2>6
    <3>2. CASE i = 1
      BY <2>4, <2>5, <3>1, <3>2
    <3>3. CASE i # 1
      <4>1. i - 1 \in 1..(Len(down) - 1) /\ i = 1 + (i - 1) /\ i = (i - 1) + 1
        BY <1>1, <3>1, <3>3
      <4> QED  BY <2>5, <2>6, <3>1, <4>1
    <3> QED  BY <3>2, <3>3
  <2>8. Len(down') + 0 = Len(down)
    BY <2>5, <2>6
  <2> QED  BY <2>7, <2>8
<1> QED  BY <1>2, <1>3, <1>4, <1>5, ClientTakes

\* The worker gives no notice, the sentence of cd is not its last word, and it
\* sends no more than announced unless that is the fault of the entity.
Properly(m) ==
  /\ Adds(m)
  /\ open => \A j \in 1..m : LET x == down'[Len(down) + j] IN
               /\ x.t # "notice"
               /\ x.t = "text" /\ x.v = "changed" => j < m
               /\ x.t = "text" /\ x.v = "surplus" => "longer" \in occurred'

LEMMA ProperOnes ==
  ASSUME Types
  PROVE  /\ down' = down => Properly(0)
         /\ \A v \in Sentences : v \notin {"changed", "surplus"} /\ Answers(<<<<"text", v>>>>) => Properly(1)
         /\ \A k \in Nat : Answers([i \in 1..k |-> <<"data", 1>>]) => Properly(k)
         /\ \A k \in Nat : Answers(Surplus(k)) /\ "longer" \in occurred' => Properly(k + 1)
<1>1. down' = down => Properly(0)
  <2>1. down \in Seq(DownItem) /\ Len(down) \in Nat /\ DOMAIN down = 1..Len(down)
    BY DEF Types
  <2>2. Len(down) + 0 = Len(down) /\ 1..0 = {}
    BY <2>1
  <2> QED  BY <2>1, <2>2 DEF Properly, Adds
<1>2. ASSUME NEW v \in Sentences, v \notin {"changed", "surplus"}, Answers(<<<<"text", v>>>>)
      PROVE  Properly(1)
  <2>1. Adds(1) /\ (open => down'[Len(down) + 1] = Item("text", v, server.of))
    BY <1>2, Said
  <2> QED  BY <1>2, <2>1 DEF Properly, Item
<1>3. ASSUME NEW k \in Nat, Answers([i \in 1..k |-> <<"data", 1>>])  PROVE Properly(k)
  <2>1. Adds(k) /\ (open => \A i \in 1..k : down'[Len(down) + i] = Item("data", 1, server.of))
    BY <1>3, AnswersBlocks
  <2>2. Item("data", 1, server.of).t = "data"
    BY DEF Item
  <2> HIDE DEF Item
  <2> QED  BY <2>1, <2>2 DEF Properly
<1>4. ASSUME NEW k \in Nat, Answers(Surplus(k)), "longer" \in occurred'  PROVE Properly(k + 1)
  <2>1. /\ Adds(k + 1) /\ k + 1 \in Nat
        /\ open => /\ \A i \in 1..k : down'[Len(down) + i] = Item("data", 1, server.of)
                   /\ down'[Len(down) + k + 1] = Item("text", "surplus", server.of)
    <3> HIDE DEF Item
    <3> QED  BY <1>4, AnswersSurplus
  <2>2. \A i \in 1..(k + 1) : i \in 1..k \/ (i = k + 1 /\ Len(down) + i = Len(down) + k + 1)
    <3>1. Len(down) \in Nat
      BY DEF Types
    <3> QED  BY <3>1
  <2>3. Item("data", 1, server.of).t = "data" /\ Item("text", "surplus", server.of).v = "surplus"
        /\ Item("text", "surplus", server.of).t = "text"
    BY DEF Item
  <2> HIDE DEF Item
  <2> QED  BY <1>4, <2>1, <2>2, <2>3 DEF Properly
<1> QED  BY <1>1, <1>2, <1>3, <1>4

\* What the worker sends instead of the content, or the content.
LEMMA Contents ==
  ASSUME Types, SendContent
  PROVE  \/ \E v \in {"complete", "missing"} : Answers(<<<<"text", v>>>>)
         \/ \E k \in Nat : Answers([i \in 1..k |-> <<"data", 1>>])
         \/ \E k \in Nat : Answers(Surplus(k)) /\ "longer" \in occurred'
<1>1. PICK left : left = server.size - Head(up).v
  OBVIOUS
<1>2. left \in Int
  <2>1. Head(up).v \in Size /\ server.size \in Size
    BY TakesHead, HeadOfUp DEF SendContent, Types
  <2> QED  BY <1>1, <2>1, BoundsNat DEF Size
<1>3. \/ left <= 0 /\ Answers(<<<<"text", "complete">>>>)
      \/ /\ ~ (left <= 0)
         /\ \/ Answers([i \in 1..left |-> <<"data", 1>>])
            \/ \E k \in 0..left : Answers([i \in 1..k |-> <<"data", 1>>])
            \/ Answers(Surplus(left)) /\ "longer" \in occurred'
            \/ Answers(<<<<"text", "missing">>>>)
  BY <1>1 DEF SendContent, Surplus, Faults
<1>4. ~ (left <= 0) => left \in Nat
  BY <1>2
<1>5. 0..left \subseteq Nat
  OBVIOUS
<1> QED  BY <1>3, <1>4, <1>5, Zenon

\* All the worker's answers are proper.
LEMMA WorkerSays ==
  ASSUME Types, ServerStep
  PROVE  \E m \in Nat : Properly(m)
<1>1. CASE down' = down
  BY <1>1, ProperOnes
<1>2. CASE \E v \in Sentences : v \notin {"changed", "surplus"} /\ Answers(<<<<"text", v>>>>)
  BY <1>2, ProperOnes
<1>3. CASE \E k \in Nat : Answers([i \in 1..k |-> <<"data", 1>>])
  BY <1>3, ProperOnes
<1>4. ASSUME NEW t, NEW v, NEW t2, NEW v2, Item(t, v, server.of) \in DownItem,
             Item(t2, v2, server.of) \in DownItem, t # "notice", t2 # "notice",
             ~ (t2 = "text" /\ v2 \in {"changed", "surplus"}), ~ (t = "text" /\ v = "surplus"),
             Answers(<<<<t, v>>, <<t2, v2>>>>)
      PROVE  Properly(2)
  <2>1. Adds(2) /\ (open => /\ down'[Len(down) + 1] = Item(t, v, server.of)
                            /\ down'[Len(down) + 2] = Item(t2, v2, server.of))
    <3> HIDE DEF Item
    <3> QED  BY <1>4, AnswersTwo
  <2>2. /\ Item(t, v, server.of).t = t /\ Item(t, v, server.of).v = v
        /\ Item(t2, v2, server.of).t = t2 /\ Item(t2, v2, server.of).v = v2
    BY DEF Item
  <2> HIDE DEF Item
  <2>3. \A j \in 1..2 : (j = 1 /\ j < 2) \/ j = 2
    OBVIOUS
  <2> QED  BY <1>4, <2>1, <2>2, <2>3 DEF Properly
<1>5. ASSUME NEW v \in {"seccomp", "notfound"}, Answers(<<<<"status", v>>>>)  PROVE Properly(1)
  <2>1. Adds(1) /\ (open => down'[Len(down) + 1] = Item("status", v, server.of))
    BY <1>5, Sayings, AnswersOne
  <2> QED  BY <2>1 DEF Properly, Item
<1>6. ASSUME NEW k \in Size, Answers(<<<<"status", "go">>, <<"offset", k>>, <<"status", "error">>>>)
      PROVE  Properly(3)
  <2>1. Adds(3) /\ (open => /\ down'[Len(down) + 1] = Item("status", "go", server.of)
                            /\ down'[Len(down) + 2] = Item("offset", k, server.of)
                            /\ down'[Len(down) + 3] = Item("status", "error", server.of))
    BY <1>6, Sayings, AnswersThree
  <2>2. \A j \in 1..3 : j = 1 \/ j = 2 \/ j = 3
    OBVIOUS
  <2> QED  BY <2>1, <2>2 DEF Properly, Item
<1>7. CASE ReceiveCommand \/ ReceiveName \/ ServerLost \/ ServerEndOfFile
  BY <1>1, <1>7 DEF ReceiveCommand, ReceiveName, ServerLost, ServerEndOfFile
<1>8. CASE HandleUser \/ List \/ Pwd \/ Change \/ ReceiveData \/ FinishPuts
  <2>1. down' = down \/ \E v \in {"success", "refused", "norootdir", "listing", "failed", "path",
                                   "done", "interrupted"} : Answers(<<<<"text", v>>>>)
    BY <1>8 DEF HandleUser, List, Pwd, Change, ReceiveData, FinishPuts
  <2>2. {"success", "refused", "norootdir", "listing", "failed", "path", "done", "interrupted"}
          \subseteq Sentences \ {"changed", "surplus"}
    BY DEF Sentences
  <2> QED  BY <1>1, <1>2, <2>1, <2>2
<1>9. CASE Cd
  <2>1. /\ Item("text", "changed", server.of) \in DownItem
        /\ \A v \in {"path", "nopath"} : Item("text", v, server.of) \in DownItem
    BY Sayings DEF Sentences
  <2>2. \/ Answers(<<<<"text", "failed">>>>)
        \/ \E v \in {"path", "nopath"} : Answers(<<<<"text", "changed">>, <<"text", v>>>>)
    BY <1>9 DEF Cd
  <2>3. "failed" \in Sentences
    BY DEF Sentences
  <2> HIDE DEF Item
  <2> QED  BY <1>2, <1>4, <2>1, <2>2, <2>3
<1>10. CASE AnswerPuts
  <2>1. Head(up).v \in Size
    BY <1>10, TakesHead, HeadOfUp DEF AnswerPuts
  <2>2. \A k \in 0..Head(up).v : k \in Size
    BY <2>1, BoundsNat DEF Size
  <2>3. /\ \A k \in Size : Item("offset", k, server.of) \in DownItem
        /\ Item("status", "go", server.of) \in DownItem
        /\ Item("status", "error", server.of) \in DownItem
        /\ Item("text", "failed", server.of) \in DownItem
    BY Sayings DEF Sentences
  <2>4. \/ Answers(<<<<"status", "error">>, <<"text", "failed">>>>)
        \/ Answers(<<<<"status", "seccomp">>>>)
        \/ \E k \in Size : Answers(<<<<"status", "go">>, <<"offset", k>>>>)
        \/ \E k \in Size : Answers(<<<<"status", "go">>, <<"offset", k>>, <<"status", "error">>>>)
    BY <1>10, <2>2 DEF AnswerPuts
  <2> HIDE DEF Item
  <2>5. CASE Answers(<<<<"status", "error">>, <<"text", "failed">>>>)
    BY <1>4, <2>3, <2>5
  <2>6. CASE \E k \in Size : Answers(<<<<"status", "go">>, <<"offset", k>>>>)
    <3>1. PICK k \in Size : Answers(<<<<"status", "go">>, <<"offset", k>>>>)
      BY <2>6
    <3> QED  BY <1>4, <2>3, <3>1
  <2> QED  BY <1>5, <1>6, <2>4, <2>5, <2>6
<1>11. CASE AnswerGets
  <2>1. /\ \A k \in 1..MaxSize : Item("meta", k, server.of) \in DownItem
        /\ Item("status", "ok", server.of) \in DownItem
        /\ Item("status", "notfound", server.of) \in DownItem
        /\ Item("text", "failed", server.of) \in DownItem
    BY Sayings DEF Sentences
  <2>2. \/ Answers(<<<<"status", "notfound">>, <<"text", "failed">>>>)
        \/ Answers(<<<<"status", "notfound">>>>)
        \/ \E k \in 1..MaxSize : Answers(<<<<"status", "ok">>, <<"meta", k>>>>)
    BY <1>11 DEF AnswerGets
  <2> HIDE DEF Item
  <2>3. CASE Answers(<<<<"status", "notfound">>, <<"text", "failed">>>>)
    BY <1>4, <2>1, <2>3
  <2>4. CASE \E k \in 1..MaxSize : Answers(<<<<"status", "ok">>, <<"meta", k>>>>)
    <3>1. PICK k \in 1..MaxSize : Answers(<<<<"status", "ok">>, <<"meta", k>>>>)
      BY <2>4
    <3> QED  BY <1>4, <2>1, <3>1
  <2> QED  BY <1>5, <2>2, <2>3, <2>4
<1>12. CASE SendContent
  <2>1. {"complete", "missing"} \subseteq Sentences \ {"changed", "surplus"}
    BY DEF Sentences
  <2>2. CASE \E k \in Nat : Answers(Surplus(k)) /\ "longer" \in occurred'
    <3>1. PICK k \in Nat : Answers(Surplus(k)) /\ "longer" \in occurred'
      BY <2>2
    <3>2. k + 1 \in Nat /\ Properly(k + 1)
      BY <3>1, ProperOnes
    <3> QED  BY <3>2
  <2> QED  BY <1>2, <1>3, <1>12, <2>1, <2>2, Contents
<1> QED  BY <1>7, <1>8, <1>9, <1>10, <1>11, <1>12 DEF ServerStep

\* A fault stays on record.
LEMMA OccurredGrows ==
  ASSUME Types, Welcome, [Next]_vars
  PROVE  occurred \subseteq occurred'
<1>1. ServerStep => occurred \subseteq occurred'
  BY DEF ServerStep, ReceiveCommand, ReceiveName, HandleUser, List, Pwd, Cd, Change, AnswerPuts,
         ReceiveData, FinishPuts, AnswerGets, SendContent, ServerLost, ServerEndOfFile, Faults
<1>2. Expire => occurred \subseteq occurred'
  BY DEF Expire, Faults
<1> QED  BY <1>1, <1>2, ClientWelcome DEF Next, vars

\* The path of cd follows its sentence, and nothing is beyond the content unless
\* the entity is longer.
Trailed ==
  \A i \in DOMAIN down :
    /\ down[i].t = "text" /\ down[i].v = "changed" => i < Len(down)
    /\ down[i].t = "text" /\ down[i].v = "surplus" => "longer" \in occurred

LEMMA NoticesKept ==
  ASSUME Types, Types', Welcome, Notices, Trailed, [Next]_vars
  PROVE  Notices' /\ Trailed'
<1>0. occurred \subseteq occurred'
  BY OccurredGrows
<1>1. down \in Seq(DownItem) /\ Len(down) \in Nat /\ DOMAIN down = 1..Len(down) /\ open \in BOOLEAN
  BY DEF Types
<1>2. down' \in Seq(DownItem) /\ Len(down') \in Nat /\ DOMAIN down' = 1..Len(down')
  BY DEF Types
<1>3. CASE UNCHANGED vars
  BY <1>3 DEF vars, Notices, Trailed
<1>4. CASE ClientStep
  <2>1. PICK k \in Nat :
          /\ Len(down') + k = Len(down)
          /\ \A i \in DOMAIN down' :
               /\ i + k \in DOMAIN down
               /\ down'[i] = down[i + k] \/ (down'[i].t = "text" /\ down'[i].v = "rest")
    BY <1>4, ClientSheds
  <2>2. open' = open
    BY <1>4, ClientWelcome
  <2>3. Notices'
    BY <2>1, <2>2 DEF Notices
  <2>4. ASSUME NEW i \in DOMAIN down', down'[i].t = "text", down'[i].v = "changed"
        PROVE  i < Len(down')
    <3>1. i + k < Len(down)
      BY <2>1, <2>4 DEF Trailed
    <3> QED  BY <1>1, <1>2, <2>1, <3>1
  <2>5. ASSUME NEW i \in DOMAIN down', down'[i].t = "text", down'[i].v = "surplus"
        PROVE  "longer" \in occurred'
    BY <1>0, <2>1, <2>5 DEF Trailed
  <2> QED  BY <2>3, <2>4, <2>5 DEF Trailed
<1>5. CASE ServerStep
  <2>1. PICK m \in Nat : Properly(m)
    BY <1>5, WorkerSays
  <2>2. open' = open
    BY <1>5 DEF ServerStep, ReceiveCommand, ReceiveName, HandleUser, List, Pwd, Cd, Change, AnswerPuts,
                ReceiveData, FinishPuts, AnswerGets, SendContent, ServerLost, ServerEndOfFile
  <2>3. CASE ~ open
    BY <1>0, <2>1, <2>2, <2>3 DEF Properly, Adds, Notices, Trailed
  <2>4. CASE open
    <3>1. Len(down') = Len(down) + m /\ \A i \in DOMAIN down : i \in DOMAIN down' /\ down'[i] = down[i]
      BY <1>1, <2>1, <2>4, Later DEF Properly, Adds
    <3>2. ASSUME NEW i \in DOMAIN down'
          PROVE  /\ down'[i].t = "notice" => ~ open'
                 /\ down'[i].t = "text" /\ down'[i].v = "changed" => i < Len(down')
                 /\ down'[i].t = "text" /\ down'[i].v = "surplus" => "longer" \in occurred'
      <4>1. CASE i \in DOMAIN down
        <5>1. i < Len(down) => i < Len(down')
          BY <1>1, <3>1, <4>1
        <5> QED  BY <1>0, <2>2, <3>1, <4>1, <5>1 DEF Notices, Trailed
      <4>2. CASE i \notin DOMAIN down
        <5>1. PICK j \in 1..m : i = Len(down) + j
          BY <2>1, <4>2, Later DEF Properly
        <5>2. j < m => i < Len(down')
          BY <1>1, <3>1, <5>1
        <5> QED  BY <2>1, <2>4, <5>1, <5>2 DEF Properly
      <4> QED  BY <4>1, <4>2
    <3> QED  BY <3>2 DEF Notices, Trailed
  <2> QED  BY <1>1, <2>3, <2>4
<1>6. CASE Expire
  <2>1. PICK x : x = Item("notice", "notice", 0)
    OBVIOUS
  <2>2. down' = Append(down, x) /\ x.t = "notice" /\ x \in DownItem /\ open' = FALSE
    BY <1>6, <2>1 DEF Expire, Item, DownItem
  <2>3. /\ Len(down') = Len(down) + 1 /\ \A i \in 1..Len(down) : down'[i] = down[i]
        /\ down'[Len(down) + 1] = x
    BY <1>1, <2>2, Appended
  <2>4. ASSUME NEW i \in DOMAIN down', down'[i].t = "text"
        PROVE  i < Len(down') /\ (down'[i].v = "surplus" => "longer" \in occurred')
    <3>1. i # Len(down) + 1
      BY <2>2, <2>3, <2>4
    <3>2. i \in 1..Len(down) /\ i < Len(down')
      BY <1>1, <1>2, <2>3, <3>1
    <3> QED  BY <1>0, <1>1, <2>3, <2>4, <3>2 DEF Trailed
  <2> QED  BY <2>2, <2>4 DEF Notices, Trailed
<1> QED  BY <1>3, <1>4, <1>5, <1>6 DEF Next

\* Every step keeps the streams in order.
LEMMA StreamsKept ==
  ASSUME Types, Types', Welcome, Notices, Streams, [Next]_vars, occurred' \cap {"local", "input"} = {}
  PROVE  Streams'
<1>1. CASE UNCHANGED vars
  BY <1>1 DEF vars, Streams, Orderly, Answered, Fetching, Blocked, Alive, Garbage, Mismatched, Fits, End,
              Due, First, Named, Closing, Asking, Turn, SoftAfter, QuietAfter, Going, Offered, Hopeful,
              StatusOfPuts, StatusOfGets, Soft
<1>2. CASE ClientStep
  BY <1>2, PromptStreams, InsideStreams DEF ClientStep
<1>3. CASE ServerStep \/ Expire
  BY <1>3, ReadingStreams, SayingStreams, PutsStreams, DataStreams, FinishStreams, GetsStreams,
     ContentStreams, EndStreams DEF ServerStep
<1> QED  BY <1>1, <1>2, <1>3 DEF Next

LEMMA TalkAlways == Spec => [](Types /\ Welcome /\ Notices /\ Trailed /\ Talk)
<1>1. Init => Welcome /\ Notices /\ Trailed /\ Talk
  <2> SUFFICES ASSUME Init  PROVE Welcome /\ Notices /\ Trailed /\ Streams
    BY DEF Talk, Streams
  <2>1. /\ up = <<>> /\ down = <<>> /\ DOMAIN <<>> = {} /\ client.at = "prompt" /\ server.at = "cmd"
        /\ Len(up) = 0 /\ occurred = {}
    BY DEF Init
  <2>2. End(up) = "cmd"
    <3>1. Len(up) + 1 = 1
      BY <2>1
    <3> QED  BY <2>1, <3>1 DEF End, Due, First
  <2>3. Orderly
    BY <2>1, <2>2 DEF Orderly, Fits, Closing, Asking, Turn
  <2>4. Answered
    BY <2>1 DEF Answered, SoftAfter
  <2>5. Fetching /\ Blocked
    BY <2>1 DEF Fetching, Blocked, Garbage
  <2>6. Welcome /\ Notices /\ Trailed
    BY <2>1 DEF Init, Welcome, Notices, Trailed
  <2> QED  BY <2>3, <2>4, <2>5, <2>6 DEF Streams
<1>2. ASSUME Types, Types', Welcome, Notices, Trailed, Talk, [Next]_vars
      PROVE  Welcome' /\ Notices' /\ Trailed' /\ Talk'
  <2>1. occurred' \cap {"local", "input"} = {} => Streams /\ Streams'
    BY <1>2, StreamsKept, OccurredGrows DEF Talk, Streams
  <2>2. Talk'
    BY <2>1 DEF Talk, Streams
  <2> QED  BY <1>2, <2>2, NoticesKept, WelcomeKept
<1>3. Types /\ [Next]_vars => Types'
  <2>1. CASE UNCHANGED vars
    BY <2>1 DEF vars, Types
  <2> QED  BY <2>1, PromptTypes, InsideTypes, ServerTypes DEF Next, ClientStep
<1> QED  BY <1>1, <1>2, <1>3, TypesAlways, PTL DEF Spec

-----------------------------------------------------------------------------
(* What one owes the other.                                                *)

\* What is worth an answer, unless the password is empty.
Speaks(x, f) == /\ ~ (x.t = "cmd" /\ x.v = "ping")
                /\ x.t = "password" /\ x.v = "empty" => "empty" \in f

\* Who awaits an answer has one, or the worker has something to do.
Awaiting == {"login", "reply", "changed", "final"}
Owed ==
  open /\ Alive /\ client.at \in Awaiting =>
    /\ up # <<>> => Speaks(up[Len(up)], occurred)
    /\ up = <<>> /\ down = <<>> =>
         server.at # "cmd" \/ occurred \cap {"empty", "mute", "missing"} # {}

\* All blocks of a download are there once the worker has sent them.
AllData ==
  client.at = "data" /\ open /\ Alive /\ server.at # "offset" /\ "missing" \notin occurred =>
    client.size <= Len(down) /\ \A i \in 1..client.size : down[i].t = "data"

Duty == /\ client.at = "path" => down # <<>>
        /\ occurred \cap {"local", "input"} = {} => Owed /\ AllData

\* One more item from the client is the last one.
LEMMA LastSaid ==
  ASSUME NEW s \in Seq(UpItem), NEW x \in UpItem, up' = Append(s, x)
  PROVE  up' # <<>> /\ up'[Len(up')] = x
  BY Appended

\* What makes the client await an answer.
LEMMA ClientOwed ==
  ASSUME Types, Types', Welcome, Streams, Owed, ClientStep
  PROVE  Owed'
<1>1. /\ up \in Seq(UpItem) /\ down \in Seq(DownItem) /\ n \in Nat /\ Len(down) \in Nat
      /\ client \in [at : ClientPlaces, cmd : Spoken \cup {"none"}, size : Size, logged : BOOLEAN]
  BY DEF Types
<1>2. server' = server /\ open' = open
  BY ClientWelcome
<1>3. SUFFICES ASSUME open', Alive', client'.at \in Awaiting
               PROVE  /\ up' # <<>> => Speaks(up'[Len(up')], occurred')
                      /\ up' = <<>> /\ down' = <<>> =>
                           server'.at # "cmd" \/ occurred' \cap {"empty", "mute", "missing"} # {}
  BY DEF Owed, Speaks
<1>4. Orderly /\ Answered
  BY DEF Streams
<1>5. down # <<>> /\ down' = Tail(down) /\ Len(down) >= 2 => down' # <<>>
  <2> SUFFICES ASSUME down # <<>>, down' = Tail(down), Len(down) >= 2  PROVE down' # <<>>
    OBVIOUS
  <2>1. Len(down') = Len(down) - 1
    BY <1>1, Behead
  <2>2. Len(down') # 0
    BY <1>1, <2>1
  <2> QED  BY <2>2
<1>6. ASSUME NEW p, p \notin Awaiting, Goes(p)  PROVE FALSE
  BY <1>1, <1>3, <1>6 DEF Goes
<1>7. CASE Ping \/ SocketEvent \/ Quit \/ \E cmd \in {"register", "login"} : Identify(cmd)
  BY <1>1, <1>3, <1>7 DEF Ping, SocketEvent, Quit, Identify, Awaiting
<1>8. ASSUME NEW v \in {"empty", "some"}, Password(v)  PROVE up' # <<>> /\ Speaks(up'[Len(up')], occurred')
  <2>1. PICK x \in UpItem : x = Up("password", v)
    BY <1>1 DEF Up, Item, UpItem
  <2>2. x.t = "password" /\ (x.v = "empty" => "empty" \in occurred') /\ up' = Append(up, x)
    BY <1>8, <2>1 DEF Up, Item, Password
  <2>3. up' # <<>> /\ up'[Len(up')] = x
    BY <1>1, <2>2, LastSaid
  <2> QED  BY <2>2, <2>3 DEF Speaks
<1>9. ASSUME NEW cmd \in Commands, Command(cmd)  PROVE up' # <<>> /\ Speaks(up'[Len(up')], occurred')
  <2>1. cmd \in Spoken /\ cmd # "ping"
    BY CommandsKnown DEF Spoken, AllCommands
  <2>2. up' = (up \o <<Item("cmd", cmd, n + 1)>>)
                 \o (IF cmd \in {"ls", "pwd"} THEN <<>> ELSE <<Item("name", cmd, n + 1)>>)
    BY <1>9 DEF Command
  <2>3. up' = IF cmd \in {"ls", "pwd"} THEN Append(up, Item("cmd", cmd, n + 1))
              ELSE Append(Append(up, Item("cmd", cmd, n + 1)), Item("name", cmd, n + 1))
    BY <2>1, <2>2, CommandAdds
  <2>4. n + 1 \in Nat
    BY <1>1
  <2>5. PICK x \in UpItem : x = Item("cmd", cmd, n + 1)
    BY <2>1, <2>4, Items
  <2>6. PICK y \in UpItem : y = Item("name", cmd, n + 1)
    BY <2>1, <2>4, Items
  <2>7. x.t = "cmd" /\ x.v = cmd /\ y.t = "name"
    BY <2>5, <2>6 DEF Item
  <2>8. up' = Append(up, x) \/ up' = Append(Append(up, x), y)
    BY <2>3, <2>5, <2>6
  <2>9. Append(up, x) \in Seq(UpItem)
    BY <1>1
  <2>10. up' # <<>> /\ up'[Len(up')] \in {x, y}
    BY <1>1, <2>8, <2>9, LastSaid
  <2> QED  BY <2>1, <2>7, <2>10 DEF Speaks
<1>10. CASE LoginReply
  BY <1>1, <1>3, <1>10 DEF LoginReply, Awaiting
<1>11. CASE Reply \/ ReplyPart \/ PutsFails \/ ClientLost
  <2>1. \E p \in {"prompt", "lost"} : Goes(p)
    BY <1>11 DEF Reply, ReplyPart, PutsFails, ClientLost
  <2> QED  BY <1>6, <2>1 DEF Awaiting
<1>12. CASE Changed \/ NewPath \/ ClientEndOfFile
  <2>1. \E p \in {"path", "prompt", "gone"} : Goes(p)
    BY <1>12 DEF Changed, NewPath, ClientEndOfFile
  <2> QED  BY <1>6, <2>1 DEF Awaiting
<1>13. CASE PutsMeta \/ GetsData
  BY <1>1, <1>3, <1>13 DEF PutsMeta, GetsData, Awaiting
<1>14. CASE PutsStatus
  <2>1. /\ client.at = "status" /\ down # <<>> /\ down' = Tail(down) /\ down[1].t = "status"
        /\ UNCHANGED <<up, occurred>>
        /\ Goes(CASE down[1].v = "error" -> "final" [] down[1].v = "seccomp" -> "prompt"
                  [] OTHER -> "offset")
    BY <1>14, HeadOfDown DEF PutsStatus, ReceivesType, Receives
  <2>2. StatusOfPuts /\ Hopeful
    BY <1>4, <2>1 DEF Answered, Hopeful, Soft
  <2>3. down[1].v = "error"
    BY <1>6, <2>1 DEF Awaiting
  <2> QED  BY <1>5, <2>1, <2>2, <2>3 DEF StatusOfPuts
<1>15. CASE PutsOffset
  <2>1. /\ client.at = "offset" /\ down # <<>> /\ down' = Tail(down)
        /\ up' = up \/ \E k \in Int : up' = up \o [i \in 1..k |-> Up("data", 1)]
    <3>1. Head(down).v \in Nat /\ client.size \in Nat
      BY <1>1, <1>15, BoundsNat, HeadOfDown DEF PutsOffset, ReceivesType, Receives, Size
    <3>2. client.size - Head(down).v \in Int /\ 0..(client.size - Head(down).v + 1) \subseteq Int
      BY <3>1
    <3> QED  BY <1>15, <3>2 DEF PutsOffset, ReceivesType, Receives
  <2>2. Going(1)
    BY <1>4, <2>1 DEF Answered
  <2>3. up = <<>>
    BY <2>2 DEF Going
  <2>4. up' # <<>> => up'[Len(up')] = Up("data", 1)
    <3> SUFFICES ASSUME NEW k \in Int, up' = up \o [i \in 1..k |-> Up("data", 1)], up' # <<>>
                 PROVE  up'[Len(up')] = Up("data", 1)
      BY <2>1, <2>3
    <3>1. PICK x \in UpItem : x = Up("data", 1)
      BY <1>1 DEF Up, Item, UpItem
    <3>2. PICK f \in Seq(UpItem) : f = [i \in 1..k |-> x] /\ \A i \in 1..Len(f) : f[i] = x
      BY Blocks
    <3>3. up' = f
      BY <2>3, <3>1, <3>2
    <3>4. Len(f) \in 1..Len(f)
      <4>1. f # <<>>
        BY <3>3
      <4>2. Len(f) \in Nat /\ Len(f) # 0
        BY <4>1
      <4> QED  BY <4>2
    <3> QED  BY <3>1, <3>2, <3>3, <3>4
  <2>5. Up("data", 1).t = "data"
    BY DEF Up, Item
  <2>6. Alive
    BY <1>2, <1>3, <2>3 DEF Alive, Garbage, Mismatched
  <2>7. server.at = "data" \/ Len(down) >= 2
    BY <1>1, <1>2, <1>3, <2>2, <2>6 DEF Going
  <2> QED  BY <1>2, <1>5, <2>1, <2>4, <2>5, <2>7 DEF Speaks
<1>16. CASE GetsStatus
  <2>1. /\ client.at = "getstatus" /\ down # <<>> /\ down' = Tail(down) /\ down[1].t = "status"
        /\ UNCHANGED <<up, occurred>> /\ Goes(IF down[1].v = "notfound" THEN "final" ELSE "meta")
    BY <1>16, HeadOfDown DEF GetsStatus, ReceivesType, Receives
  <2>2. StatusOfGets /\ Hopeful
    BY <1>4, <2>1 DEF Answered, Hopeful, Soft
  <2>3. down[1].v = "notfound"
    BY <1>6, <2>1 DEF Awaiting
  <2> QED  BY <1>5, <2>1, <2>2, <2>3 DEF StatusOfGets
<1>17. CASE GetsMeta
  <2>1. down # <<>> /\ Head(down).v \in 1..MaxSize
    BY <1>17, HeadOfDown DEF GetsMeta, ReceivesType, Receives
  <2>2. PICK asked \in Size : up' = Append(up, Up("offset", asked))
    BY <1>17, <2>1, BoundsNat DEF GetsMeta, Size
  <2>3. PICK x \in UpItem : x = Up("offset", asked)
    BY <1>1 DEF Up, Item, UpItem
  <2>4. x.t = "offset"
    BY <2>3 DEF Up, Item
  <2>5. up' # <<>> /\ up'[Len(up')] = x
    BY <1>1, <2>2, <2>3, LastSaid
  <2> QED  BY <2>4, <2>5 DEF Speaks
<1> QED
  BY <1>7, <1>8, <1>9, <1>10, <1>11, <1>12, <1>13, <1>14, <1>15, <1>16, <1>17 DEF ClientStep

\* A worker that still does something has not lost the stream.
LEMMA WorkerAlive ==
  ASSUME Types, ServerStep, ~ ServerLost, ~ ServerEndOfFile
  PROVE  Alive
<1>1. (\E t \in ServerWaits : Takes(t)) => Alive
  BY TakerAlive
<1>2. ReceiveCommand \/ ReceiveName \/ HandleUser \/ AnswerPuts \/ ReceiveData \/ SendContent
        => \E t \in ServerWaits : Takes(t)
  BY DEF ReceiveCommand, ReceiveName, HandleUser, AnswerPuts, ReceiveData, SendContent, ServerWaits
<1>3. List \/ Pwd \/ Cd \/ Change \/ FinishPuts \/ AnswerGets => Alive
  BY DEF List, Pwd, Cd, Change, FinishPuts, AnswerGets, Runs, Alive, Garbage, Mismatched, Identifying
<1> QED  BY <1>1, <1>2, <1>3 DEF ServerStep

\* The worker has a word for the client, or something left to do.
LEMMA WorkerOwed ==
  ASSUME Types, Types', Welcome, Owed, ServerStep \/ Expire
  PROVE  Owed'
<1>1. /\ up \in Seq(UpItem) /\ down \in Seq(DownItem) /\ open \in BOOLEAN
      /\ server \in [at : ServerPlaces, cmd : Spoken \cup {"none"}, of : Nat, size : Size,
                     logged : BOOLEAN]
  BY DEF Types
<1>2. client' = client /\ occurred \subseteq occurred'
  <2>1. client' = client
    BY DEF ServerStep, ReceiveCommand, ReceiveName, HandleUser, List, Pwd, Cd, Change, AnswerPuts,
           ReceiveData, FinishPuts, AnswerGets, SendContent, ServerLost, ServerEndOfFile, Expire
  <2> QED  BY <2>1, OccurredGrows DEF Next
<1>3. SUFFICES ASSUME open', Alive', client'.at \in Awaiting
               PROVE  /\ up' # <<>> => Speaks(up'[Len(up')], occurred')
                      /\ up' = <<>> /\ down' = <<>> =>
                           server'.at # "cmd" \/ occurred' \cap {"empty", "mute", "missing"} # {}
  BY DEF Owed
<1>4. ~ Expire /\ ~ ServerLost /\ ~ ServerEndOfFile
  BY <1>1, <1>3 DEF Expire, ServerLost, ServerEndOfFile, Awaits, Alive
<1>5. open /\ Alive
  <2>1. open' = open
    BY <1>4 DEF ServerStep, ReceiveCommand, ReceiveName, HandleUser, List, Pwd, Cd, Change, AnswerPuts,
                ReceiveData, FinishPuts, AnswerGets, SendContent
  <2> QED  BY <1>3, <1>4, <2>1, WorkerAlive
<1>6. /\ up # <<>> => Speaks(up[Len(up)], occurred)
      /\ up = <<>> /\ down = <<>> =>
           server.at # "cmd" \/ occurred \cap {"empty", "mute", "missing"} # {}
  BY <1>2, <1>3, <1>5 DEF Owed
\* The last item stays the last until it is taken.
<1>7. up' = up \/ (up # <<>> /\ up' = Tail(up))
  BY <1>4 DEF ServerStep, ReceiveCommand, ReceiveName, HandleUser, List, Pwd, Cd, Change, AnswerPuts,
              ReceiveData, FinishPuts, AnswerGets, SendContent, Takes
<1>8. up' # <<>> => Speaks(up'[Len(up')], occurred')
  <2>1. up' # <<>> => up # <<>> /\ up'[Len(up')] = up[Len(up)]
    BY <1>1, <1>7, LastStays
  <2> QED  BY <1>2, <1>6, <2>1 DEF Speaks
<1>9. ASSUME NEW m \in Nat, m > 0, Adds(m)  PROVE down' # <<>>
  BY <1>5, <1>9, Later
<1>10. CASE ReceiveCommand
  <2>1. ASSUME up' = <<>>  PROVE server'.at # "cmd"
    <3>1. up # <<>> /\ up' = Tail(up) /\ up[1].t = "cmd" /\ Head(up) = up[1] /\ up[1].v \in Spoken
      BY <1>10, TakesHead, HeadOfUp DEF ReceiveCommand
    <3>2. up[1].v # "ping"
      <4>1. up[1] = up[Len(up)]
        BY <1>1, <2>1, <3>1, LastStays
      <4> QED  BY <1>6, <3>1, <4>1 DEF Speaks
    <3>3. PICK cmd \in Spoken : cmd = up[1].v
      BY <3>1
    <3>4. \E p \in {"run", "name"} :
            server' = [server EXCEPT !.cmd = cmd, !.of = Head(up).of, !.at = p]
      BY <1>10, <3>1, <3>2, <3>3 DEF ReceiveCommand
    <3> QED  BY <1>1, <3>4
  <2> QED  BY <1>8, <2>1
<1>11. CASE ReceiveName
  <2>1. \E p \in {"password", "meta", "run"} : Awaits(p)
    BY <1>11 DEF ReceiveName
  <2> QED  BY <1>1, <1>8, <2>1 DEF Awaits
<1>12. CASE HandleUser
  <2>1. ASSUME up' = <<>>, down' = <<>>  PROVE "empty" \in occurred'
    <3>1. up # <<>> /\ up' = Tail(up) /\ up[1].t = "password" /\ Head(up) = up[1]
      BY <1>12, TakesHead, HeadOfUp DEF HandleUser
    <3>2. ASSUME NEW v \in {"success", "refused", "norootdir"}, Answers(<<<<"text", v>>>>)  PROVE FALSE
      <4>1. Adds(1)
        BY <3>2, Said DEF Sentences
      <4> QED  BY <1>9, <2>1, <4>1
    <3>3. up[1].v = "empty"
      BY <1>12, <3>1, <3>2 DEF HandleUser
    <3>4. up[1] = up[Len(up)]
      BY <1>1, <2>1, <3>1, LastStays
    <3> QED  BY <1>2, <1>6, <3>1, <3>3, <3>4 DEF Speaks
  <2> QED  BY <1>8, <2>1
<1>13. ASSUME \E v \in Sentences : Answers(<<<<"text", v>>>>)  PROVE down' # <<>>
  <2>1. Adds(1)
    BY <1>13, Said
  <2> QED  BY <1>9, <2>1
<1>14. ASSUME NEW t, NEW v, NEW t2, NEW v2, Item(t, v, server.of) \in DownItem,
              Item(t2, v2, server.of) \in DownItem, Answers(<<<<t, v>>, <<t2, v2>>>>)
       PROVE  down' # <<>>
  <2>1. Adds(2)
    <3> HIDE DEF Item
    <3> QED  BY <1>14, AnswersTwo
  <2> QED  BY <1>9, <2>1
<1>15. ASSUME NEW v \in {"seccomp", "notfound"}, Answers(<<<<"status", v>>>>)  PROVE down' # <<>>
  <2>1. Adds(1)
    BY <1>15, Sayings, AnswersOne
  <2> QED  BY <1>9, <2>1
<1>16. ASSUME NEW k \in Size, Answers(<<<<"status", "go">>, <<"offset", k>>, <<"status", "error">>>>)
       PROVE  down' # <<>>
  <2>1. Adds(3)
    BY <1>16, Sayings, AnswersThree
  <2> QED  BY <1>9, <2>1
<1>17. CASE List \/ Pwd \/ Change \/ FinishPuts
  <2>1. \E v \in {"listing", "failed", "path", "done", "success"} : Answers(<<<<"text", v>>>>)
    BY <1>17 DEF List, Pwd, Change, FinishPuts
  <2>2. {"listing", "failed", "path", "done", "success"} \subseteq Sentences
    BY DEF Sentences
  <2> QED  BY <1>8, <1>13, <2>1, <2>2
<1>18. CASE Cd
  <2>1. /\ Item("text", "changed", server.of) \in DownItem /\ "failed" \in Sentences
        /\ \A v \in {"path", "nopath"} : Item("text", v, server.of) \in DownItem
    BY Sayings DEF Sentences
  <2>2. \/ Answers(<<<<"text", "failed">>>>)
        \/ \E v \in {"path", "nopath"} : Answers(<<<<"text", "changed">>, <<"text", v>>>>)
    BY <1>18 DEF Cd
  <2>3. ASSUME NEW v \in {"path", "nopath"}, Answers(<<<<"text", "changed">>, <<"text", v>>>>)
        PROVE  down' # <<>>
    <3> HIDE DEF Item
    <3> QED  BY <1>14, <2>1, <2>3
  <2> QED  BY <1>8, <1>13, <2>1, <2>2, <2>3
<1>19. CASE AnswerPuts
  <2>1. Head(up).v \in Size
    BY <1>19, TakesHead, HeadOfUp DEF AnswerPuts
  <2>2. \A k \in 0..Head(up).v : k \in Size
    BY <2>1, BoundsNat DEF Size
  <2>3. /\ \A k \in Size : Item("offset", k, server.of) \in DownItem
        /\ Item("status", "go", server.of) \in DownItem
        /\ Item("status", "error", server.of) \in DownItem
        /\ Item("text", "failed", server.of) \in DownItem
    BY Sayings DEF Sentences
  <2>4. \/ Answers(<<<<"status", "error">>, <<"text", "failed">>>>)
        \/ Answers(<<<<"status", "seccomp">>>>)
        \/ \E k \in Size : Answers(<<<<"status", "go">>, <<"offset", k>>>>)
        \/ \E k \in Size : Answers(<<<<"status", "go">>, <<"offset", k>>, <<"status", "error">>>>)
    BY <1>19, <2>2 DEF AnswerPuts
  <2> HIDE DEF Item
  <2>5. CASE Answers(<<<<"status", "error">>, <<"text", "failed">>>>)
    BY <1>8, <1>14, <2>3, <2>5
  <2>6. CASE \E k \in Size : Answers(<<<<"status", "go">>, <<"offset", k>>>>)
    <3>1. PICK k \in Size : Answers(<<<<"status", "go">>, <<"offset", k>>>>)
      BY <2>6
    <3> QED  BY <1>8, <1>14, <2>3, <3>1
  <2> QED  BY <1>8, <1>15, <1>16, <2>4, <2>5, <2>6
<1>20. CASE ReceiveData
  <2>1. CASE server' = [server EXCEPT !.size = @ - 1]
    <3>1. server'.at = "data"
      BY <1>1, <1>20, <2>1 DEF ReceiveData, Takes
    <3> QED  BY <1>8, <3>1
  <2>2. CASE Answers(<<<<"text", "interrupted">>>>)
    BY <1>8, <1>13, <2>2 DEF Sentences
  <2> QED  BY <1>20, <2>1, <2>2 DEF ReceiveData
<1>21. CASE AnswerGets
  <2>1. /\ \A k \in 1..MaxSize : Item("meta", k, server.of) \in DownItem
        /\ Item("status", "ok", server.of) \in DownItem
        /\ Item("status", "notfound", server.of) \in DownItem
        /\ Item("text", "failed", server.of) \in DownItem
    BY Sayings DEF Sentences
  <2>2. \/ Answers(<<<<"status", "notfound">>, <<"text", "failed">>>>)
        \/ Answers(<<<<"status", "notfound">>>>)
        \/ \E k \in 1..MaxSize : Answers(<<<<"status", "ok">>, <<"meta", k>>>>)
    BY <1>21 DEF AnswerGets
  <2> HIDE DEF Item
  <2>3. CASE Answers(<<<<"status", "notfound">>, <<"text", "failed">>>>)
    BY <1>8, <1>14, <2>1, <2>3
  <2>4. CASE \E k \in 1..MaxSize : Answers(<<<<"status", "ok">>, <<"meta", k>>>>)
    <3>1. PICK k \in 1..MaxSize : Answers(<<<<"status", "ok">>, <<"meta", k>>>>)
      BY <2>4
    <3> QED  BY <1>8, <1>14, <2>1, <3>1
  <2> QED  BY <1>8, <1>15, <2>2, <2>3, <2>4
<1>22. CASE SendContent
  <2>1. \/ \E v \in Sentences : Answers(<<<<"text", v>>>>)
        \/ \E k \in Nat : k > 0 /\ (Answers([i \in 1..k |-> <<"data", 1>>]) \/ Answers(Surplus(k)))
        \/ "missing" \in occurred'
    <3>1. PICK left : left = server.size - Head(up).v
      OBVIOUS
    <3>2. left \in Int
      <4>1. Head(up).v \in Size /\ server.size \in Size
        BY <1>22, TakesHead, HeadOfUp DEF SendContent, Types
      <4> QED  BY <3>1, <4>1, BoundsNat DEF Size
    <3>3. \/ Answers(<<<<"text", "complete">>>>)
          \/ ~ (left <= 0) /\ Answers([i \in 1..left |-> <<"data", 1>>])
          \/ ~ (left <= 0) /\ Answers(Surplus(left))
          \/ "missing" \in occurred'
      BY <1>22, <3>1 DEF SendContent, Faults, Surplus
    <3>4. ~ (left <= 0) => left \in Nat /\ left > 0
      BY <3>2
    <3>5. "complete" \in Sentences
      BY DEF Sentences
    <3> QED  BY <3>3, <3>4, <3>5, Zenon
  <2>2. ASSUME NEW k \in Nat, k > 0, Answers([i \in 1..k |-> <<"data", 1>>]) \/ Answers(Surplus(k))
        PROVE  down' # <<>>
    <3>1. k + 1 \in Nat /\ k + 1 > 0
      OBVIOUS
    <3> QED  BY <1>9, <2>2, <3>1, AnswersBlocks, AnswersSurplus
  <2> QED  BY <1>8, <1>13, <2>1, <2>2
<1> QED
  BY <1>4, <1>10, <1>11, <1>12, <1>17, <1>18, <1>19, <1>20, <1>21, <1>22 DEF ServerStep

\* The blocks of a download are sent all at once, and taken one by one.
LEMMA DataKept ==
  ASSUME Types, Types', Welcome, Streams, AllData, [Next]_vars
  PROVE  AllData'
<1>1. /\ up \in Seq(UpItem) /\ down \in Seq(DownItem) /\ open \in BOOLEAN /\ Len(down) \in Nat
      /\ client \in [at : ClientPlaces, cmd : Spoken \cup {"none"}, size : Size, logged : BOOLEAN]
      /\ server \in [at : ServerPlaces, cmd : Spoken \cup {"none"}, of : Nat, size : Size,
                     logged : BOOLEAN]
      /\ client.size \in Nat /\ server.size \in Nat
      /\ client.at = "data" => client.size > 0
  BY BoundsNat DEF Types, Size
<1>2. CASE UNCHANGED vars
  BY <1>2 DEF vars, AllData, Alive, Garbage, Mismatched
<1>3. SUFFICES ASSUME client'.at = "data", open', Alive', server'.at # "offset",
                      "missing" \notin occurred', ~ UNCHANGED vars
               PROVE  client'.size <= Len(down') /\ \A i \in 1..client'.size : down'[i].t = "data"
  BY <1>2 DEF AllData
<1>4. occurred \subseteq occurred'
  BY OccurredGrows
<1>7. PICK z \in Nat : z = client.size
  BY <1>1
<1>8. PICK l \in Nat : l = Len(down)
  BY <1>1
<1>5. CASE ClientStep
  <2>1. server' = server /\ open' = open
    BY <1>5, ClientWelcome
  <2>2. ASSUME NEW p, p # "data", Goes(p)  PROVE FALSE
    BY <1>1, <1>3, <2>2 DEF Goes
  <2>3. CASE Ping \/ SocketEvent \/ Quit \/ (\E cmd \in {"register", "login"} : Identify(cmd))
             \/ \E v \in {"empty", "some"} : Password(v)
    BY <1>1, <1>3, <2>3 DEF Ping, SocketEvent, Quit, Identify, Password
  <2>4. CASE \E cmd \in Commands : Command(cmd)
    <3>1. \E cmd \in Commands : \E p \in {"changed", "puts", "getstatus", "reply"} :
            client' = [client EXCEPT !.cmd = cmd, !.at = p]
      BY <2>4 DEF Command
    <3> QED  BY <1>1, <1>3, <3>1
  <2>5. CASE LoginReply \/ PutsMeta
    BY <1>1, <1>3, <2>5 DEF LoginReply, PutsMeta
  <2>6. CASE Reply \/ ReplyPart \/ PutsFails \/ ClientLost \/ Changed \/ NewPath \/ ClientEndOfFile
             \/ PutsStatus \/ PutsOffset \/ GetsStatus
    <3>1. \E p \in {"prompt", "lost", "path", "gone", "final", "offset", "meta"} : Goes(p)
      <4>1. CASE Reply \/ ReplyPart \/ PutsFails \/ ClientLost \/ Changed \/ NewPath \/ ClientEndOfFile
        BY <4>1 DEF Reply, ReplyPart, PutsFails, ClientLost, Changed, NewPath, ClientEndOfFile
      <4>2. CASE PutsStatus \/ PutsOffset \/ GetsStatus
        BY <4>2 DEF PutsStatus, PutsOffset, GetsStatus
      <4> QED  BY <2>6, <4>1, <4>2
    <3> QED  BY <2>2, <3>1
  <2>7. CASE GetsMeta
    <3>1. client.at = "meta"
      BY <2>7 DEF GetsMeta, ReceivesType, Receives
    <3>2. up = <<>> /\ (Alive => server.at = "offset")
      BY <3>1 DEF Streams, Answered, Offered
    <3>3. Alive
      BY <1>3, <2>1, <3>2 DEF Alive, Garbage, Mismatched
    <3> QED  BY <1>3, <2>1, <3>2, <3>3
  <2>8. CASE GetsData
    <3>1. /\ client.at = "data" /\ down # <<>> /\ down' = Tail(down)
          /\ UNCHANGED <<up, occurred>> /\ client'.size = client.size - 1
      BY <1>1, <2>8 DEF GetsData, ReceivesType, Receives
    <3>2. Alive
      BY <1>3, <2>1, <3>1, SameStream
    <3>3. z <= l /\ \A i \in 1..z : down[i].t = "data"
      BY <1>3, <1>7, <1>8, <2>1, <3>1, <3>2 DEF AllData
    <3>4. Len(down') = l - 1 /\ \A i \in 1..(l - 1) : down'[i] = down[i + 1]
      BY <1>1, <1>8, <3>1, Behead
    <3>5. client'.size = z - 1 /\ z - 1 <= l - 1
      BY <1>7, <3>1, <3>3
    <3>6. ASSUME NEW i \in 1..(z - 1)  PROVE down'[i].t = "data"
      <4>1. i + 1 \in 1..z /\ i \in 1..(l - 1)
        BY <3>3
      <4> QED  BY <3>3, <3>4, <4>1
    <3> QED  BY <3>4, <3>5, <3>6
  <2> QED  BY <1>5, <2>3, <2>4, <2>5, <2>6, <2>7, <2>8 DEF ClientStep
<1>6. CASE ServerStep \/ Expire
  <2>1. ~ Expire /\ ~ ServerLost /\ ~ ServerEndOfFile
    BY <1>1, <1>3 DEF Expire, ServerLost, ServerEndOfFile, Awaits, Alive
  <2>2. client' = client /\ open
    BY <1>3, <1>6, <2>1 DEF ServerStep, ReceiveCommand, ReceiveName, HandleUser, List, Pwd, Cd, Change,
                AnswerPuts, ReceiveData, FinishPuts, AnswerGets, SendContent
  <2>3. Alive
    BY <1>6, <2>1, WorkerAlive
  <2>4. CASE server.at # "offset"
    <3>1. z <= l /\ \A i \in 1..z : down[i].t = "data"
      BY <1>3, <1>4, <1>7, <1>8, <2>2, <2>3, <2>4 DEF AllData
    <3>2. PICK m \in Nat : Properly(m)
      BY <1>6, <2>1, WorkerSays
    <3>3. /\ Len(down') >= Len(down) /\ Len(down') \in Nat /\ DOMAIN down = 1..Len(down)
          /\ \A i \in DOMAIN down : down'[i] = down[i]
      BY <3>2, Later DEF Properly
    <3>4. PICK m2 \in Nat : m2 = Len(down')
      BY <3>3
    <3>5. z <= m2
      BY <1>8, <3>1, <3>3, <3>4
    <3>6. \A i \in 1..z : i \in 1..l
      BY <3>1
    <3> QED  BY <1>7, <1>8, <2>2, <3>1, <3>3, <3>4, <3>5, <3>6
  <2>5. CASE server.at = "offset"
    <3>1. SendContent
      BY <1>3, <1>6, <2>1, <2>5 DEF ServerStep, ReceiveCommand, ReceiveName, HandleUser, List, Pwd, Cd,
            Change, AnswerPuts, ReceiveData, FinishPuts, AnswerGets, Takes, Runs
    <3>2. up # <<>> /\ Head(up) = up[1]
      BY <3>1, TakesHead DEF SendContent
    <3>3. down = <<>> /\ up[1].v = server.size - client.size
      BY <1>3, <2>2, <2>3, <2>5, <3>2 DEF Streams, Fetching
    <3>4. PICK left \in Nat : left = client.size /\ left > 0
      BY <1>1, <1>3, <2>2
    <3>5. server.size - Head(up).v = left /\ ~ (left <= 0)
      <4>1. PICK q \in Nat : q = server.size
        BY <1>1
      <4>2. Head(up).v = q - left
        BY <3>2, <3>3, <3>4, <4>1
      <4>3. q - (q - left) = left /\ ~ (left <= 0)
        BY <3>4
      <4> QED  BY <4>1, <4>2, <4>3
    <3>6. Answers([i \in 1..left |-> <<"data", 1>>]) \/ Answers(Surplus(left))
      BY <1>3, <3>1, <3>5 DEF SendContent, Faults, Surplus
    <3>7. /\ Adds(left) \/ Adds(left + 1)
          /\ \A i \in 1..left : down'[Len(down) + i] = Item("data", 1, server.of)
      <4> HIDE DEF Item
      <4> QED  BY <2>2, <3>6, AnswersBlocks, AnswersSurplus
    <3>8. Len(down) = 0
      BY <3>3
    <3>9. left <= Len(down') /\ \A i \in 1..left : down'[i] = Item("data", 1, server.of)
      <4>1. \A i \in 1..left : Len(down) + i = i
        BY <3>8
      <4>2. left <= Len(down')
        BY <2>2, <3>7, <3>8 DEF Adds
      <4> HIDE DEF Item
      <4> QED  BY <3>7, <4>1, <4>2
    <3>10. Item("data", 1, server.of).t = "data"
      BY DEF Item
    <3> HIDE DEF Item
    <3> QED  BY <2>2, <3>4, <3>9, <3>10
  <2> QED  BY <2>4, <2>5
<1> QED  BY <1>3, <1>5, <1>6 DEF Next

\* A path is waited for only if it is there.
LEMMA PathKept ==
  ASSUME Types, Types', Welcome, Trailed, client.at = "path" => down # <<>>, [Next]_vars
  PROVE  client'.at = "path" => down' # <<>>
<1>1. /\ down \in Seq(DownItem) /\ open \in BOOLEAN /\ Len(down) \in Nat
      /\ client \in [at : ClientPlaces, cmd : Spoken \cup {"none"}, size : Size, logged : BOOLEAN]
  BY DEF Types
<1>2. CASE UNCHANGED vars
  BY <1>2 DEF vars
<1>3. CASE Changed
  <2>1. down # <<>> /\ down' = Tail(down) /\ down[1] = Head(down) /\ 1 \in DOMAIN down
    BY <1>3, HeadOfDown DEF Changed, Receives
  <2>2. client'.at = "path" => Text("changed")
    BY <1>1, <1>3 DEF Changed, Goes
  <2>3. Text("changed") => 1 < Len(down)
    BY <2>1 DEF Text, Trailed
  <2>4. Len(down') = Len(down) - 1
    BY <1>1, <2>1, Behead
  <2>5. 1 < Len(down) => Len(down') # 0
    <3>1. PICK l \in Nat : l = Len(down)
      BY <1>1
    <3>2. 1 < l => l - 1 # 0
      OBVIOUS
    <3> QED  BY <2>4, <3>1, <3>2
  <2> QED  BY <2>2, <2>3, <2>5
<1>4. CASE ClientStep /\ ~ Changed
  <2>1. client'.at # "path"
    <3>1. ASSUME NEW p, p # "path", Goes(p)  PROVE client'.at # "path"
      BY <1>1, <3>1 DEF Goes
    <3>2. CASE Ping \/ SocketEvent \/ Quit \/ (\E cmd \in {"register", "login"} : Identify(cmd))
               \/ \E v \in {"empty", "some"} : Password(v)
      BY <1>1, <3>2 DEF Ping, SocketEvent, Quit, Identify, Password
    <3>3. CASE \E cmd \in Commands : Command(cmd)
      <4>1. \E cmd \in Commands : \E p \in {"changed", "puts", "getstatus", "reply"} :
              client' = [client EXCEPT !.cmd = cmd, !.at = p]
        BY <3>3 DEF Command
      <4> QED  BY <1>1, <4>1
    <3>4. CASE LoginReply \/ PutsMeta \/ GetsData
      BY <1>1, <3>4 DEF LoginReply, PutsMeta, GetsData
    <3>5. CASE Reply \/ ReplyPart \/ PutsFails \/ ClientLost \/ NewPath \/ ClientEndOfFile
      <4>1. \E p \in {"prompt", "lost", "gone"} : Goes(p)
        BY <3>5 DEF Reply, ReplyPart, PutsFails, ClientLost, NewPath, ClientEndOfFile
      <4> QED  BY <3>1, <4>1
    <3>6. CASE PutsStatus \/ PutsOffset \/ GetsStatus
      <4>1. \E p \in {"prompt", "final", "offset", "meta"} : Goes(p)
        BY <3>6 DEF PutsStatus, PutsOffset, GetsStatus
      <4> QED  BY <3>1, <4>1
    <3>7. CASE GetsMeta
      <4>1. \/ Goes("prompt")
            \/ \E p \in {"final", "data"} : \E k : client' = [client EXCEPT !.size = k, !.at = p]
        BY <3>7 DEF GetsMeta
      <4> QED  BY <1>1, <3>1, <4>1
    <3> QED  BY <1>4, <3>2, <3>3, <3>4, <3>5, <3>6, <3>7 DEF ClientStep
  <2> QED  BY <2>1
<1>5. CASE ServerStep
  <2>1. client' = client
    BY <1>5 DEF ServerStep, ReceiveCommand, ReceiveName, HandleUser, List, Pwd, Cd, Change, AnswerPuts,
           ReceiveData, FinishPuts, AnswerGets, SendContent, ServerLost, ServerEndOfFile
  <2>2. down' = <<>> => down = <<>>
    BY <1>5, WorkerSays, Later DEF Properly
  <2> QED  BY <2>1, <2>2
<1>6. CASE Expire
  <2>1. PICK x \in DownItem : x = Item("notice", "notice", 0)
    BY DEF Item, DownItem
  <2>2. client' = client /\ down' = Append(down, x)
    BY <1>6, <2>1 DEF Expire
  <2> QED  BY <1>1, <2>2, Appended
<1> QED  BY <1>2, <1>3, <1>4, <1>5, <1>6 DEF Next

LEMMA DutyAlways == Spec => [](Types /\ Welcome /\ Notices /\ Trailed /\ Talk /\ Duty)
<1>1. Init => Duty
  BY DEF Init, Duty, Owed, AllData, Awaiting
<1>2. ASSUME Types, Types', Welcome, Trailed, Talk, Talk', Duty, [Next]_vars  PROVE Duty'
  <2>1. client'.at = "path" => down' # <<>>
    BY <1>2, PathKept DEF Duty
  <2>2. ASSUME occurred' \cap {"local", "input"} = {}  PROVE Owed' /\ AllData'
    <3>1. Streams /\ Owed /\ AllData
      BY <1>2, <2>2, OccurredGrows DEF Talk, Streams, Duty
    <3>2. AllData'
      BY <1>2, <3>1, DataKept
    <3>3. Owed'
      <4>1. CASE UNCHANGED vars
        BY <3>1, <4>1 DEF vars, Owed, Speaks, Alive, Garbage, Mismatched
      <4> QED  BY <1>2, <3>1, <4>1, ClientOwed, WorkerOwed DEF Next
    <3> QED  BY <3>2, <3>3
  <2> QED  BY <2>1, <2>2 DEF Duty
<1> QED  BY <1>1, <1>2, TalkAlways, PTL DEF Spec

\* Whose input has ended at the password is gone.
Ends == "input" \in occurred => client.at = "gone"

LEMMA OnlyQuit ==
  ASSUME [Next]_vars, ~ Quit
  PROVE  /\ "input" \in occurred' => "input" \in occurred
         /\ client.at = "gone" => client' = client
<1>1. CASE UNCHANGED vars
  BY <1>1 DEF vars
<1>2. CASE Ping \/ SocketEvent \/ (\E cmd \in {"register", "login"} : Identify(cmd))
             \/ (\E v \in {"empty", "some"} : Password(v)) \/ (\E cmd \in Commands : Command(cmd))
  <2>1. client.at # "gone"
    BY <1>2 DEF Ping, SocketEvent, Identify, Password, Command
  <2>2. occurred' = occurred \/ occurred' = occurred \cup {"empty"}
    BY <1>2 DEF Ping, SocketEvent, Identify, Password, Command
  <2> QED  BY <2>1, <2>2
<1>3. CASE LoginReply \/ Reply \/ ReplyPart \/ Changed \/ NewPath \/ PutsMeta \/ PutsFails
             \/ PutsStatus \/ PutsOffset \/ GetsStatus \/ GetsMeta \/ GetsData
             \/ ClientLost \/ ClientEndOfFile
  <2>1. client.at # "gone"
    BY <1>3 DEF LoginReply, Reply, ReplyPart, Changed, NewPath, PutsMeta, PutsFails, PutsStatus,
                PutsOffset, GetsStatus, GetsMeta, GetsData, ClientLost, ClientEndOfFile, Receives,
                ReceivesType, ClientWaits, ExactPlaces, LoosePlaces
  <2>2. \E f \in {{}, {"split"}, {"local"}} : occurred' = occurred \cup f
    BY <1>3 DEF LoginReply, Reply, ReplyPart, Changed, NewPath, PutsMeta, PutsFails, PutsStatus,
                PutsOffset, GetsStatus, GetsMeta, GetsData, ClientLost, ClientEndOfFile
  <2> QED  BY <2>1, <2>2
<1>4. CASE ServerStep
  <2>1. client' = client
    BY <1>4 DEF ServerStep, ReceiveCommand, ReceiveName, HandleUser, List, Pwd, Cd, Change,
                AnswerPuts, ReceiveData, FinishPuts, AnswerGets, SendContent, ServerLost,
                ServerEndOfFile
  <2>2. \E f \in {{}, {"nopath"}, {"open"}, {"write"}, {"mute"}, {"missing"}, {"longer"}} :
          occurred' = occurred \cup f
    <3>1. CASE ReceiveCommand \/ ReceiveName \/ HandleUser \/ List \/ Pwd \/ Cd \/ Change
      BY <3>1 DEF ReceiveCommand, ReceiveName, HandleUser, List, Pwd, Cd, Change, Faults
    <3>2. CASE AnswerPuts \/ ReceiveData \/ FinishPuts \/ AnswerGets
      BY <3>2 DEF AnswerPuts, ReceiveData, FinishPuts, AnswerGets, Faults
    <3>3. CASE SendContent \/ ServerLost \/ ServerEndOfFile
      BY <3>3 DEF SendContent, ServerLost, ServerEndOfFile, Faults
    <3> QED  BY <1>4, <3>1, <3>2, <3>3 DEF ServerStep
  <2> QED  BY <2>1, <2>2
<1>5. CASE Expire
  BY <1>5 DEF Expire, Faults
<1> QED  BY <1>1, <1>2, <1>3, <1>4, <1>5 DEF Next, ClientStep

LEMMA EndsAlways == Spec => [](Types /\ Ends)
<1>1. Init => Ends
  BY DEF Init, Ends
<1>2. ASSUME Types, Ends, [Next]_vars  PROVE Ends'
  <2>1. CASE Quit
    BY <1>2, <2>1 DEF Quit, Ends, Types
  <2>2. CASE ~ Quit
    BY <1>2, <2>2, OnlyQuit DEF Ends
  <2> QED  BY <2>1, <2>2
<1> QED  BY <1>1, <1>2, TypesAlways, PTL DEF Spec

\* Client and worker never wait for one another with nothing on the way unless
\* the worker left out an answer or its content (no password, handle_cmd.c:11;
\* NOT_FOUND alone, cmd_set.c:279, 321; content that ends early, cmd_set.c:346),
\* the client could not read its file, or the wheel closed the descriptor.
THEOREM StandoffOnlyByFaultAlways == Spec => []StandoffOnlyByFault
<1>1. Types /\ Welcome /\ Talk /\ Duty /\ Ends => StandoffOnlyByFault
  <2> SUFFICES ASSUME Types, Welcome, Talk, Duty, Ends, client.at \in ClientWaits, up = <<>>, down = <<>>,
                      server.at \in ServerWaits, ~ (server.at = "data" /\ server.size = 0),
                      occurred \cap {"empty", "mute", "missing", "local", "expiry"} = {}
               PROVE  FALSE
    BY DEF StandoffOnlyByFault
  <2>1. Orderly /\ Answered /\ Owed /\ AllData /\ (client.at = "path" => down # <<>>)
    <3>1. "input" \notin occurred
      BY DEF Ends, ClientWaits, ExactPlaces, LoosePlaces
    <3>2. occurred \cap {"local", "input"} = {}
      BY <3>1
    <3> QED  BY <3>2 DEF Talk, Streams, Duty
  <2>2. open
    BY DEF Welcome
  <2>3. Alive
    BY DEF Alive, Garbage, Mismatched, ServerWaits
  <2>4. End(up) = server.at
    <3>1. Len(up) = 0
      OBVIOUS
    <3>2. Len(up) + 1 = 1 /\ ~ (Len(up) + 1 > 1)
      BY <3>1
    <3>3. server.at = "data" => 1 <= server.size
      <4>1. PICK q \in Nat : q = server.size
        BY BoundsNat DEF Types, Size
      <4> QED  BY <4>1
    <3> QED  BY <3>2, <3>3 DEF End, Due, First, ServerWaits
  <2>5. client.at \in Ordinary => server.at = "cmd"
    BY <2>1, <2>3, <2>4 DEF Orderly, Turn
  <2>6. client.at \notin {"login", "reply", "final", "changed"}
    BY <2>1, <2>2, <2>3, <2>5 DEF Owed, Awaiting, Ordinary
  <2>7. client.at # "path"
    BY <2>1
  <2>8. client.at # "data"
    <3> SUFFICES ASSUME client.at = "data"  PROVE FALSE
      OBVIOUS
    <3>1. client.size <= Len(down)
      BY <2>1, <2>2, <2>3, <2>5 DEF AllData, Ordinary
    <3>2. PICK z \in Nat : z = client.size /\ z > 0
      BY BoundsNat DEF Types, Size
    <3>3. Len(down) = 0
      OBVIOUS
    <3> QED  BY <3>1, <3>2, <3>3
  <2>9. client.at \notin {"offset", "meta"}
    BY <2>1 DEF Answered, Going, Offered
  <2>10. client.at \notin {"status", "getstatus"}
    BY <2>1, <2>2, <2>3 DEF Answered, StatusOfPuts, StatusOfGets, ServerWaits
  <2> QED  BY <2>6, <2>7, <2>8, <2>9, <2>10 DEF ClientWaits, ExactPlaces, LoosePlaces
<1> QED  BY <1>1, DutyAlways, EndsAlways, PTL

-----------------------------------------------------------------------------
(* Whose turn it is, as long as nothing was cut short.                     *)

Whole == occurred \cap {"local", "input", "longer", "split", "expiry"} = {}
IsPing(x) == x.t = "cmd" /\ x.v = "ping"

\* At its prompt the client has nothing to read, and the worker nothing to do.
Idle ==
  /\ client.at \in {"prompt", "select", "password", "puts"} => down = <<>>
  /\ Alive /\ client.at \in {"prompt", "select"} =>
       server.at = "cmd" /\ \A i \in DOMAIN up : IsPing(up[i])

\* In a command the worker does that command, and no other comes behind it.
Behind(j) == /\ server.at = "cmd" /\ \A i \in DOMAIN up : i < j => IsPing(up[i])
             /\ ~ IsPing(up[j]) => up[j].of = n /\ up[j].v = client.cmd
Current ==
  InCommand =>
    /\ \A i \in DOMAIN down : down[i].of = n
    /\ Alive => /\ server.at # "cmd" => server.of = n /\ server.cmd = client.cmd
                /\ \A j \in DOMAIN up : up[j].t = "cmd" => Behind(j)

\* An answer is all there is, and the worker has done with the command or waits
\* for what the client sends next.
Once ==
  Alive /\ InCommand =>
    /\ down # <<>> => /\ up = <<>>
                      /\ \/ server.at = "cmd"
                         \/ client.at \in {"status", "offset"} /\ server.at = "data"
                         \/ client.at \in {"getstatus", "meta"} /\ server.at = "offset"
    /\ server.at = "data" =>
         client.at = "final" \/ (client.at \in {"status", "offset"} /\ down # <<>>)

\* The command of each place of the client.
Follows ==
  /\ client.at = "reply" => client.cmd \in {"ls", "pwd", "mkdir", "rmdir", "remove"}
  /\ client.at \in {"changed", "path"} => client.cmd = "cd"
  /\ client.at \in {"puts", "status", "offset"} => client.cmd = "puts"
  /\ client.at \in {"getstatus", "meta", "data"} => client.cmd = "gets"
  /\ client.at = "final" => client.cmd \in {"puts", "gets"}
  /\ client.at \in {"password", "login"} => client.cmd \in Identifying

\* There is no more on down than the client goes on to read.
Counts ==
  /\ client.at \in {"login", "reply", "final", "path"} => Len(down) <= 1
  /\ client.at = "changed" /\ down # <<>> => Len(down) = IF Text("changed") THEN 2 ELSE 1
  /\ client.at = "status" /\ down # <<>> =>
       /\ down[1].t = "status"
       /\ down[1].v = "error" => Len(down) = 2
       /\ down[1].v = "seccomp" => Len(down) = 1
       /\ down[1].v = "go" => Len(down) <= 3 /\ (Alive /\ server.at = "data" => Len(down) = 2)
  /\ client.at = "offset" => Len(down) <= 2 /\ (Alive /\ server.at = "data" => Len(down) = 1)
  /\ client.at = "getstatus" /\ down # <<>> => down[1].t = "status" /\ Len(down) <= 2
  /\ client.at = "meta" => Len(down) = 1
  /\ client.at = "data" =>
       /\ Len(down) <= client.size
       /\ "missing" \notin occurred => \A i \in DOMAIN down : down[i].t = "data"

Strays == client.at = "lost" => "missing" \in occurred

InTurn == Idle /\ Current /\ Once /\ Follows /\ Counts /\ Strays
Turns == Whole => InTurn

LEMMA WholeKnows ==
  ASSUME Types, Welcome, Talk, Duty, Whole
  PROVE  /\ open /\ Orderly /\ Answered /\ Fetching /\ Blocked /\ Streams
         /\ "expiry" \notin occurred /\ "local" \notin occurred
<1>1. {"local", "input", "longer", "split", "expiry"} \cap occurred = {}
  BY DEF Whole
<1>2. /\ "expiry" \notin occurred /\ "local" \notin occurred
      /\ occurred \cap {"local", "input"} = {}
  BY <1>1
<1> QED  BY <1>2 DEF Talk, Streams, Welcome

\* The client is back at its prompt, or at none any more.
LEMMA BackInTurn ==
  ASSUME client'.at \in {"prompt", "select"}, down' = <<>>,
         Alive' => server'.at = "cmd" /\ \A i \in DOMAIN up' : IsPing(up'[i])
  PROVE  InTurn'
  BY DEF InTurn, Idle, Current, Once, Follows, Counts, Strays, InCommand

LEMMA GoneInTurn ==
  ASSUME client'.at = "gone" \/ (client'.at = "lost" /\ "missing" \in occurred')
  PROVE  InTurn'
  BY DEF InTurn, Idle, Current, Once, Follows, Counts, Strays, InCommand

\* The client takes one item, and what is left is still of this command.
LEMMA Remains ==
  ASSUME Types, down # <<>>, down' = Tail(down), n' = n, \A i \in DOMAIN down : down[i].of = n
  PROVE  /\ \A i \in DOMAIN down' : down'[i].of = n' /\ i + 1 \in DOMAIN down /\ down'[i] = down[i + 1]
         /\ Len(down') = Len(down) - 1 /\ Len(down) \in Nat \ {0} /\ Len(down') \in Nat
         /\ Len(down) <= 1 => down' = <<>>
         /\ Len(down) >= 2 => down' # <<>>
<1>1. /\ down \in Seq(DownItem) /\ down' \in Seq(DownItem)
      /\ Len(down') = Len(down) - 1 /\ Len(down) \in Nat \ {0}
      /\ \A i \in DOMAIN down' : i \in Nat /\ i + 1 \in DOMAIN down /\ down'[i] = down[i + 1]
  BY Quieter DEF Types
<1>2. Len(down) <= 1 => down' = <<>>
  <2>1. Len(down) <= 1 => Len(down') = 0
    BY <1>1
  <2> QED  BY <1>1, <2>1
<1>3. Len(down) >= 2 => Len(down') # 0
  BY <1>1
<1> QED  BY <1>1, <1>2, <1>3

\* A worker in a command has no other one on its stream.
LEMMA NoOther ==
  ASSUME Types, Current, InCommand, Alive, server.at # "cmd"
  PROVE  \A j \in DOMAIN up : up[j].t # "cmd"
  BY DEF Current, Behind

\* One that has to answer now has heard all there is.
LEMMA Finished ==
  ASSUME Types, Orderly, InTurn, InCommand, Alive,
         server.at = "run" \/ (server.at = "data" /\ server.size = 0)
  PROVE  up = <<>>
<1>1. up \in Seq(UpItem) /\ server.size \in Nat
  BY BoundsNat DEF Types, Size
<1>2. SUFFICES ASSUME up # <<>>  PROVE FALSE
  OBVIOUS
<1>3. 1 \in DOMAIN up
  BY <1>1, <1>2
<1>4. up[1].t = Due(up, 1)
  BY <1>3 DEF Orderly, Fits
<1>5. Due(up, 1) = "cmd"
  BY <1>1 DEF Due, First
<1> QED  BY <1>3, <1>4, <1>5, NoOther DEF InTurn

\* Nor does anything follow an offset or the last block.
LEMMA OneLeft ==
  ASSUME Types, Orderly, InTurn, InCommand, Alive, up # <<>>, up' = Tail(up), server.at # "cmd",
         up[1].t \in {"offset", "data", "password"}
  PROVE  up' # <<>> => server.at = "data" /\ up'[1].t = "data"
<1>1. /\ up \in Seq(UpItem) /\ up' \in Seq(UpItem) /\ Len(up') = Len(up) - 1 /\ Len(up) \in Nat \ {0}
      /\ DOMAIN up = 1..Len(up) /\ \A i \in 1..(Len(up) - 1) : up'[i] = up[i + 1]
  BY Behead DEF Types
<1>2. SUFFICES ASSUME up' # <<>>  PROVE server.at = "data" /\ up'[1].t = "data"
  OBVIOUS
<1>3. Len(up') # 0
  BY <1>1, <1>2
<1>4. 2 \in DOMAIN up /\ up'[1] = up[2]
  <2>1. 1 \in 1..(Len(up) - 1) /\ 1 + 1 = 2
    BY <1>1, <1>3
  <2> QED  BY <1>1, <2>1
<1>5. up[2].t = Due(up, 2)
  BY <1>4 DEF Orderly, Fits
<1>6. After(up[1]) = "cmd"
  BY DEF After
<1>7. Due(up, 2) = "cmd" \/ (server.at = "data" /\ Due(up, 2) = "data")
  <2>1. 2 > 1 /\ 2 - 1 = 1
    OBVIOUS
  <2> QED  BY <1>6, <2>1 DEF Due
<1> QED  BY <1>4, <1>5, <1>7, NoOther DEF InTurn

\* The client sends more of its command.
LEMMA SendsInTurn ==
  ASSUME Types, Types', InTurn, UNCHANGED <<down, n, server>>,
         \/ client.at = "password" /\ client'.at = "login"
         \/ client.at = "puts" /\ client'.at = "status",
         client'.cmd = client.cmd, NEW x \in UpItem, x.t \notin {"cmd", "data"}, up' = Append(up, x)
  PROVE  InTurn'
<1>1. up \in Seq(UpItem) /\ down = <<>> /\ DOMAIN down = {} /\ Len(down) = 0 /\ InCommand
  BY DEF Types, InTurn, Idle, InCommand
<1>2. /\ DOMAIN up' = 1..(Len(up) + 1) /\ Len(up) \in Nat /\ DOMAIN up = 1..Len(up)
      /\ \A i \in 1..Len(up) : up'[i] = up[i]
      /\ up'[Len(up) + 1] = x
  BY <1>1, Appended
<1>3. Alive' => Alive
  <2>1. up # <<>> => up' # <<>> /\ up'[1] = up[1]
    BY <1>1, Begins
  <2>2. up' # <<>> /\ (up = <<>> => up'[1] = x)
    BY <1>1, Begins
  <2> QED  BY <2>1, <2>2, Growing
<1>4. ASSUME Alive', NEW j \in DOMAIN up', up'[j].t = "cmd"  PROVE Behind(j)'
  <2>1. j \in DOMAIN up /\ up'[j] = up[j] /\ \A i \in DOMAIN up' : i < j => i \in DOMAIN up /\ up'[i] = up[i]
    <3>1. j # Len(up) + 1
      BY <1>2, <1>4
    <3> QED  BY <1>2, <3>1
  <2>2. Behind(j)
    BY <1>1, <1>3, <1>4, <2>1 DEF InTurn, Current
  <2> QED  BY <2>1, <2>2 DEF Behind, IsPing
<1>5. Current'
  BY <1>1, <1>3, <1>4 DEF InTurn, Current
<1>6. Once'
  BY <1>1, <1>3 DEF InTurn, Once
<1>7. Follows'
  BY DEF InTurn, Follows
<1>8. Idle' /\ Strays' /\ Counts'
  BY <1>1 DEF Idle, Strays, Counts
<1> QED  BY <1>5, <1>6, <1>7, <1>8 DEF InTurn

\* The client gives a command.
LEMMA GivesInTurn ==
  ASSUME Types, Types', InTurn, UNCHANGED <<down, server>>, client.at = "select",
         NEW cmd \in Spoken, cmd # "ping", client'.cmd = cmd, n' = n + 1,
         up' = IF cmd \in {"ls", "pwd"} THEN Append(up, Item("cmd", cmd, n + 1))
               ELSE Append(Append(up, Item("cmd", cmd, n + 1)), Item("name", cmd, n + 1)),
         \/ client'.at = "password" /\ cmd \in Identifying
         \/ client'.at = "changed" /\ cmd = "cd"
         \/ client'.at = "puts" /\ cmd = "puts"
         \/ client'.at = "getstatus" /\ cmd = "gets"
         \/ client'.at = "reply" /\ cmd \in {"ls", "pwd", "mkdir", "rmdir", "remove"}
  PROVE  InTurn'
<1>1. up \in Seq(UpItem) /\ down = <<>> /\ DOMAIN down = {} /\ Len(down) = 0 /\ n \in Nat
  BY DEF Types, InTurn, Idle
<1>2. n + 1 \in Nat
  BY <1>1
<1>3. PICK x \in UpItem : x = Item("cmd", cmd, n + 1)
  BY <1>2, Items
<1>4. PICK y \in UpItem : y = Item("name", cmd, n + 1)
  BY <1>2, Items
<1>5. x.t = "cmd" /\ x.v = cmd /\ x.of = n' /\ y.t = "name"
  BY <1>3, <1>4 DEF Item
<1>6. up' = Append(up, x) \/ up' = Append(Append(up, x), y)
  BY <1>3, <1>4
<1>7. /\ Append(up, x) \in Seq(UpItem) /\ DOMAIN Append(up, x) = 1..(Len(up) + 1)
      /\ Len(Append(up, x)) = Len(up) + 1
      /\ Len(up) \in Nat /\ DOMAIN up = 1..Len(up)
      /\ \A i \in 1..Len(up) : Append(up, x)[i] = up[i]
      /\ Append(up, x)[Len(up) + 1] = x
  BY <1>1, Appended
<1>8. /\ DOMAIN Append(Append(up, x), y) = 1..(Len(up) + 2)
      /\ \A i \in 1..(Len(up) + 1) : Append(Append(up, x), y)[i] = Append(up, x)[i]
      /\ Append(Append(up, x), y)[Len(up) + 2] = y
  <2>1. /\ DOMAIN Append(Append(up, x), y) = 1..(Len(Append(up, x)) + 1)
        /\ \A i \in 1..Len(Append(up, x)) : Append(Append(up, x), y)[i] = Append(up, x)[i]
        /\ Append(Append(up, x), y)[Len(Append(up, x)) + 1] = y
    BY <1>7, Appended
  <2>2. (Len(up) + 1) + 1 = Len(up) + 2
    BY <1>7
  <2> QED  BY <1>7, <2>1, <2>2
<1>9. ASSUME NEW i \in DOMAIN up'
      PROVE  \/ i \in DOMAIN up /\ up'[i] = up[i]
             \/ i = Len(up) + 1 /\ up'[i] = x
             \/ i = Len(up) + 2 /\ up'[i] = y
  BY <1>6, <1>7, <1>8
<1>10. Alive' => Alive
  <2>1. up # <<>> => Append(up, x) # <<>> /\ Append(up, x)[1] = up[1]
    BY <1>1, Begins
  <2>2. up' # <<>> /\ up'[1] = Append(up, x)[1]
    BY <1>6, <1>7, Begins
  <2>3. up = <<>> => Append(up, x)[1] = x
    BY <1>1, Begins
  <2> QED  BY <1>5, <2>1, <2>2, <2>3, Growing
<1>11. Alive' => server.at = "cmd" /\ \A i \in DOMAIN up : IsPing(up[i])
  BY <1>10 DEF InTurn, Idle
<1>12. ASSUME Alive', NEW j \in DOMAIN up', up'[j].t = "cmd"  PROVE Behind(j)'
  <2>1. (j = Len(up) + 1 /\ up'[j] = x) \/ (j \in DOMAIN up /\ up'[j] = up[j])
    BY <1>5, <1>9, <1>12
  <2>2. \A i \in DOMAIN up' : i < j => i \in DOMAIN up /\ up'[i] = up[i]
    BY <1>7, <1>9, <2>1
  <2> QED  BY <1>5, <1>11, <1>12, <2>1, <2>2 DEF Behind, IsPing
<1>13. Current' /\ Once'
  BY <1>1, <1>11, <1>12 DEF Current, Once
<1>14. Follows'
  BY DEF Follows
<1>15. Idle' /\ Counts' /\ Strays'
  BY <1>1 DEF Idle, Counts, Strays
<1> QED  BY <1>13, <1>14, <1>15 DEF InTurn

\* The client at its prompt.
LEMMA PromptInTurn ==
  ASSUME Types, Types', InTurn,
         \/ Ping \/ SocketEvent \/ Quit
         \/ \E cmd \in {"register", "login"} : Identify(cmd)
         \/ \E v \in {"empty", "some"} : Password(v)
         \/ \E cmd \in Commands : Command(cmd)
  PROVE  InTurn'
<1>1. /\ up \in Seq(UpItem) /\ down \in Seq(DownItem) /\ n \in Nat
      /\ client \in [at : ClientPlaces, cmd : Spoken \cup {"none"}, size : Size, logged : BOOLEAN]
  BY DEF Types
<1>2. CASE Ping
  <2>1. /\ client.at = "prompt" /\ client'.at = "select" /\ UNCHANGED <<down, server>>
        /\ up' = Append(up, Up("cmd", "ping"))
    BY <1>1, <1>2 DEF Ping
  <2>2. PICK x \in UpItem : x = Up("cmd", "ping")
    BY <1>1 DEF Up, Item, UpItem, Spoken
  <2>3. x.t = "cmd" /\ IsPing(x)
    BY <2>2 DEF Up, Item, IsPing
  <2>4. /\ DOMAIN up' = 1..(Len(up) + 1) /\ Len(up) \in Nat /\ DOMAIN up = 1..Len(up)
        /\ \A i \in 1..Len(up) : up'[i] = up[i]
        /\ up'[Len(up) + 1] = x
    BY <1>1, <2>1, <2>2, Appended
  <2>5. Alive' => Alive
    <3>1. up # <<>> => up' # <<>> /\ up'[1] = up[1]
      BY <1>1, <2>1, <2>2, Begins
    <3>2. up = <<>> => up'[1] = x
      BY <1>1, <2>1, <2>2, Begins
    <3> QED  BY <2>1, <2>3, <3>1, <3>2, Growing
  <2>6. Alive' => server'.at = "cmd" /\ \A i \in DOMAIN up' : IsPing(up'[i])
    <3>1. Alive' => server'.at = "cmd" /\ \A i \in DOMAIN up : IsPing(up[i])
      BY <2>1, <2>5 DEF InTurn, Idle
    <3>2. \A i \in DOMAIN up' : (i \in DOMAIN up /\ up'[i] = up[i]) \/ up'[i] = x
      BY <2>4
    <3> QED  BY <2>3, <3>1, <3>2 DEF IsPing
  <2>7. down' = <<>>
    BY <2>1 DEF InTurn, Idle
  <2> QED  BY <2>1, <2>6, <2>7, BackInTurn
<1>3. CASE SocketEvent
  <2>1. down = <<>>
    BY <1>3 DEF SocketEvent, InTurn, Idle
  <2>2. 1..Len(down) = {}
    BY <2>1
  <2>3. client' = [client EXCEPT !.at = "gone"]
    BY <1>3, <2>1, <2>2 DEF SocketEvent
  <2>4. client'.at = "gone"
    BY <1>1, <2>3
  <2> QED  BY <2>4, GoneInTurn
<1>4. CASE Quit
  <2>1. client'.at = "gone"
    BY <1>1, <1>4 DEF Quit
  <2> QED  BY <2>1, GoneInTurn
<1>5. ASSUME NEW cmd \in {"register", "login"}, Identify(cmd)  PROVE InTurn'
  <2>1. PICK m \in Nat : m = n + 1
    BY <1>1
  <2>2. PICK x \in UpItem : x = Item("cmd", cmd, n + 1)
    BY <2>1, Items DEF Spoken, Identifying
  <2>3. PICK y \in UpItem : y = Item("name", cmd, n + 1)
    BY <2>1, Items DEF Spoken, Identifying
  <2>4. up' = up \o <<x, y>>
    BY <1>5, <2>2, <2>3 DEF Identify
  <2>5. up \o <<x, y>> = Append(Append(up, x), y)
    BY <1>1
  <2>6. cmd \in Spoken /\ cmd \in Identifying /\ cmd \notin {"ping", "ls", "pwd"}
    BY DEF Spoken, Identifying
  <2>7. /\ UNCHANGED <<down, server>> /\ client.at = "select" /\ n' = n + 1
        /\ client'.at = "password" /\ client'.cmd = cmd
    BY <1>1, <1>5 DEF Identify
  <2> HIDE DEF Item
  <2> QED  BY <2>2, <2>3, <2>4, <2>5, <2>6, <2>7, GivesInTurn
<1>6. ASSUME NEW v \in {"empty", "some"}, Password(v)  PROVE InTurn'
  <2>1. PICK x \in UpItem : x = Up("password", v)
    BY <1>1 DEF Up, Item, UpItem
  <2>2. x.t = "password"
    BY <2>1 DEF Up, Item
  <2>3. /\ UNCHANGED <<down, n, server>> /\ client.at = "password" /\ client'.at = "login"
        /\ client'.cmd = client.cmd /\ up' = Append(up, x)
    BY <1>1, <1>6, <2>1 DEF Password
  <2> QED  BY <2>2, <2>3, SendsInTurn
<1>7. ASSUME NEW cmd \in Commands, Command(cmd)  PROVE InTurn'
  <2>1. cmd \in Spoken /\ cmd \in AllCommands /\ cmd # "ping"
    BY CommandsKnown DEF Spoken, AllCommands
  <2>2. up' = (up \o <<Item("cmd", cmd, n + 1)>>)
                 \o (IF cmd \in {"ls", "pwd"} THEN <<>> ELSE <<Item("name", cmd, n + 1)>>)
    BY <1>7 DEF Command
  <2>3. up' = IF cmd \in {"ls", "pwd"} THEN Append(up, Item("cmd", cmd, n + 1))
              ELSE Append(Append(up, Item("cmd", cmd, n + 1)), Item("name", cmd, n + 1))
    BY <2>1, <2>2, CommandAdds
  <2>4. /\ UNCHANGED <<down, server>> /\ client.at = "select" /\ n' = n + 1
        /\ client'.cmd = cmd
        /\ client'.at = (CASE cmd = "cd" -> "changed" [] cmd = "puts" -> "puts"
                          [] cmd = "gets" -> "getstatus" [] OTHER -> "reply")
    BY <1>1, <1>7 DEF Command
  <2>5. \/ client'.at = "changed" /\ cmd = "cd"
        \/ client'.at = "puts" /\ cmd = "puts"
        \/ client'.at = "getstatus" /\ cmd = "gets"
        \/ client'.at = "reply" /\ cmd \in {"ls", "pwd", "mkdir", "rmdir", "remove"}
    BY <2>1, <2>4 DEF AllCommands
  <2> HIDE DEF Item
  <2> QED  BY <2>1, <2>3, <2>4, <2>5, GivesInTurn
<1> QED  BY <1>2, <1>3, <1>4, <1>5, <1>6, <1>7

\* The client takes the one answer there is.
LEMMA TakenInTurn ==
  ASSUME Types, InTurn, Trailed, Notices, InCommand, down # <<>>, down' = Tail(down), Len(down) <= 1,
         UNCHANGED <<up, server>>, client'.at = "prompt",
         \/ client.at \in {"login", "reply", "final", "changed", "path", "data"}
         \/ Alive => server.at = "cmd"
  PROVE  InTurn'
<1>1. down' = <<>>
  <2>1. down \in Seq(DownItem) /\ down' \in Seq(DownItem) /\ Len(down') = Len(down) - 1
        /\ Len(down) \in Nat \ {0}
    BY Quieter DEF Types
  <2>2. Len(down') = 0
    BY <2>1
  <2> QED  BY <2>1, <2>2
<1>2. Alive' <=> Alive
  BY SameStream
<1>3. Alive => up = <<>> /\ server.at = "cmd"
  BY DEF InTurn, Once
<1>4. up = <<>> => DOMAIN up = {}
  OBVIOUS
<1> QED  BY <1>1, <1>2, <1>3, <1>4, BackInTurn

\* The client goes on reading.
LEMMA ReadsInTurn ==
  ASSUME Types, Types', InTurn, UNCHANGED <<up, n, server>>, down # <<>>, down' = Tail(down),
         occurred' = occurred, client'.cmd = client.cmd, InCommand,
         client'.at \in {"path", "final", "offset", "meta", "data"},
         client'.at \in {"path", "final", "data"} => (Alive => server.at = "cmd"),
         client'.at = "offset" => /\ client.at = "status"
                                  /\ Alive => server.at = "cmd" \/ (server.at = "data" /\ down' # <<>>),
         client'.at = "meta" => client.at = "getstatus" /\ (Alive => server.at \in {"cmd", "offset"}),
         Follows', Counts'
  PROVE  InTurn'
<1>1. Alive' <=> Alive
  BY SameStream
<1>2. /\ down' \in Seq(DownItem)
      /\ \A i \in DOMAIN down' : i \in Nat /\ i + 1 \in DOMAIN down /\ down'[i] = down[i + 1]
  BY Quieter
<1>3. Current'
  <2>1. \A i \in DOMAIN down' : down'[i].of = n'
    BY <1>2 DEF InTurn, Current
  <2>2. Alive' => /\ server'.at # "cmd" => server'.of = n' /\ server'.cmd = client'.cmd
                  /\ \A j \in DOMAIN up' : up'[j].t = "cmd" => Behind(j)'
    BY <1>1 DEF InTurn, Current, Behind, IsPing
  <2> QED  BY <2>1, <2>2 DEF Current
<1>4. Once'
  <2>1. Alive => up = <<>>
    BY DEF InTurn, Once
  <2> QED  BY <1>1, <2>1 DEF Once
<1>5. Idle' /\ Strays'
  BY DEF Idle, Strays
<1> QED  BY <1>3, <1>4, <1>5 DEF InTurn

\* The client inside a command.
LEMMA InsideInTurn ==
  ASSUME Types, Types', Orderly, Answered, InTurn, Trailed, Notices, Duty, open, Whole',
         LoginReply \/ Reply \/ ReplyPart \/ Changed \/ NewPath \/ PutsMeta \/ PutsFails \/ PutsStatus
         \/ PutsOffset \/ GetsStatus \/ GetsMeta \/ GetsData \/ ClientLost \/ ClientEndOfFile
  PROVE  InTurn'
<1>1. /\ up \in Seq(UpItem) /\ down \in Seq(DownItem) /\ n \in Nat /\ Len(down) \in Nat
      /\ client \in [at : ClientPlaces, cmd : Spoken \cup {"none"}, size : Size, logged : BOOLEAN]
      /\ MaxSize \in Nat
  BY BoundsNat DEF Types
<1>2. /\ InCommand => \A i \in DOMAIN down : down[i].of = n
      /\ Follows /\ Counts /\ Once
  BY DEF InTurn, Current
<1>3. "local" \notin occurred' /\ "split" \notin occurred'
  <2>1. {"local", "input", "longer", "split", "expiry"} \cap occurred' = {}
    BY DEF Whole
  <2> QED  BY <2>1
<1>4. {"prompt", "path", "final", "offset", "meta", "gone", "lost"} \subseteq ClientPlaces
  BY DEF ClientPlaces, ClientWaits, ExactPlaces, LoosePlaces
<1>5. ASSUME down # <<>>, down' = Tail(down)
      PROVE  /\ Len(down') = Len(down) - 1 /\ Len(down) \in Nat \ {0} /\ down' \in Seq(DownItem)
             /\ \A i \in DOMAIN down' : i \in Nat /\ i + 1 \in DOMAIN down /\ down'[i] = down[i + 1]
             /\ Len(down) >= 2 => down' # <<>>
  <2>1. /\ Len(down') = Len(down) - 1 /\ Len(down) \in Nat \ {0} /\ down' \in Seq(DownItem)
        /\ \A i \in DOMAIN down' : i \in Nat /\ i + 1 \in DOMAIN down /\ down'[i] = down[i + 1]
    BY <1>5, Quieter
  <2>2. Len(down) >= 2 => Len(down') # 0
    BY <2>1
  <2> QED  BY <2>1, <2>2
<1>6. CASE LoginReply \/ Reply
  <2>1. /\ client.at \in {"login", "reply", "final"} /\ down # <<>> /\ down' = Tail(down)
        /\ UNCHANGED <<up, server>> /\ client'.at = "prompt"
    BY <1>1, <1>6 DEF LoginReply, Reply, Receives, Goes
  <2>2. Len(down) <= 1 /\ InCommand
    BY <1>2, <2>1 DEF Counts, InCommand
  <2> QED  BY <2>1, <2>2, TakenInTurn
<1>7. CASE ReplyPart \/ PutsFails
  BY <1>3, <1>7 DEF ReplyPart, PutsFails
<1>8. CASE Changed
  <2>1. /\ client.at = "changed" /\ down # <<>> /\ down' = Tail(down) /\ UNCHANGED <<up, n, server, occurred>>
        /\ client'.at = (IF Text("changed") THEN "path" ELSE "prompt") /\ client'.cmd = client.cmd
    BY <1>1, <1>8 DEF Changed, Receives, Goes
  <2>2. Len(down) = (IF Text("changed") THEN 2 ELSE 1) /\ InCommand /\ client.cmd = "cd"
    BY <1>2, <2>1 DEF Counts, InCommand, Follows
  <2>3. CASE ~ Text("changed")
    <3>1. Len(down) <= 1
      BY <2>2, <2>3
    <3> QED  BY <2>1, <2>2, <2>3, <3>1, TakenInTurn
  <2>4. CASE Text("changed")
    <3>1. client'.at = "path" /\ Len(down') <= 1
      BY <1>5, <2>1, <2>2, <2>4
    <3>2. Counts' /\ Follows'
      BY <2>1, <2>2, <3>1 DEF Counts, Follows
    <3>3. Alive => server.at = "cmd"
      BY <1>2, <2>1, <2>2 DEF Once
    <3> QED  BY <2>1, <2>2, <3>1, <3>2, <3>3, ReadsInTurn
  <2> QED  BY <2>3, <2>4
<1>9. CASE NewPath
  <2>1. /\ client.at = "path" /\ down # <<>> /\ down' = Tail(down) /\ UNCHANGED <<up, server>>
        /\ client'.at \in {"prompt", "gone"}
    BY <1>1, <1>9 DEF NewPath, Receives, Goes
  <2>2. Len(down) <= 1 /\ InCommand
    BY <1>2, <2>1 DEF Counts, InCommand
  <2> QED  BY <2>1, <2>2, TakenInTurn, GoneInTurn
<1>10. CASE PutsMeta
  <2>1. PICK k \in 0..MaxSize : /\ client' = [client EXCEPT !.at = "status", !.size = k]
                                /\ up' = Append(up, Up("meta", k))
    BY <1>10 DEF PutsMeta
  <2>2. PICK x \in UpItem : x = Up("meta", k)
    BY <1>1 DEF Up, Item, UpItem, Size
  <2>3. x.t = "meta"
    BY <2>2 DEF Up, Item
  <2>4. /\ client.at = "puts" /\ client'.at = "status" /\ client'.cmd = client.cmd
        /\ UNCHANGED <<down, n, server>>
    BY <1>1, <1>10, <2>1 DEF PutsMeta
  <2> QED  BY <2>1, <2>2, <2>3, <2>4, SendsInTurn
<1>11. CASE PutsStatus
  <2>1. /\ client.at = "status" /\ down # <<>> /\ down' = Tail(down) /\ UNCHANGED <<up, n, server, occurred>>
        /\ down[1].t = "status" /\ client'.cmd = client.cmd
        /\ client'.at = (CASE down[1].v = "error" -> "final" [] down[1].v = "seccomp" -> "prompt"
                           [] OTHER -> "offset")
    BY <1>1, <1>11, HeadOfDown DEF PutsStatus, ReceivesType, Receives, Goes
  <2>2. StatusOfPuts /\ Hopeful /\ InCommand /\ client.cmd = "puts"
    BY <1>2, <2>1 DEF Answered, Hopeful, Soft, InCommand, Follows
  <2>3. /\ down[1].v \in {"error", "seccomp", "go"}
        /\ down[1].v # "go" => (Alive => server.at = "cmd")
    BY <2>2 DEF StatusOfPuts
  <2>4. /\ down[1].v = "error" => Len(down) = 2
        /\ down[1].v = "seccomp" => Len(down) = 1
        /\ down[1].v = "go" => Len(down) <= 3 /\ (Alive /\ server.at = "data" => Len(down) = 2)
    BY <1>2, <2>1 DEF Counts
  <2>5. CASE down[1].v = "seccomp"
    <3>1. Len(down) <= 1 /\ client'.at = "prompt" /\ (Alive => server.at = "cmd")
      BY <2>1, <2>3, <2>4, <2>5
    <3> QED  BY <2>1, <2>2, <3>1, TakenInTurn
  <2>6. CASE down[1].v = "error"
    <3>1. client'.at = "final" /\ Len(down') <= 1
      BY <1>5, <2>1, <2>4, <2>6
    <3>2. Counts' /\ Follows'
      BY <2>1, <2>2, <3>1 DEF Counts, Follows
    <3>3. Alive => server.at = "cmd"
      BY <2>3, <2>6
    <3> QED  BY <2>1, <2>2, <3>1, <3>2, <3>3, ReadsInTurn
  <2>7. CASE down[1].v = "go"
    <3>1. client'.at = "offset" /\ Len(down') <= 2
      BY <1>5, <2>1, <2>4, <2>7
    <3>2. Alive /\ server.at = "data" => Len(down') = 1 /\ down' # <<>>
      <4> SUFFICES ASSUME Alive, server.at = "data"  PROVE Len(down') = 1 /\ down' # <<>>
        OBVIOUS
      <4>1. Len(down) = 2 /\ Len(down') = Len(down) - 1
        BY <1>5, <2>1, <2>4, <2>7
      <4>2. Len(down') = 1
        BY <4>1
      <4> QED  BY <4>2
    <3>3. Alive' <=> Alive
      BY <2>1, SameStream
    <3>4. Counts' /\ Follows'
      BY <2>1, <2>2, <3>1, <3>2, <3>3 DEF Counts, Follows
    <3>5. Alive => server.at = "cmd" \/ (server.at = "data" /\ down' # <<>>)
      BY <1>2, <2>1, <2>2, <3>2 DEF Once
    <3> QED  BY <2>1, <2>2, <3>1, <3>4, <3>5, ReadsInTurn
  <2> QED  BY <2>3, <2>5, <2>6, <2>7
<1>12. CASE PutsOffset
  <2>1. /\ client.at = "offset" /\ down # <<>> /\ down' = Tail(down) /\ Head(down) = down[1]
        /\ up' = up \o [i \in 1..(client.size - down[1].v) |-> Up("data", 1)]
        /\ client'.at = "final" /\ client'.cmd = client.cmd /\ UNCHANGED <<n, server, occurred>>
    <3>1. client.at = "offset" /\ down # <<>> /\ down' = Tail(down) /\ Head(down) = down[1] /\ UNCHANGED <<n, server>>
      BY <1>1, <1>12, HeadOfDown DEF PutsOffset, ReceivesType, Receives
    <3>2. up' = up \o [i \in 1..(client.size - down[1].v) |-> Up("data", 1)]
          /\ Goes("final") /\ occurred' = occurred
      BY <1>3, <1>12, <3>1 DEF PutsOffset
    <3>3. client'.at = "final" /\ client'.cmd = client.cmd
      BY <1>1, <3>2 DEF Goes
    <3> QED  BY <3>1, <3>2, <3>3
  <2>2. Going(1) /\ InCommand /\ client.cmd = "puts"
    BY <1>2, <2>1 DEF Answered, InCommand, Follows
  <2>3. /\ up = <<>> /\ (Alive => server.at \in {"data", "cmd"})
        /\ down[1].v \in Size
    BY <2>1, <2>2, HeadOfDown DEF Going
  <2>4. PICK left \in Int : left = client.size - down[1].v
    BY <1>1, <2>3 DEF Size
  <2>5. PICK x \in UpItem : x = Up("data", 1)
    BY <1>1 DEF Up, Item, UpItem
  <2>6. x.t = "data"
    BY <2>5 DEF Up, Item
  <2>7. PICK f \in Seq(UpItem) : f = [i \in 1..left |-> x] /\ \A i \in 1..Len(f) : f[i] = x
    BY Blocks
  <2>8. up' = f
    BY <2>1, <2>3, <2>4, <2>5, <2>7
  <2>9. \A i \in DOMAIN up' : up'[i] = x
    BY <2>7, <2>8
  <2>10. up' # <<>> => up'[1] = x
    <3>1. up' # <<>> => 1 \in DOMAIN up'
      BY <2>7, <2>8
    <3> QED  BY <2>9, <3>1
  <2>11. Alive' => Alive
    BY <2>1, <2>3 DEF Alive, Garbage, Mismatched
  <2>12. Alive' /\ server.at = "cmd" => up' = <<>>
    BY <2>1, <2>6, <2>10 DEF Alive, Garbage
  <2>13. Len(down) <= 2 /\ (Alive /\ server.at = "data" => Len(down) = 1)
    BY <1>2, <2>1 DEF Counts
  <2>14. Len(down') <= 1 /\ (Alive /\ server.at = "data" => down' = <<>>)
    <3>1. Alive /\ server.at = "data" => Len(down') = 0
      BY <1>5, <2>1, <2>13
    <3>2. Len(down') <= 1 /\ down' \in Seq(DownItem)
      BY <1>5, <2>1, <2>13
    <3> QED  BY <3>1, <3>2
  <2>15. Current'
    <3>1. \A i \in DOMAIN down' : down'[i].of = n'
      BY <1>2, <1>5, <2>1, <2>2
    <3>2. Alive' => /\ server'.at # "cmd" => server'.of = n' /\ server'.cmd = client'.cmd
                    /\ \A j \in DOMAIN up' : up'[j].t # "cmd"
      BY <2>1, <2>2, <2>6, <2>9, <2>11 DEF InTurn, Current
    <3> QED  BY <3>1, <3>2 DEF Current
  <2>16. Once'
    BY <2>1, <2>3, <2>11, <2>12, <2>14 DEF Once
  <2>17. Follows' /\ Counts' /\ Idle' /\ Strays'
    BY <2>1, <2>2, <2>14 DEF Follows, Counts, Idle, Strays
  <2> QED  BY <2>15, <2>16, <2>17 DEF InTurn
<1>13. CASE GetsStatus
  <2>1. /\ client.at = "getstatus" /\ down # <<>> /\ down' = Tail(down) /\ UNCHANGED <<up, n, server, occurred>>
        /\ down[1].t = "status" /\ client'.cmd = client.cmd
        /\ client'.at = (IF down[1].v = "notfound" THEN "final" ELSE "meta")
    BY <1>1, <1>13, HeadOfDown DEF GetsStatus, ReceivesType, Receives, Goes
  <2>2. StatusOfGets /\ Hopeful /\ InCommand /\ client.cmd = "gets"
    BY <1>2, <2>1 DEF Answered, Hopeful, Soft, InCommand, Follows
  <2>3. /\ down[1].v \in {"notfound", "ok"}
        /\ down[1].v = "notfound" => (Alive => server.at = "cmd")
        /\ down[1].v = "ok" => 2 \in DOMAIN down /\ (Alive => server.at = "offset")
    BY <2>2 DEF StatusOfGets, Offered
  <2>4. Len(down) <= 2
    BY <1>2, <2>1 DEF Counts
  <2>5. CASE down[1].v = "notfound"
    <3>1. client'.at = "final" /\ Len(down') <= 1
      BY <1>5, <2>1, <2>4, <2>5
    <3>2. Counts' /\ Follows'
      BY <2>1, <2>2, <3>1 DEF Counts, Follows
    <3>3. Alive => server.at = "cmd"
      BY <2>3, <2>5
    <3> QED  BY <2>1, <2>2, <3>1, <3>2, <3>3, ReadsInTurn
  <2>6. CASE down[1].v = "ok"
    <3>1. client'.at = "meta"
      BY <2>1, <2>6
    <3>2. Len(down') = 1
      <4>1. 2 \in 1..Len(down)
        BY <1>1, <2>3, <2>6
      <4>2. PICK l \in Nat : l = Len(down)
        BY <1>1
      <4>3. l <= 2 /\ 2 \in 1..l
        BY <2>4, <4>1, <4>2
      <4>4. l = 2
        BY <4>3
      <4> QED  BY <1>5, <2>1, <4>2, <4>4
    <3>3. Counts' /\ Follows'
      BY <2>1, <2>2, <3>1, <3>2 DEF Counts, Follows
    <3>4. Alive => server.at = "offset"
      BY <2>3, <2>6
    <3> QED  BY <2>1, <2>2, <3>1, <3>3, <3>4, ReadsInTurn
  <2> QED  BY <2>3, <2>5, <2>6
<1>14. CASE GetsMeta
  <2>1. client.at = "meta" /\ down # <<>> /\ down' = Tail(down) /\ Head(down).v \in 1..MaxSize /\ UNCHANGED <<n, server>>
    BY <1>14, HeadOfDown DEF GetsMeta, ReceivesType, Receives
  <2>2. PICK asked \in Size : /\ up' = Append(up, Up("offset", asked))
                              /\ client'.at \in {"final", "data"} /\ client'.cmd = client.cmd
    <3>1. PICK have \in 0..MaxSize :
             LET size == Head(down).v
                 asked == IF have >= size THEN size ELSE have IN
             /\ up' = Append(up, Up("offset", asked))
             /\ client' = [client EXCEPT !.size = size - asked,
                                         !.at = IF have >= size THEN "final" ELSE "data"]
      BY <1>3, <1>14 DEF GetsMeta
    <3>2. PICK asked : asked = IF have >= Head(down).v THEN Head(down).v ELSE have
      OBVIOUS
    <3>3. asked \in Size
      BY <1>1, <2>1, <3>2 DEF Size
    <3>4. client'.at \in {"final", "data"} /\ client'.cmd = client.cmd
      BY <1>1, <3>1
    <3> QED  BY <3>1, <3>2, <3>3, <3>4
  <2>3. Offered(1) /\ InCommand /\ client.cmd = "gets"
    BY <1>2, <2>1 DEF Answered, InCommand, Follows
  <2>4. up = <<>> /\ (Alive => server.at = "offset")
    BY <2>3 DEF Offered
  <2>5. PICK x \in UpItem : x = Up("offset", asked)
    BY <1>1 DEF Up, Item, UpItem
  <2>6. x.t = "offset" /\ up' = Append(up, x)
    BY <2>2, <2>5 DEF Up, Item
  <2>7. DOMAIN up' = {1} /\ up'[1] = x
    BY <2>4, <2>6
  <2>8. Alive' => Alive
    BY <2>1, <2>4 DEF Alive, Garbage, Mismatched
  <2>9. down' = <<>> /\ Len(down') = 0 /\ DOMAIN down' = {}
    <3>1. Len(down) = 1
      BY <1>2, <2>1 DEF Counts
    <3>2. Len(down') = 0 /\ down' \in Seq(DownItem)
      BY <1>5, <2>1, <3>1
    <3>3. down' = <<>>
      BY <3>2
    <3> QED  BY <3>3
  <2>10. Current'
    BY <2>1, <2>2, <2>3, <2>6, <2>7, <2>8, <2>9 DEF InTurn, Current
  <2>11. Once'
    BY <2>1, <2>4, <2>8, <2>9 DEF Once
  <2>12. Counts'
    <3>1. client'.size \in Nat
      BY <1>1 DEF Types, Size
    <3> QED  BY <2>2, <2>9, <3>1 DEF Counts
  <2>13. Follows' /\ Idle' /\ Strays'
    BY <2>2, <2>3 DEF Follows, Idle, Strays
  <2> QED  BY <2>10, <2>11, <2>12, <2>13 DEF InTurn
<1>15. CASE GetsData
  <2>1. /\ client.at = "data" /\ down # <<>> /\ down' = Tail(down) /\ UNCHANGED <<up, n, server, occurred>>
        /\ client'.at = (IF client.size = 1 THEN "prompt" ELSE "data")
        /\ client'.cmd = client.cmd /\ client'.size = client.size - 1
    BY <1>1, <1>15 DEF GetsData, ReceivesType, Receives
  <2>2. /\ Len(down) <= client.size /\ InCommand /\ client.cmd = "gets"
        /\ "missing" \notin occurred => \A i \in DOMAIN down : down[i].t = "data"
    BY <1>2, <2>1 DEF Counts, InCommand, Follows
  <2>3. CASE client.size = 1
    <3>1. Len(down) <= 1 /\ client'.at = "prompt"
      BY <2>1, <2>2, <2>3
    <3> QED  BY <2>1, <2>2, <3>1, TakenInTurn
  <2>4. CASE client.size # 1
    <3>1. PICK z \in Nat : z = client.size
      BY <1>1 DEF Size
    <3>2. client'.at = "data" /\ Len(down') <= client'.size
      BY <1>5, <2>1, <2>2, <2>4, <3>1
    <3>3. "missing" \notin occurred' => \A i \in DOMAIN down' : down'[i].t = "data"
      BY <1>5, <2>1, <2>2
    <3>4. Counts' /\ Follows'
      BY <2>1, <2>2, <3>2, <3>3 DEF Counts, Follows
    <3>5. Alive => server.at = "cmd"
      BY <1>2, <2>1, <2>2 DEF Once
    <3> QED  BY <2>1, <2>2, <3>2, <3>4, <3>5, ReadsInTurn
  <2> QED  BY <2>3, <2>4
<1>16. CASE ClientLost
  <2>0. ~ (client.at = "changed" /\ Text("surplus"))
    <3>1. Text("surplus") => "longer" \in occurred
      BY <1>1, HeadOfDown DEF Text, Trailed
    <3>2. "longer" \notin occurred' /\ occurred' = occurred
      BY <1>16 DEF ClientLost, Whole
    <3> QED  BY <3>1, <3>2
  <2>1. /\ client.at \in ExactPlaces /\ down # <<>> /\ Head(down) = down[1] /\ 1 \in DOMAIN down
        /\ down[1].t # (IF client.at = "getstatus" THEN "status" ELSE client.at)
        /\ client'.at = "lost" /\ occurred' = occurred
    BY <1>1, <1>16, <2>0, HeadOfDown DEF ClientLost, Goes
  <2>2. client.at \notin {"status", "getstatus"}
    BY <1>2, <2>1 DEF Counts
  <2>3. client.at \notin {"offset", "meta"}
    BY <2>1 DEF Answered, Going, Offered
  <2>4. client.at = "data"
    BY <2>1, <2>2, <2>3 DEF ExactPlaces
  <2>5. "missing" \in occurred'
    BY <1>2, <2>1, <2>4 DEF Counts
  <2> QED  BY <2>1, <2>5, GoneInTurn
<1>17. CASE ClientEndOfFile
  <2>1. client'.at \in {"gone", "prompt"} /\ down' = <<>> /\ ~ Alive'
    BY <1>1, <1>17 DEF ClientEndOfFile, Goes, Alive
  <2> QED  BY <2>1, BackInTurn, GoneInTurn
<1> QED
  BY <1>6, <1>7, <1>8, <1>9, <1>10, <1>11, <1>12, <1>13, <1>14, <1>15, <1>16, <1>17

\* Nobody waits any more for a client that is past hearing it.
LEMMA AwayInTurn ==
  ASSUME InTurn, client' = client, occurred \subseteq occurred', client.at \in {"gone", "lost"}
  PROVE  InTurn'
  BY GoneInTurn DEF InTurn, Strays

\* The worker hears no more.
LEMMA DeafInTurn ==
  ASSUME InTurn, UNCHANGED <<down, n, client, occurred>>, ~ Alive'
  PROVE  InTurn'
  BY DEF InTurn, Idle, Current, Once, Follows, Counts, Strays, InCommand, Text

\* A client that has something to be done is in a command.
LEMMA BusyInTurn ==
  ASSUME InTurn, Alive, server.at # "cmd", client.at \notin {"gone", "lost"}
  PROVE  /\ InCommand /\ server.of = n /\ server.cmd = client.cmd
         /\ up # <<>> => down = <<>>
         /\ server.at = "run" => down = <<>>
  BY DEF InTurn, Idle, InCommand, Current, Once

\* The worker reads and says nothing.
LEMMA HearsInTurn ==
  ASSUME Types, Types', InTurn, InCommand, UNCHANGED <<down, n, client, occurred>>, down = <<>>,
         server'.at # "cmd" => server'.of = n /\ server'.cmd = client.cmd,
         server'.at = "data" => client.at = "final",
         \A j \in DOMAIN up' : up'[j].t = "cmd" => Behind(j)'
  PROVE  InTurn'
<1>1. InCommand' /\ DOMAIN down' = {} /\ Len(down') = 0
  BY DEF InCommand
<1>2. Current' /\ Once'
  BY <1>1 DEF Current, Once
<1>3. Follows' /\ Idle' /\ Strays'
  BY DEF InTurn, Follows, Idle, Strays, InCommand
<1>4. Counts'
  <2>1. client'.size \in Nat
    BY BoundsNat DEF Types, Size
  <2>2. client'.at = "meta" => FALSE
    BY DEF InTurn, Counts
  <2> QED  BY <1>1, <2>1, <2>2 DEF Counts
<1> QED  BY <1>2, <1>3, <1>4 DEF InTurn

\* The worker answers.
LEMMA TellsInTurn ==
  ASSUME Types, Types', InTurn, InCommand, client.at \notin {"password", "puts"},
         UNCHANGED <<n, client>>, \A i \in DOMAIN down' : down'[i].of = n,
         server'.of = n /\ server'.cmd = client.cmd,
         Alive' => up' = <<>>,
         \/ server'.at = "cmd"
         \/ client.at = "status" /\ server'.at = "data" /\ down' # <<>>
         \/ client.at = "getstatus" /\ server'.at = "offset",
         Counts'
  PROVE  InTurn'
<1>1. InCommand' /\ (up' = <<>> => DOMAIN up' = {})
  BY DEF InCommand
<1>2. Current' /\ Once'
  BY <1>1 DEF Current, Once
<1>3. Follows' /\ Idle' /\ Strays'
  BY DEF InTurn, Follows, Idle, Strays, InCommand
<1> QED  BY <1>2, <1>3 DEF InTurn

\* One sentence to a client that had none.
LEMMA OneWord ==
  ASSUME Types, open, down = <<>>, NEW v \in Sentences, Answers(<<<<"text", v>>>>)
  PROVE  /\ Len(down') = 1 /\ down' # <<>> /\ down'[1] = Item("text", v, server.of)
         /\ \A i \in DOMAIN down' : down'[i].of = server.of
<1>1. /\ Len(down') = Len(down) + 1 /\ DOMAIN down' = 1..(Len(down) + 1)
      /\ down'[Len(down) + 1] = Item("text", v, server.of)
  BY Said DEF Adds
<1>2. Len(down) = 0
  OBVIOUS
<1>3. Len(down') = 1 /\ DOMAIN down' = {1} /\ down'[1] = Item("text", v, server.of)
  <2> HIDE DEF Item
  <2> QED  BY <1>1, <1>2
<1>4. Item("text", v, server.of).of = server.of
  BY DEF Item
<1>5. down' # <<>>
  BY <1>3
<1> QED  BY <1>3, <1>4, <1>5

LEMMA TwoWords ==
  ASSUME Types, open, down = <<>>, NEW t, NEW v, NEW t2, NEW v2, Item(t, v, server.of) \in DownItem,
         Item(t2, v2, server.of) \in DownItem, Answers(<<<<t, v>>, <<t2, v2>>>>)
  PROVE  /\ Len(down') = 2 /\ down' # <<>> /\ down'[1].t = t /\ down'[1].v = v
         /\ \A i \in DOMAIN down' : down'[i].of = server.of
<1>1. /\ Len(down') = Len(down) + 2 /\ DOMAIN down' = 1..(Len(down) + 2)
      /\ down'[Len(down) + 1] = Item(t, v, server.of)
      /\ down'[Len(down) + 2] = Item(t2, v2, server.of)
  <2> HIDE DEF Item
  <2> QED  BY AnswersTwo DEF Adds
<1>2. Len(down) = 0
  OBVIOUS
<1>3. /\ Len(down') = 2 /\ DOMAIN down' = {1, 2} /\ down'[1] = Item(t, v, server.of)
      /\ down'[2] = Item(t2, v2, server.of)
  <2> HIDE DEF Item
  <2> QED  BY <1>1, <1>2
<1>4. /\ Item(t, v, server.of).of = server.of /\ Item(t2, v2, server.of).of = server.of
      /\ Item(t, v, server.of).t = t /\ Item(t, v, server.of).v = v
  BY DEF Item
<1>5. down' # <<>>
  BY <1>3
<1> HIDE DEF Item
<1> QED  BY <1>3, <1>4, <1>5

\* A worker in a command takes the next item, and no other command is behind it.
LEMMA TakesOn ==
  ASSUME Types, InTurn, Alive, InCommand, server.at # "cmd", up # <<>>, up' = Tail(up)
  PROVE  \A j \in DOMAIN up' : up'[j].t # "cmd"
<1>1. \A j \in DOMAIN up : up[j].t # "cmd"
  BY NoOther DEF InTurn
<1>2. up \in Seq(UpItem)
  BY DEF Types
<1>3. \A j \in DOMAIN up' : j + 1 \in DOMAIN up /\ up'[j] = up[j + 1]
  BY <1>2, Behead
<1> QED  BY <1>1, <1>3

\* The worker reads what it is to do.
LEMMA ReadingInTurn ==
  ASSUME Types, Types', Welcome, Entering, Orderly, InTurn, open, "expiry" \notin occurred,
         ReceiveCommand \/ ReceiveName \/ HandleUser, client.at \notin {"gone", "lost"}
  PROVE  InTurn'
<1>1. /\ up \in Seq(UpItem) /\ DOMAIN up = 1..Len(up) /\ Len(up) \in Nat
      /\ server \in [at : ServerPlaces, cmd : Spoken \cup {"none"}, of : Nat, size : Size,
                     logged : BOOLEAN]
      /\ client' = client /\ n' = n /\ up # <<>> /\ up' = Tail(up) /\ open' = open /\ occurred' = occurred
  <2>1. /\ client' = client /\ n' = n /\ up # <<>> /\ up' = Tail(up)
        /\ open' = open /\ occurred' = occurred
    BY DEF ReceiveCommand, ReceiveName, HandleUser, Takes
  <2> QED  BY <2>1 DEF Types
<1>2. /\ up' \in Seq(UpItem) /\ 1 \in DOMAIN up
      /\ \A j \in DOMAIN up' : /\ j \in Nat /\ j > 0 /\ j + 1 \in DOMAIN up /\ up'[j] = up[j + 1]
                               /\ 1 < j + 1
  BY <1>1, Behead
<1>3. Alive /\ Head(up) = up[1]
  BY <1>1, TakerAlive DEF ReceiveCommand, ReceiveName, HandleUser
<1>4. CASE ReceiveCommand
  <2>1. /\ server.at = "cmd" /\ up[1].t = "cmd" /\ down' = down
        /\ server' = (IF up[1].v = "ping" THEN server
                      ELSE [server EXCEPT !.cmd = up[1].v, !.of = up[1].of,
                              !.at = IF up[1].v \in {"pwd", "ls"} THEN "run" ELSE "name"])
    BY <1>3, <1>4 DEF ReceiveCommand, Takes
  <2>2. CASE client.at \in {"prompt", "select"}
    <3>1. \A i \in DOMAIN up : IsPing(up[i])
      BY <1>3, <2>2 DEF InTurn, Idle
    <3>2. up[1].v = "ping" /\ \A i \in DOMAIN up' : IsPing(up'[i])
      BY <1>2, <3>1 DEF IsPing
    <3>3. down' = <<>>
      BY <2>1, <2>2 DEF InTurn, Idle
    <3> QED  BY <1>1, <2>1, <2>2, <3>2, <3>3, BackInTurn
  <2>3. CASE client.at \notin {"prompt", "select"}
    <3>1. InCommand /\ down = <<>>
      BY <1>1, <1>3, <2>3 DEF InCommand, InTurn, Once
    <3>2. \A j \in DOMAIN up : up[j].t = "cmd" => Behind(j)
      BY <1>3, <3>1 DEF InTurn, Current
    <3>3. CASE IsPing(up[1])
      <4>1. server' = server
        BY <2>1, <3>3 DEF IsPing
      <4>2. ASSUME NEW j \in DOMAIN up', up'[j].t = "cmd"  PROVE Behind(j)'
        <5>1. Behind(j + 1)
          BY <1>2, <3>2, <4>2
        <5>2. \A i \in DOMAIN up' : i < j => i + 1 \in DOMAIN up /\ i + 1 < j + 1 /\ up'[i] = up[i + 1]
          BY <1>2, <4>2
        <5>3. up'[j] = up[j + 1]
          BY <1>2, <4>2
        <5> QED  BY <1>1, <4>1, <5>1, <5>2, <5>3 DEF Behind, IsPing
      <4> QED  BY <1>1, <2>1, <3>1, <4>1, <4>2, HearsInTurn
    <3>4. CASE ~ IsPing(up[1])
      <4>1. up[1].of = n /\ up[1].v = client.cmd /\ up[1].v # "ping"
        BY <1>2, <2>1, <3>2, <3>4 DEF Behind, IsPing
      <4>2. server'.of = n /\ server'.cmd = client.cmd /\ server'.at \in {"run", "name"}
        BY <1>1, <2>1, <4>1
      <4>3. \A j \in DOMAIN up' : up'[j].t # "cmd"
        BY <1>2, <3>2, <3>4 DEF Behind
      <4> QED  BY <1>1, <2>1, <3>1, <4>2, <4>3, HearsInTurn
    <3> QED  BY <3>3, <3>4
  <2> QED  BY <2>2, <2>3
<1>5. CASE ReceiveName
  <2>1. server.at = "name" /\ down' = down /\ \E p \in {"password", "meta", "run"} : Awaits(p)
    BY <1>5 DEF ReceiveName, Takes
  <2>2. InCommand /\ server.of = n /\ server.cmd = client.cmd /\ down = <<>>
    BY <1>1, <1>3, <2>1, BusyInTurn
  <2>3. \A j \in DOMAIN up' : up'[j].t # "cmd"
    BY <1>1, <1>3, <2>1, <2>2, TakesOn
  <2>4. server'.of = n /\ server'.cmd = client.cmd /\ server'.at # "data"
    BY <1>1, <2>1, <2>2 DEF Awaits
  <2> QED  BY <1>1, <2>1, <2>2, <2>3, <2>4, HearsInTurn
<1>6. CASE HandleUser
  <2>1. server.at = "password" /\ up[1].t = "password"
    BY <1>3, <1>6 DEF HandleUser, Takes
  <2>2. InCommand /\ server.of = n /\ server.cmd = client.cmd /\ down = <<>>
    BY <1>1, <1>3, <2>1, BusyInTurn
  <2>3. \A j \in DOMAIN up' : up'[j].t # "cmd"
    BY <1>1, <1>3, <2>1, <2>2, TakesOn
  <2>4. CASE down' = down /\ Awaits("cmd")
    <3>1. server'.at = "cmd"
      BY <1>1, <2>4 DEF Awaits
    <3> QED  BY <1>1, <2>2, <2>3, <2>4, <3>1, HearsInTurn
  <2>5. ASSUME NEW v \in {"success", "refused", "norootdir"}, Answers(<<<<"text", v>>>>),
               server' = [server EXCEPT !.at = "cmd", !.logged = v = "success"]
        PROVE  InTurn'
    <3>1. client.at = "login"
      <4>1. ~ client.logged
        BY <2>1 DEF Welcome
      <4>2. Knocking
        BY <4>1 DEF Entering, Outside
      <4> QED  BY <1>2, <2>1, <4>2 DEF Knocking
    <3>2. up' = <<>>
      BY <1>1, <1>3, <2>1, <2>2, OneLeft
    <3>3. Len(down') = 1 /\ \A i \in DOMAIN down' : down'[i].of = n
      BY <2>2, <2>5, OneWord DEF Sentences
    <3>4. Counts'
      BY <1>1, <3>1, <3>3 DEF Counts
    <3>5. server'.at = "cmd" /\ server'.of = n /\ server'.cmd = client.cmd
      BY <1>1, <2>2, <2>5
    <3> QED  BY <1>1, <2>2, <3>1, <3>2, <3>3, <3>4, <3>5, TellsInTurn
  <2> QED  BY <1>6, <2>4, <2>5 DEF HandleUser
<1> QED  BY <1>4, <1>5, <1>6

\* The commands that are answered at once.
LEMMA SayingInTurn ==
  ASSUME Types, Types', Orderly, InTurn, Duty, open, List \/ Pwd \/ Cd \/ Change,
         client.at \notin {"gone", "lost"}
  PROVE  InTurn'
<1>1. /\ server \in [at : ServerPlaces, cmd : Spoken \cup {"none"}, of : Nat, size : Size,
                     logged : BOOLEAN]
      /\ server.at = "run" /\ UNCHANGED <<up, n, client>> /\ Awaits("cmd")
  BY DEF Types, List, Pwd, Cd, Change, Runs
<1>2. Alive
  BY DEF List, Pwd, Cd, Change, Runs, Alive, Garbage, Mismatched, Identifying
<1>3. InCommand /\ server.of = n /\ server.cmd = client.cmd /\ down = <<>>
  BY <1>1, <1>2, BusyInTurn
<1>4. up = <<>>
  BY <1>1, <1>2, <1>3, Finished
<1>5. server'.at = "cmd" /\ server'.of = n /\ server'.cmd = client.cmd
  BY <1>1, <1>3 DEF Awaits
<1>6. client.cmd \in {"ls", "pwd", "mkdir", "rmdir", "remove", "cd"}
  BY <1>3 DEF List, Pwd, Cd, Change, Runs
<1>7. client.at \in {"reply", "changed"} /\ (client.cmd = "cd" <=> client.at = "changed")
  <2>1. client.at \in ClientPlaces
    BY DEF Types
  <2>2. client.at # "path"
    BY <1>3 DEF Duty
  <2> QED  BY <1>3, <1>6, <2>1, <2>2
           DEF InTurn, Follows, InCommand, Identifying, ClientPlaces, ClientWaits, ExactPlaces, LoosePlaces
<1>8. ASSUME NEW v \in Sentences, v # "changed", Answers(<<<<"text", v>>>>)  PROVE InTurn'
  <2>1. Len(down') = 1 /\ down'[1] = Item("text", v, server.of) /\ \A i \in DOMAIN down' : down'[i].of = n
    BY <1>3, <1>8, OneWord
  <2>2. down' \in Seq(DownItem) /\ down'[1].v = v
    BY <2>1 DEF Types, Item
  <2>3. ~ Text("changed")'
    BY <1>8, <2>2 DEF Text
  <2>4. Counts'
    BY <1>1, <1>7, <2>1, <2>3 DEF Counts
  <2> QED  BY <1>1, <1>3, <1>4, <1>5, <1>7, <2>1, <2>4, TellsInTurn
<1>9. ASSUME NEW v \in {"path", "nopath"}, Answers(<<<<"text", "changed">>, <<"text", v>>>>), Cd  PROVE InTurn'
  <2>1. Item("text", "changed", server.of) \in DownItem /\ Item("text", v, server.of) \in DownItem
    BY Sayings DEF Sentences
  <2>2. /\ Len(down') = 2 /\ down' # <<>> /\ down'[1].t = "text" /\ down'[1].v = "changed"
        /\ \A i \in DOMAIN down' : down'[i].of = n
    <3> HIDE DEF Item
    <3> QED  BY <1>3, <1>9, <2>1, TwoWords
  <2>3. down' \in Seq(DownItem)
    BY DEF Types
  <2>4. Text("changed")'
    BY <2>2, <2>3 DEF Text
  <2>5. client.at = "changed"
    BY <1>3, <1>7, <1>9 DEF Cd, Runs
  <2>6. Counts'
    BY <1>1, <2>2, <2>4, <2>5 DEF Counts
  <2> QED  BY <1>1, <1>3, <1>4, <1>5, <1>7, <2>2, <2>6, TellsInTurn
<1>10. {"listing", "failed", "path", "done"} \subseteq Sentences \ {"changed"}
  BY DEF Sentences
<1>11. \/ \E v \in {"listing", "failed", "path", "done"} : Answers(<<<<"text", v>>>>)
       \/ Cd /\ \E v \in {"path", "nopath"} : Answers(<<<<"text", "changed">>, <<"text", v>>>>)
  BY DEF List, Pwd, Cd, Change
<1> QED  BY <1>8, <1>9, <1>10, <1>11

\* The worker answers puts.
LEMMA PutsInTurn ==
  ASSUME Types, Types', Orderly, InTurn, open, AnswerPuts, client.at \notin {"gone", "lost"}
  PROVE  InTurn'
<1>1. /\ server \in [at : ServerPlaces, cmd : Spoken \cup {"none"}, of : Nat, size : Size,
                     logged : BOOLEAN]
      /\ up \in Seq(UpItem) /\ down' \in Seq(DownItem)
  BY DEF Types
<1>2. /\ server.at = "meta" /\ up # <<>> /\ up[1].t = "meta" /\ up' = Tail(up) /\ UNCHANGED <<n, client>>
      /\ Head(up) = up[1] /\ 1 \in DOMAIN up /\ Head(up).v \in Size
  BY TakesHead, HeadOfUp DEF AnswerPuts
<1>3. Alive
  BY TakerAlive DEF AnswerPuts
<1>4. InCommand /\ server.of = n /\ server.cmd = client.cmd /\ down = <<>>
  BY <1>2, <1>3, BusyInTurn
<1>5. Len(up) = 1 /\ client.at = "status"
  BY <1>2, <1>3 DEF Orderly, Closing
<1>6. up' = <<>>
  <2>1. Len(up') = 0 /\ up' \in Seq(UpItem)
    BY <1>1, <1>2, <1>5, Behead
  <2> QED  BY <2>1
<1>7. Awaits("cmd") => server'.at = "cmd" /\ server'.of = n /\ server'.cmd = client.cmd
  BY <1>1, <1>4 DEF Awaits
<1>8. /\ \A k \in Size : Item("offset", k, server.of) \in DownItem
      /\ \A v \in {"error", "seccomp", "go"} : Item("status", v, server.of) \in DownItem
      /\ Item("text", "failed", server.of) \in DownItem
  BY Sayings DEF Sentences
<1>9. CASE Answers(<<<<"status", "error">>, <<"text", "failed">>>>) /\ Awaits("cmd")
  <2>1. /\ Len(down') = 2 /\ down' # <<>> /\ down'[1].t = "status" /\ down'[1].v = "error"
        /\ \A i \in DOMAIN down' : down'[i].of = n
    <3> HIDE DEF Item
    <3> QED  BY <1>4, <1>8, <1>9, TwoWords
  <2>2. Counts'
    BY <1>2, <1>5, <2>1 DEF Counts
  <2> QED  BY <1>2, <1>4, <1>5, <1>6, <1>7, <1>9, <2>1, <2>2, TellsInTurn
<1>10. CASE Answers(<<<<"status", "seccomp">>>>) /\ Awaits("cmd")
  <2>1. PICK x \in DownItem : x = Item("status", "seccomp", server.of)
    BY <1>8
  <2>2. /\ Len(down') = Len(down) + 1 /\ DOMAIN down' = 1..(Len(down) + 1)
        /\ down'[Len(down) + 1] = x
    <3> HIDE DEF Item
    <3> QED  BY <1>10, <2>1, AnswersOne DEF Adds
  <2>3. Len(down) = 0 /\ x.t = "status" /\ x.v = "seccomp" /\ x.of = n
    BY <1>4, <2>1 DEF Item
  <2>4. /\ Len(down') = 1 /\ down'[1].t = "status" /\ down'[1].v = "seccomp"
        /\ \A i \in DOMAIN down' : down'[i].of = n
    <3>1. Len(down') = 1 /\ DOMAIN down' = {1} /\ down'[1] = x
      BY <2>2, <2>3
    <3> QED  BY <2>3, <3>1
  <2>5. Counts'
    BY <1>2, <1>5, <2>4 DEF Counts
  <2> QED  BY <1>2, <1>4, <1>5, <1>6, <1>7, <1>10, <2>4, <2>5, TellsInTurn
<1>11. ASSUME NEW k \in Size, Answers(<<<<"status", "go">>, <<"offset", k>>>>),
              server'.at = "data" /\ server'.of = server.of /\ server'.cmd = server.cmd
       PROVE  InTurn'
  <2>1. /\ Len(down') = 2 /\ down' # <<>> /\ down'[1].t = "status" /\ down'[1].v = "go"
        /\ \A i \in DOMAIN down' : down'[i].of = n
    <3> HIDE DEF Item
    <3> QED  BY <1>4, <1>8, <1>11, TwoWords
  <2>2. Counts'
    BY <1>2, <1>5, <2>1 DEF Counts
  <2> QED  BY <1>2, <1>4, <1>5, <1>6, <1>11, <2>1, <2>2, TellsInTurn
<1>12. ASSUME NEW k \in Size, Awaits("cmd"),
              Answers(<<<<"status", "go">>, <<"offset", k>>, <<"status", "error">>>>)
       PROVE  InTurn'
  <2>1. PICK x \in DownItem : x = Item("status", "go", server.of)
    BY <1>8
  <2>2. PICK y \in DownItem : y = Item("offset", k, server.of)
    BY <1>8
  <2>3. PICK z \in DownItem : z = Item("status", "error", server.of)
    BY <1>8
  <2>4. /\ Len(down') = Len(down) + 3 /\ DOMAIN down' = 1..(Len(down) + 3)
        /\ down'[Len(down) + 1] = x /\ down'[Len(down) + 2] = y /\ down'[Len(down) + 3] = z
    <3> HIDE DEF Item
    <3> QED  BY <1>12, <2>1, <2>2, <2>3, AnswersThree DEF Adds
  <2>5. Len(down) = 0 /\ x.t = "status" /\ x.v = "go" /\ x.of = n /\ y.of = n /\ z.of = n
    BY <1>4, <2>1, <2>2, <2>3 DEF Item
  <2>6. Len(down') = 3 /\ DOMAIN down' = {1, 2, 3} /\ down'[1] = x /\ down'[2] = y /\ down'[3] = z
    BY <2>4, <2>5
  <2>7. Counts'
    BY <1>2, <1>5, <1>7, <1>12, <2>5, <2>6 DEF Counts
  <2> QED  BY <1>2, <1>4, <1>5, <1>6, <1>7, <1>12, <2>5, <2>6, <2>7, TellsInTurn
<1>13. \A k \in 0..Head(up).v : k \in Size
  BY <1>2, BoundsNat DEF Size
<1>14. \/ Answers(<<<<"status", "error">>, <<"text", "failed">>>>) /\ Awaits("cmd")
       \/ Answers(<<<<"status", "seccomp">>>>) /\ Awaits("cmd")
       \/ \E k \in Size :
            \/ /\ Answers(<<<<"status", "go">>, <<"offset", k>>>>)
               /\ server'.at = "data" /\ server'.of = server.of /\ server'.cmd = server.cmd
            \/ /\ Answers(<<<<"status", "go">>, <<"offset", k>>, <<"status", "error">>>>)
               /\ Awaits("cmd")
  BY <1>1, <1>13 DEF AnswerPuts
<1> QED  BY <1>9, <1>10, <1>11, <1>12, <1>14

\* The worker receives a block, or gives up.
LEMMA DataInTurn ==
  ASSUME Types, Types', Orderly, InTurn, open, ReceiveData, client.at \notin {"gone", "lost"}
  PROVE  InTurn'
<1>1. server \in [at : ServerPlaces, cmd : Spoken \cup {"none"}, of : Nat, size : Size,
                  logged : BOOLEAN]
  BY DEF Types
<1>2. /\ server.at = "data" /\ up # <<>> /\ up[1].t = "data" /\ up' = Tail(up) /\ UNCHANGED <<n, client>>
  BY TakesHead DEF ReceiveData
<1>3. Alive
  BY TakerAlive DEF ReceiveData
<1>4. InCommand /\ server.of = n /\ server.cmd = client.cmd /\ down = <<>>
  BY <1>2, <1>3, BusyInTurn
<1>5. client.at = "final"
  BY <1>2, <1>3, <1>4 DEF InTurn, Once
<1>6. CASE server' = [server EXCEPT !.size = @ - 1] /\ UNCHANGED <<down, occurred>>
  <2>1. server'.of = n /\ server'.cmd = client.cmd
    BY <1>1, <1>4, <1>6
  <2>2. \A j \in DOMAIN up' : up'[j].t # "cmd"
    BY <1>2, <1>3, <1>4, TakesOn
  <2> QED  BY <1>2, <1>4, <1>5, <1>6, <2>1, <2>2, HearsInTurn
<1>7. CASE Answers(<<<<"text", "interrupted">>>>) /\ Awaits("cmd")
  <2>1. Len(down') = 1 /\ \A i \in DOMAIN down' : down'[i].of = n
    BY <1>4, <1>7, OneWord DEF Sentences
  <2>2. server'.at = "cmd" /\ server'.of = n /\ server'.cmd = client.cmd
    BY <1>1, <1>4, <1>7 DEF Awaits
  <2>3. Alive' => up' = <<>>
    BY <1>2, <1>3, <1>4, <2>2, OneLeft DEF Alive, Garbage
  <2>4. Counts'
    BY <1>2, <1>5, <2>1 DEF Counts
  <2> QED  BY <1>2, <1>4, <1>5, <2>1, <2>2, <2>3, <2>4, TellsInTurn
<1> QED  BY <1>6, <1>7 DEF ReceiveData

\* The worker has the whole file.
LEMMA FinishInTurn ==
  ASSUME Types, Types', Orderly, Answered, InTurn, open, FinishPuts, client.at \notin {"gone", "lost"}
  PROVE  InTurn'
<1>1. /\ server \in [at : ServerPlaces, cmd : Spoken \cup {"none"}, of : Nat, size : Size,
                     logged : BOOLEAN]
      /\ down \in Seq(DownItem) /\ Len(down) \in Nat /\ DOMAIN down = 1..Len(down)
  BY DEF Types
<1>2. /\ server.at = "data" /\ server.size = 0 /\ UNCHANGED <<up, n, client>> /\ Awaits("cmd")
      /\ Answers(<<<<"text", "success">>>>)
  BY DEF FinishPuts
<1>3. Alive
  BY <1>2, WorkerAlive DEF ServerStep, ServerLost, ServerEndOfFile, FinishPuts, Alive, Garbage, Mismatched
<1>4. InCommand /\ server.of = n /\ server.cmd = client.cmd
  BY <1>2, <1>3, BusyInTurn
<1>5. up = <<>>
  BY <1>2, <1>3, <1>4, Finished
<1>6. server'.at = "cmd" /\ server'.of = n /\ server'.cmd = client.cmd
  BY <1>1, <1>2, <1>4 DEF Awaits
<1>7. PICK x \in DownItem : x = Item("text", "success", server.of)
  BY Sayings DEF Sentences
<1>8. /\ Len(down') = Len(down) + 1 /\ DOMAIN down' = 1..(Len(down) + 1)
      /\ \A i \in 1..Len(down) : down'[i] = down[i]
      /\ down'[Len(down) + 1] = x
  BY <1>2, <1>7, Said DEF Adds, Sentences
<1>9. x.of = n
  BY <1>4, <1>7 DEF Item
<1>10. \A i \in DOMAIN down' : down'[i].of = n
  <2>1. \A i \in DOMAIN down : down[i].of = n
    BY <1>4 DEF InTurn, Current
  <2>2. \A i \in DOMAIN down' : i \in 1..Len(down) \/ i = Len(down) + 1
    BY <1>1, <1>8
  <2> QED  BY <1>1, <1>8, <1>9, <2>1, <2>2
<1>11. client.at = "final" \/ (client.at \in {"status", "offset"} /\ down # <<>>)
  BY <1>2, <1>3, <1>4 DEF InTurn, Once
<1>12. Counts'
  <2>1. CASE client.at = "final"
    <3>1. down = <<>>
      BY <1>2, <1>3, <1>4, <2>1 DEF InTurn, Once
    <3>2. Len(down') = 1
      <4>1. Len(down) = 0
        BY <3>1
      <4> QED  BY <1>8, <4>1
    <3> QED  BY <1>2, <2>1, <3>2 DEF Counts
  <2>2. CASE client.at = "status"
    <3>1. /\ down # <<>> /\ down[1].t = "status"
          /\ down[1].v = "go" => Len(down) = 2
      BY <1>2, <1>3, <1>11, <2>2 DEF InTurn, Counts
    <3>2. down[1].v = "go"
      BY <1>2, <1>3, <2>2, <3>1 DEF Answered, StatusOfPuts, Hopeful, Soft
    <3>3. Len(down') = 3 /\ down'[1] = down[1]
      <4>1. 1 \in 1..Len(down) /\ Len(down) = 2
        BY <3>1, <3>2
      <4> QED  BY <1>8, <4>1
    <3> QED  BY <1>2, <1>6, <2>2, <3>1, <3>2, <3>3 DEF Counts
  <2>3. CASE client.at = "offset"
    <3>1. Len(down) = 1
      BY <1>2, <1>3, <2>3 DEF InTurn, Counts
    <3>2. Len(down') = 2
      BY <1>8, <3>1
    <3> QED  BY <1>2, <1>6, <2>3, <3>2 DEF Counts
  <2> QED  BY <1>11, <2>1, <2>2, <2>3
<1> QED  BY <1>2, <1>4, <1>5, <1>6, <1>10, <1>11, <1>12, TellsInTurn

\* The worker answers gets.
LEMMA GetsInTurn ==
  ASSUME Types, Types', Orderly, InTurn, open, AnswerGets, client.at \notin {"gone", "lost"}
  PROVE  InTurn'
<1>1. /\ server \in [at : ServerPlaces, cmd : Spoken \cup {"none"}, of : Nat, size : Size,
                     logged : BOOLEAN]
      /\ server.at = "run" /\ server.cmd = "gets" /\ UNCHANGED <<up, n, client>>
  BY DEF Types, AnswerGets, Runs
<1>2. Alive
  BY <1>1 DEF Alive, Garbage, Mismatched, Identifying
<1>3. InCommand /\ server.of = n /\ server.cmd = client.cmd /\ down = <<>>
  BY <1>1, <1>2, BusyInTurn
<1>4. up = <<>> /\ client.at = "getstatus"
  BY <1>1, <1>2 DEF Orderly, Asking
<1>5. /\ \A k \in 1..MaxSize : Item("meta", k, server.of) \in DownItem
      /\ \A v \in {"notfound", "ok"} : Item("status", v, server.of) \in DownItem
      /\ Item("text", "failed", server.of) \in DownItem
  BY Sayings DEF Sentences
<1>6. CASE Answers(<<<<"status", "notfound">>, <<"text", "failed">>>>) /\ Awaits("cmd")
  <2>1. /\ Len(down') = 2 /\ down'[1].t = "status" /\ \A i \in DOMAIN down' : down'[i].of = n
    <3> HIDE DEF Item
    <3> QED  BY <1>3, <1>5, <1>6, TwoWords
  <2>2. Counts'
    BY <1>1, <1>4, <2>1 DEF Counts
  <2>3. server'.at = "cmd" /\ server'.of = n /\ server'.cmd = client.cmd
    BY <1>1, <1>3, <1>6 DEF Awaits
  <2> QED  BY <1>1, <1>3, <1>4, <2>1, <2>2, <2>3, TellsInTurn
<1>7. CASE Answers(<<<<"status", "notfound">>>>) /\ Awaits("cmd")
  <2>1. PICK x \in DownItem : x = Item("status", "notfound", server.of)
    BY <1>5
  <2>2. /\ Len(down') = Len(down) + 1 /\ DOMAIN down' = 1..(Len(down) + 1)
        /\ down'[Len(down) + 1] = x
    <3> HIDE DEF Item
    <3> QED  BY <1>7, <2>1, AnswersOne DEF Adds
  <2>3. Len(down) = 0 /\ x.t = "status" /\ x.of = n
    BY <1>3, <2>1 DEF Item
  <2>4. Len(down') = 1 /\ DOMAIN down' = {1} /\ down'[1] = x
    BY <2>2, <2>3
  <2>5. Counts'
    BY <1>1, <1>4, <2>3, <2>4 DEF Counts
  <2>6. server'.at = "cmd" /\ server'.of = n /\ server'.cmd = client.cmd
    BY <1>1, <1>3, <1>7 DEF Awaits
  <2> QED  BY <1>1, <1>3, <1>4, <2>3, <2>4, <2>5, <2>6, TellsInTurn
<1>8. ASSUME NEW k \in 1..MaxSize, Answers(<<<<"status", "ok">>, <<"meta", k>>>>),
             server' = [server EXCEPT !.at = "offset", !.size = k]
      PROVE  InTurn'
  <2>1. /\ Len(down') = 2 /\ down'[1].t = "status" /\ \A i \in DOMAIN down' : down'[i].of = n
    <3> HIDE DEF Item
    <3> QED  BY <1>3, <1>5, <1>8, TwoWords
  <2>2. Counts'
    BY <1>1, <1>4, <2>1 DEF Counts
  <2>3. server'.at = "offset" /\ server'.of = n /\ server'.cmd = client.cmd
    BY <1>1, <1>3, <1>8
  <2> QED  BY <1>1, <1>3, <1>4, <2>1, <2>2, <2>3, TellsInTurn
<1> QED  BY <1>6, <1>7, <1>8 DEF AnswerGets

\* The worker sends the content, as much as the client has asked for.
LEMMA ContentInTurn ==
  ASSUME Types, Types', Orderly, Fetching, InTurn, open, Whole', SendContent,
         client.at \notin {"gone", "lost"}
  PROVE  InTurn'
<1>1. /\ server \in [at : ServerPlaces, cmd : Spoken \cup {"none"}, of : Nat, size : Size,
                     logged : BOOLEAN]
      /\ client.size \in Nat /\ server.size \in Nat /\ (client.at = "data" => client.size > 0)
  BY BoundsNat DEF Types, Size
<1>2. /\ server.at = "offset" /\ up # <<>> /\ up[1].t = "offset" /\ up' = Tail(up) /\ UNCHANGED <<n, client>>
      /\ Head(up) = up[1] /\ up[1].v \in Size /\ Awaits("cmd")
  BY TakesHead, HeadOfUp DEF SendContent
<1>3. Alive
  BY TakerAlive DEF SendContent
<1>4. InCommand /\ server.of = n /\ server.cmd = client.cmd /\ down = <<>>
  BY <1>2, <1>3, BusyInTurn
<1>5. /\ client.at \in {"data", "final"}
      /\ up[1].v = server.size - (IF client.at = "data" THEN client.size ELSE 0)
  BY <1>2, <1>3 DEF Fetching
<1>6. up' = <<>>
  BY <1>2, <1>3, <1>4, OneLeft
<1>7. server'.at = "cmd" /\ server'.of = n /\ server'.cmd = client.cmd
  BY <1>1, <1>2, <1>4 DEF Awaits
<1>8. PICK left \in Int : left = server.size - up[1].v
  BY <1>1, <1>2, BoundsNat DEF Size
<1>9. left = IF client.at = "data" THEN client.size ELSE 0
  <2>1. PICK w \in Int : w = IF client.at = "data" THEN client.size ELSE 0
    BY <1>1
  <2>2. up[1].v = server.size - w
    BY <1>5, <2>1
  <2>3. left = w
    BY <1>1, <1>8, <2>1, <2>2
  <2> QED  BY <2>1, <2>3
<1>10. ASSUME NEW v \in Sentences, Answers(<<<<"text", v>>>>), client.at = "final" \/ "missing" \in occurred'
       PROVE  InTurn'
  <2>1. Len(down') = 1 /\ \A i \in DOMAIN down' : down'[i].of = n
    BY <1>4, <1>10, OneWord
  <2>2. client.at = "data" => 1 <= client.size
    BY <1>1
  <2>3. Counts'
    BY <1>2, <1>5, <1>10, <2>1, <2>2 DEF Counts
  <2> QED  BY <1>2, <1>4, <1>5, <1>6, <1>7, <2>1, <2>3, TellsInTurn
<1>11. ASSUME NEW k \in Nat, client.at = "data", k <= client.size, Answers([i \in 1..k |-> <<"data", 1>>])
       PROVE  InTurn'
  <2>1. PICK x : x = Item("data", 1, server.of)
    OBVIOUS
  <2>2. /\ Len(down') = Len(down) + k /\ DOMAIN down' = 1..(Len(down) + k)
        /\ \A i \in 1..k : down'[Len(down) + i] = x
    <3> HIDE DEF Item
    <3> QED  BY <1>11, <2>1, AnswersBlocks DEF Adds
  <2>3. x.t = "data" /\ x.of = n
    BY <1>4, <2>1 DEF Item
  <2>4. Len(down) = 0
    BY <1>4
  <2>5. Len(down') = k /\ \A i \in DOMAIN down' : down'[i] = x
    BY <2>2, <2>4
  <2>6. Counts'
    BY <1>2, <1>11, <2>3, <2>5 DEF Counts
  <2> QED  BY <1>2, <1>4, <1>5, <1>6, <1>7, <2>3, <2>5, <2>6, TellsInTurn
<1>12. /\ left <= 0 => Answers(<<<<"text", "complete">>>>)
       /\ ~ (left <= 0) =>
            \/ Answers([i \in 1..left |-> <<"data", 1>>])
            \/ /\ "missing" \in occurred'
               /\ \E k \in 0..left : k < left /\ Answers([i \in 1..k |-> <<"data", 1>>])
            \/ "missing" \in occurred' /\ Answers(<<<<"text", "missing">>>>)
  <2>1. "longer" \notin occurred'
    BY DEF Whole
  <2> QED  BY <1>2, <1>8, <2>1 DEF SendContent, Faults
<1>13. {"complete", "missing"} \subseteq Sentences
  BY DEF Sentences
<1>14. left <= 0 => client.at = "final"
  BY <1>1, <1>5, <1>9
<1>15. ~ (left <= 0) => client.at = "data" /\ left = client.size /\ left \in Nat
  BY <1>1, <1>5, <1>9
<1>16. CASE left <= 0
  BY <1>10, <1>12, <1>13, <1>14, <1>16
<1>17. CASE ~ (left <= 0)
  <2>1. CASE Answers([i \in 1..left |-> <<"data", 1>>])
    <3>1. left <= client.size
      BY <1>1, <1>15, <1>17
    <3> QED  BY <1>11, <1>15, <1>17, <2>1, <3>1
  <2>2. ASSUME NEW k \in 0..left, Answers([i \in 1..k |-> <<"data", 1>>])  PROVE InTurn'
    <3>1. k \in Nat /\ k <= client.size
      BY <1>1, <1>15, <1>17
    <3> QED  BY <1>11, <1>15, <1>17, <2>2, <3>1
  <2> QED  BY <1>10, <1>12, <1>13, <1>17, <2>1, <2>2
<1> QED  BY <1>16, <1>17

\* What the worker does.
LEMMA WorkerInTurn ==
  ASSUME Types, Types', Welcome, Entering, Orderly, Answered, Fetching, Duty, InTurn, open,
         "expiry" \notin occurred, occurred \subseteq occurred', Whole', ServerStep
  PROVE  InTurn'
<1>1. CASE client.at \in {"gone", "lost"}
  <2>1. client' = client
    BY DEF ServerStep, ReceiveCommand, ReceiveName, HandleUser, List, Pwd, Cd, Change, AnswerPuts,
           ReceiveData, FinishPuts, AnswerGets, SendContent, ServerLost, ServerEndOfFile
  <2> QED  BY <1>1, <2>1, AwayInTurn
<1>2. CASE ServerLost \/ ServerEndOfFile
  <2>1. UNCHANGED <<down, n, client, occurred>> /\ server'.at \in {"lost", "closed"}
    BY <1>2 DEF ServerLost, ServerEndOfFile, Awaits, Types
  <2> QED  BY <2>1, DeafInTurn DEF Alive
<1> QED  BY <1>1, <1>2, ReadingInTurn, SayingInTurn, PutsInTurn, DataInTurn, FinishInTurn, GetsInTurn,
            ContentInTurn DEF ServerStep

LEMMA TurnsAlways ==
  Spec => [](Types /\ Welcome /\ Entering /\ Notices /\ Trailed /\ Talk /\ Duty /\ Turns)
<1>1. Init => Turns
  <2> SUFFICES ASSUME Init  PROVE InTurn
    BY DEF Turns
  <2>1. /\ up = <<>> /\ down = <<>> /\ DOMAIN <<>> = {} /\ client.at = "prompt" /\ server.at = "cmd"
    BY DEF Init
  <2> QED  BY <2>1 DEF InTurn, Idle, Current, Once, Follows, Counts, Strays, InCommand
<1>2. ASSUME Types, Types', Welcome, Entering, Notices, Trailed, Talk, Duty, Turns, [Next]_vars
      PROVE  Turns'
  <2> SUFFICES ASSUME Whole'  PROVE InTurn'
    BY DEF Turns
  <2>1. occurred \subseteq occurred'
    BY <1>2, OccurredGrows
  <2>2. Whole
    BY <2>1 DEF Whole
  <2>3. InTurn /\ open /\ Orderly /\ Answered /\ Fetching /\ "expiry" \notin occurred
    BY <1>2, <2>2, WholeKnows DEF Turns
  <2>4. CASE UNCHANGED vars
    BY <2>3, <2>4 DEF vars, InTurn, Idle, Current, Once, Follows, Counts, Strays, InCommand, Alive,
                      Garbage, Mismatched, Behind, IsPing, Text
  <2>5. CASE ClientStep
    BY <1>2, <2>3, <2>5, PromptInTurn, InsideInTurn DEF ClientStep
  <2>6. CASE ServerStep
    BY <1>2, <2>1, <2>3, <2>6, WorkerInTurn
  <2>7. ~ Expire
    BY DEF Expire, Faults, Whole
  <2> QED  BY <1>2, <2>4, <2>5, <2>6, <2>7 DEF Next
<1> QED  BY <1>1, <1>2, EnteringAlways, DutyAlways, PTL DEF Spec

\* Protocol.tla, InStep (worker.c:41-56, cmd_set.c:40-42, 209 and 333,
\* client/cmd_set.c:85-93): neither side takes one thing for another unless a
\* file could not be read or written, or something was cut short.
THEOREM InStepAlways == Spec => []InStep
<1>1. Types /\ Welcome /\ Talk /\ Duty /\ Turns /\ Ends => InStep
  <2> SUFFICES ASSUME Types, Welcome, Talk, Duty, Turns, Ends  PROVE InStep
    OBVIOUS
  <2>1. server.at = "lost" => occurred \cap {"local", "open", "write", "input"} # {}
    <3> SUFFICES ASSUME server.at = "lost", occurred \cap {"local", "input"} = {}
                 PROVE  occurred \cap {"local", "open", "write", "input"} # {}
      OBVIOUS
    <3>1. occurred \cap {"open", "write"} # {}
      BY DEF Talk, Streams, Blocked
    <3> QED  BY <3>1
  <2>2. client.at = "lost" => occurred \cap {"local", "missing", "longer", "split", "expiry"} # {}
    <3>1. Whole /\ client.at = "lost" => "missing" \in occurred
      BY DEF Turns, InTurn, Strays
    <3>2. client.at = "lost" => "input" \notin occurred
      BY DEF Ends
    <3> QED  BY <3>1, <3>2 DEF Whole
  <2> QED  BY <2>1, <2>2 DEF InStep
<1> QED  BY <1>1, TurnsAlways, EndsAlways, PTL

\* Protocol.tla, RepliesMatch (client/main.c:158 and 173): what a command takes
\* from the stream is its own answer, unless an earlier one gave up or left some.
THEOREM RepliesMatchAlways == Spec => RepliesMatch
<1>1. ASSUME Types, Types', Welcome, Turns, Ends, [Next]_vars
      PROVE  [ (InCommand /\ Len(down') < Len(down)) =>
                 Head(down).of = n \/ occurred' \cap {"local", "longer", "split", "expiry"} # {} ]_vars
  <2> SUFFICES ASSUME InCommand, Len(down') < Len(down),
                      occurred' \cap {"local", "longer", "split", "expiry"} = {}
               PROVE  Head(down).of = n
    OBVIOUS
  <2>0. Whole'
    <3>1. down' # down
      <4>1. Len(down) \in Nat
        BY <1>1 DEF Types
      <4> QED  BY <4>1
    <3>2. ~ Quit
      BY <3>1 DEF Quit
    <3>3. "input" \notin occurred'
      BY <1>1, <3>2, OnlyQuit DEF Ends, InCommand
    <3> QED  BY <3>3 DEF Whole
  <2>1. occurred \subseteq occurred'
    BY <1>1, OccurredGrows
  <2>2. InTurn
    BY <1>1, <2>0, <2>1 DEF Turns, Whole
  <2>3. down # <<>>
    <3>1. down' \in Seq(DownItem) /\ down \in Seq(DownItem)
      BY <1>1 DEF Types
    <3>2. Len(down') >= 0 /\ Len(down') \in Nat /\ Len(down) \in Nat
      BY <3>1
    <3>3. Len(down) # 0
      BY <3>2
    <3> QED  BY <3>3
  <2> QED  BY <1>1, <2>2, <2>3, HeadOfDown DEF InTurn, Current
<1> QED  BY <1>1, TurnsAlways, EndsAlways, PTL DEF Spec, RepliesMatch
=============================================================================
