-------------------------- MODULE RoomMessagesProofs --------------------------
(***************************************************************************)
(* Theorems about RoomMessages: a message that is sent again is one row,   *)
(* what is recalled loses its notifications, the bot takes up what it is   *)
(* asked, pages leave nothing out and what was read stays read, for every  *)
(* number of users, messages, requests and restarts.                       *)
(***************************************************************************)
EXTENDS RoomMessages, FiniteSetTheorems, SequenceTheorems, TLAPS

-----------------------------------------------------------------------------
(* The inductive invariant *)

HandlerSteps == {"idle", "insert", "announce", "mention", "observe", "answer", "ensure", "advance",
                 "ask", "wipe", "withdraw", "settle"}
BotSteps == {"idle", "reply", "think", "post", "mention", "rest"}

CallType ==
    [step : HandlerSteps \cup BotSteps, op : {"none", "send", "bot", "read", "recall", "review", "force"},
     user : Users \cup {Bot, None}, client : Clients \cup {None}, id : Ids \cup {None},
     at : 0..MaxClock, to : Audiences \cup Users \cup {"nobody"}, found : SUBSET Users,
     verdict : {"none", "approved", "rejected"}]

MessagesOK ==
    /\ now \in 1..MaxClock
    /\ DOMAIN messages \subseteq Ids /\ IsFiniteSet(DOMAIN messages)
    /\ messages \in [DOMAIN messages -> Message]

TablesOK ==
    /\ cursor \in [Users -> DOMAIN messages \cup {None}]
    /\ level \in [Users -> {"all", "muted", "blocked"}]
    /\ policy \in {"disabled", "admin_approval", "time_limited"}
    /\ DOMAIN requests \subseteq (DOMAIN messages) \X Users
    /\ requests \in [DOMAIN requests -> {"pending", "approved", "rejected"}]
    /\ hidden \cup overtaken \subseteq DOMAIN messages
    /\ notes \in [Ids -> [Users -> Nat]] /\ pushed \in [Ids -> [Users -> Nat]]
    /\ queue \in Seq(DOMAIN messages) /\ Len(queue) <= QueueSize
    /\ restarts \in 0..MaxRestarts

\* A client is answered with its own message, and it has only one of each id.
AnswersOK ==
    /\ DOMAIN answers \subseteq Users \X Clients
    /\ \A k \in DOMAIN answers : answers[k] \in Existing(k[1], k[2])
    /\ told \subseteq Users \X Clients \X (DOMAIN messages)
    /\ \A t \in told : t[3] \in Existing(t[1], t[2])
UniqueOK ==
    \A u \in Users, c \in Clients : \A m, n \in Existing(u, c) : m = n

\* What the request c of a handler works on is there, and is its own.
Fits(c) ==
    /\ c.step \in HandlerSteps
    /\ c.step = "idle" => c = Idle
    /\ c.step \in {"insert", "announce", "mention", "observe", "answer"} =>
          c.user \in Users /\ c.client \in Clients
    /\ c.step \in {"announce", "mention", "observe", "answer"} => c.id \in Existing(c.user, c.client)
    /\ c.step \in {"ensure", "advance", "ask", "wipe", "withdraw"} => c.id \in DOMAIN messages
    /\ c.step \in {"ensure", "advance", "ask"} => c.user \in Users
    /\ c.step = "advance" => cursor[c.user] # None
    /\ c.step = "settle" \/ c.op = "review" => c.verdict \in {"approved", "rejected"}
CallsOK ==
    /\ call \in [Workers -> CallType]
    /\ \A h \in Workers : call[h].id \in DOMAIN messages \cup {None}
    /\ \A h \in Handlers : Fits(call[h])

\* The bot's reply is a call of its own, to a message of a user or to none.
BotOK ==
    /\ bot \in [since : Nat, threshold : MinGap..MaxGap, busy : BOOLEAN,
                pending : DOMAIN messages \cup {None}]
    /\ bot.pending # None => messages[bot.pending].sender \in Users
    /\ call[Bot].step \in BotSteps
    /\ call[Bot] = Idle \/ (call[Bot].step # "idle" /\ call[Bot].user = Bot /\ call[Bot].client = None)
    /\ call[Bot].step = "reply" /\ call[Bot].id # None =>
          call[Bot].id \in DOMAIN messages /\ messages[call[Bot].id].sender \in Users
    /\ call[Bot].step = "mention" => call[Bot].id \in DOMAIN messages
    /\ BotTakesUpMentions

\* Who has still to mention or to push a message is the only one who will, and
\* nobody was told of the message before.
Telling(h) == call[h].step \in {"announce", "mention"}
Unpushed(m) == \A u \in Users : pushed[m][u] = 0
OnceOK ==
    /\ \A m \in Ids, u \in Users : /\ notes[m][u] <= 1 /\ pushed[m][u] <= 1
                                   /\ m \notin DOMAIN messages => notes[m][u] = 0 /\ pushed[m][u] = 0
    /\ \A h \in Workers : Telling(h) => \A u \in Users : notes[call[h].id][u] = 0
    /\ \A g, h \in Workers : Telling(g) /\ Telling(h) /\ g # h => call[g].id # call[h].id
    /\ \A h \in Workers : call[h].step = "announce" =>
          /\ \A u \in Users : pushed[call[h].id][u] = 0
          /\ \A i \in DOMAIN queue : queue[i] # call[h].id
    /\ \A i \in DOMAIN queue :
          /\ \A u \in Users : pushed[queue[i]][u] = 0
          /\ \A j \in DOMAIN queue : queue[j] = queue[i] => j = i

\* Who mentions a message that is wiped was overtaken by the wipe.
MentionsOK ==
    /\ MentionsAreWithdrawn
    /\ \A h \in Workers : Telling(h) /\ messages[call[h].id].wiped => call[h].id \in overtaken

ReaderType ==
    [step : {"idle", "page", "more", "scan", "done"}, kind : {"list", "history", "files"},
     before : DOMAIN messages \cup {None}, scan : DOMAIN messages \cup {None},
     start : SUBSET DOMAIN messages, got : SUBSET DOMAIN messages, found : SUBSET DOMAIN messages]
ReaderOK == reader \in ReaderType

\* What the client has still to be given is behind the message it pages from,
\* and during a scan behind the message the scan has come to.
Behind(m, c) == c = None \/ Before(m, c)
Paged(r) ==
    /\ r.start \subseteq Visible
    /\ r.step = "idle" => r.before = None
    /\ r.step = "more" => r.before # None
    /\ r.step \in {"page", "more", "scan"} =>
          \A m \in r.start \cap Shown(r.kind) : Behind(m, r.before) \/ m \in r.got
    /\ r.step = "scan" =>
          /\ r.kind # "list"
          /\ \A m \in r.start \cap Shown(r.kind) : Behind(m, r.scan) \/ m \in r.got \cup r.found
          /\ \A m \in r.found : ~ Behind(m, r.scan)
    /\ r.step = "done" => r.start \cap Shown(r.kind) \subseteq r.got
PagingOK == Paged(reader)

Core == MessagesOK /\ TablesOK /\ AnswersOK /\ UniqueOK /\ CallsOK /\ BotOK /\ OnceOK /\ MentionsOK
IInv == Core /\ ReaderOK /\ PagingOK

-----------------------------------------------------------------------------
(* Steps that leave messages what they are *)

\* Messages come and are wiped; nothing else about them changes, none goes, a
\* cursor that is set stays set, and what is hidden stays hidden.
Grows ==
    /\ DOMAIN messages \subseteq DOMAIN messages'
    /\ \A m \in DOMAIN messages :
          /\ messages'[m].sender = messages[m].sender
          /\ messages'[m].client = messages[m].client
          /\ messages'[m].at = messages[m].at
          /\ messages'[m].kind = messages[m].kind
          /\ messages[m].wiped => messages'[m].wiped
          /\ messages'[m].wiped \/ messages'[m].to = messages[m].to
    /\ \A u \in Users : cursor[u] # None => cursor'[u] # None
    /\ hidden \subseteq hidden'

LEMMA Still ==
    ASSUME UNCHANGED <<messages, cursor, hidden>>
    PROVE  Grows
  BY DEF Grows

LEMMA ExistingKept ==
    ASSUME Grows, NEW u, NEW c
    PROVE  Existing(u, c) \subseteq Existing(u, c)'
  BY DEF Grows, Existing

LEMMA MessageKept ==
    ASSUME MessagesOK, Grows, NEW m \in DOMAIN messages
    PROVE  /\ m \in DOMAIN messages' /\ m \in Nat
           /\ messages'[m].sender = messages[m].sender /\ messages'[m].at = messages[m].at
           /\ messages[m].at \in Nat /\ messages[m].sender \in Users \cup {Bot}
           /\ messages[m].client \in Clients \cup {None}
<1>1. messages[m] \in Message
  BY DEF MessagesOK
<1> QED BY <1>1, MessagesAssumption DEF Grows, MessagesOK, Message, Ids

LEMMA BeforeKept ==
    ASSUME MessagesOK, Grows, NEW m \in DOMAIN messages, NEW n \in DOMAIN messages
    PROVE  Before(m, n)' = Before(m, n)
  BY MessageKept DEF Before

LEMMA VisibleKept ==
    ASSUME MessagesOK, Grows
    PROVE  Visible \subseteq Visible'
  BY MessageKept DEF Visible, Grows

LEMMA IdleOK ==
    /\ Idle \in CallType /\ Idle.step = "idle" /\ Idle.id = None /\ Idle.op = "none"
    /\ Fits(Idle) /\ Fits(Idle)'
  BY MessagesAssumption DEF Idle, CallType, Fits, HandlerSteps

LEMMA FitsKept ==
    ASSUME Grows, NEW c, Fits(c)
    PROVE  Fits(c)'
<1>1. Existing(c.user, c.client) \subseteq Existing(c.user, c.client)'
  BY ExistingKept
<1>2. DOMAIN messages \subseteq DOMAIN messages'
  BY DEF Grows
<1>3. c.user \in Users /\ cursor[c.user] # None => cursor'[c.user] # None
  BY DEF Grows
<1> QED BY <1>1, <1>2, <1>3 DEF Fits

\* A request goes on, or begins, or ends.
LEMMA CallsMove ==
    ASSUME CallsOK, Grows, NEW h \in Handlers, NEW c \in CallType, Fits(c),
           c.id \in DOMAIN messages \cup {None}, call' = [call EXCEPT ![h] = c]
    PROVE  CallsOK'
<1>1. h \in Workers /\ Handlers \subseteq Workers
  BY DEF Workers
<1>2. /\ call' \in [Workers -> CallType]
      /\ call'[h] = c /\ \A g \in Workers \ {h} : call'[g] = call[g]
  BY <1>1 DEF CallsOK
<1>3. \A g \in Workers : call'[g].id \in DOMAIN messages' \cup {None}
  BY <1>2 DEF CallsOK, Grows
<1>4. \A g \in Handlers : Fits(call[g])'
  <2> SUFFICES ASSUME NEW g \in Handlers PROVE Fits(call[g])'
    OBVIOUS
  <2>1. CASE g = h
    <3>1. Fits(c)'
      BY FitsKept
    <3> QED BY <3>1, <2>1, <1>2 DEF Fits
  <2>2. CASE g # h
    <3>1. PICK d : d = call[g]
      OBVIOUS
    <3>2. Fits(d)
      BY <3>1 DEF CallsOK
    <3>3. Fits(d)'
      BY <3>2, FitsKept
    <3>4. call'[g] = d
      BY <2>2, <3>1, <1>1, <1>2
    <3> QED BY <3>3, <3>4 DEF Fits
  <2> QED BY <2>1, <2>2
<1> QED BY <1>2, <1>3, <1>4 DEF CallsOK

LEMMA CallsKept ==
    ASSUME CallsOK, Grows, UNCHANGED call
    PROVE  CallsOK'
<1>1. \A g \in Handlers : Fits(call[g])'
  <2> SUFFICES ASSUME NEW g \in Handlers PROVE Fits(call[g])'
    OBVIOUS
  <2>1. PICK d : d = call[g]
    OBVIOUS
  <2>2. Fits(d)
    BY <2>1 DEF CallsOK
  <2>3. Fits(d)'
    BY <2>2, FitsKept
  <2> QED BY <2>1, <2>3 DEF Fits
<1> QED BY <1>1 DEF CallsOK, Grows

LEMMA AnswersKept ==
    ASSUME AnswersOK, Grows, UNCHANGED <<answers, told>>
    PROVE  AnswersOK'
<1>1. \A k \in DOMAIN answers : answers[k] \in Existing(k[1], k[2])'
  BY ExistingKept DEF AnswersOK
<1>2. \A t \in told : t[3] \in Existing(t[1], t[2])'
  BY ExistingKept DEF AnswersOK
<1>3. told \subseteq Users \X Clients \X (DOMAIN messages')
  BY DEF AnswersOK, Grows
<1> QED BY <1>1, <1>2, <1>3 DEF AnswersOK

LEMMA UniqueKept ==
    ASSUME UniqueOK, Grows, DOMAIN messages' = DOMAIN messages
    PROVE  UniqueOK'
  BY DEF UniqueOK, Grows, Existing

LEMMA BotKept ==
    ASSUME BotOK, Grows, UNCHANGED <<bot, call[Bot]>>
    PROVE  BotOK'
<1>1. bot \in [since : Nat, threshold : MinGap..MaxGap, busy : BOOLEAN,
              pending : DOMAIN messages' \cup {None}]
  BY DEF BotOK, Grows
<1>2. bot.pending # None => messages'[bot.pending].sender \in Users
  BY DEF BotOK, Grows
<1>3. call[Bot].step = "reply" /\ call[Bot].id # None =>
        call[Bot].id \in DOMAIN messages' /\ messages'[call[Bot].id].sender \in Users
  BY DEF BotOK, Grows
<1>4. call[Bot].step = "mention" => call[Bot].id \in DOMAIN messages'
  BY DEF BotOK, Grows
<1>5. call'[Bot] = call[Bot] /\ bot' = bot
  OBVIOUS
<1> QED BY <1>1, <1>2, <1>3, <1>4, <1>5 DEF BotOK, BotTakesUpMentions

LEMMA ReaderKept ==
    ASSUME MessagesOK, ReaderOK, PagingOK, Grows, UNCHANGED reader
    PROVE  ReaderOK' /\ PagingOK'
<1>0. PICK r : r = reader
  OBVIOUS
<1>1. r \in ReaderType /\ Paged(r) /\ reader' = r
  BY <1>0 DEF ReaderOK, PagingOK
<1>2. r \in ReaderType'
  BY <1>1 DEF ReaderType, Grows
<1> DEFINE S == DOMAIN messages
<1>3. r.start \subseteq S /\ r.found \subseteq S /\ {r.before, r.scan} \subseteq S \cup {None}
  BY <1>1 DEF ReaderType
<1>4. r.start \subseteq Visible'
  BY <1>1, VisibleKept DEF Paged
<1>5. r.start \cap Shown(r.kind)' \subseteq r.start \cap Shown(r.kind)
  <2> SUFFICES ASSUME NEW m \in r.start, m \in Shown(r.kind)' PROVE m \in Shown(r.kind)
    OBVIOUS
  <2>1. m \in Visible /\ m \in S
    BY <1>1, <1>3 DEF Paged
  <2>2. IsFile(m)' => IsFile(m)
    BY <2>1 DEF IsFile, Grows
  <2>3. r.kind \in {"list", "history", "files"}
    BY <1>1 DEF ReaderType
  <2> QED BY <2>1, <2>2, <2>3 DEF Shown, Grows
<1>6. \A m \in S, c \in S \cup {None} : Behind(m, c)' = Behind(m, c)
  BY BeforeKept DEF Behind
<1> HIDE DEF S
<1>7. Paged(r)'
  BY <1>1, <1>3, <1>4, <1>5, <1>6 DEF Paged
<1> QED BY <1>1, <1>2, <1>7 DEF ReaderOK, PagingOK

-----------------------------------------------------------------------------
(* The order of messages, and pages of them *)

LEMMA Order ==
    ASSUME MessagesOK
    PROVE  /\ \A m, n \in DOMAIN messages : m # n => Before(m, n) \/ Before(n, m)
           /\ \A m \in DOMAIN messages : ~ Before(m, m)
           /\ \A m, n \in DOMAIN messages : ~ (Before(m, n) /\ Before(n, m))
           /\ \A m, n, o \in DOMAIN messages : Before(m, n) /\ Before(n, o) => Before(m, o)
<1>1. \A m \in DOMAIN messages : m \in Nat /\ messages[m].at \in Nat
  BY MessagesAssumption DEF MessagesOK, Message, Ids
<1> QED BY <1>1 DEF Before

\* A finite set of messages that is not empty has a newest and an oldest one.
LEMMA Ends ==
    ASSUME MessagesOK, NEW S \in SUBSET DOMAIN messages, S # {}
    PROVE  /\ Newest(S) \in S /\ \A n \in S \ {Newest(S)} : Before(n, Newest(S))
           /\ Oldest(S) \in S /\ \A n \in S \ {Oldest(S)} : Before(Oldest(S), n)
<1> DEFINE D == DOMAIN messages
           Above(m) == {o \in S : Before(m, o)}
           Below(m) == {o \in S : Before(o, m)}
           A == {Above(m) : m \in S}
           B == {Below(m) : m \in S}
<1>1. IsFiniteSet(S)
  BY FS_Subset DEF MessagesOK
<1>2. A \subseteq FiniteSubsetsOf(S) /\ B \subseteq FiniteSubsetsOf(S)
  <2>1. \A m \in S : IsFiniteSet(Above(m)) /\ IsFiniteSet(Below(m))
    <3>1. \A m \in S : Above(m) \in SUBSET S /\ Below(m) \in SUBSET S
      OBVIOUS
    <3> HIDE DEF Above, Below
    <3> QED BY <3>1, <1>1, FS_Subset
  <2> QED BY <2>1 DEF FiniteSubsetsOf
<1>3. A # {} /\ B # {}
  OBVIOUS
<1>4. PICK a \in A : \A e \in A : ~ (<<e, a>> \in StrictSubsetOrdering(S))
  BY <1>2, <1>3, FS_StrictSubsetOrderingWellFounded, WFMin
<1>5. PICK b \in B : \A e \in B : ~ (<<e, b>> \in StrictSubsetOrdering(S))
  BY <1>2, <1>3, FS_StrictSubsetOrderingWellFounded, WFMin
<1>6. PICK m \in S : a = Above(m)
  OBVIOUS
<1>7. PICK n \in S : b = Below(n)
  OBVIOUS
<1>8. \A o \in S : ~ Before(m, o)
  <2> SUFFICES ASSUME NEW o \in S, Before(m, o) PROVE FALSE
    OBVIOUS
  <2>1. o \notin Above(o) /\ o \in Above(m) /\ Above(o) \subseteq Above(m)
    BY Order
  <2>2. <<Above(o), Above(m)>> \in StrictSubsetOrdering(S)
    BY <2>1, <1>2 DEF StrictSubsetOrdering, FiniteSubsetsOf
  <2> QED BY <2>2, <1>4, <1>6
<1>9. \A o \in S : ~ Before(o, n)
  <2> SUFFICES ASSUME NEW o \in S, Before(o, n) PROVE FALSE
    OBVIOUS
  <2>1. o \notin Below(o) /\ o \in Below(n) /\ Below(o) \subseteq Below(n)
    BY Order
  <2>2. <<Below(o), Below(n)>> \in StrictSubsetOrdering(S)
    BY <2>1, <1>2 DEF StrictSubsetOrdering, FiniteSubsetsOf
  <2> QED BY <2>2, <1>5, <1>7
<1>10. \A o \in S \ {m} : Before(o, m)
  BY <1>8, Order
<1>11. \A o \in S \ {n} : Before(n, o)
  BY <1>9, Order
<1> HIDE DEF D, A, B, Above, Below
<1>12. Newest(S) \in S /\ \A o \in S \ {Newest(S)} : Before(o, Newest(S))
  BY <1>10 DEF Newest
<1>13. Oldest(S) \in S /\ \A o \in S \ {Oldest(S)} : Before(Oldest(S), o)
  BY <1>11 DEF Oldest
<1> QED BY <1>12, <1>13

\* A page is the newest part of what it is cut from: it has the newest message,
\* and whatever is newer than one of its own.
LEMMA Pages ==
    ASSUME MessagesOK, NEW S \in SUBSET DOMAIN messages, NEW n \in Nat \ {0}
    PROVE  /\ Page(S, n) \subseteq S /\ IsFiniteSet(Page(S, n))
           /\ S # {} => Page(S, n) # {}
           /\ \A m \in Page(S, n), o \in S : Before(m, o) => o \in Page(S, n)
           /\ Cardinality(Page(S, n)) < n => Page(S, n) = S
           /\ Cardinality(S) <= n => Page(S, n) = S
<1> DEFINE After(m) == {o \in S : Before(m, o)}
<1>0. IsFiniteSet(S)
  BY FS_Subset DEF MessagesOK
<1>1. /\ \A m \in S : IsFiniteSet(After(m)) /\ Cardinality(After(m)) \in Nat
      /\ \A m, o \in S : Before(m, o) => Cardinality(After(o)) <= Cardinality(After(m))
  <2>1. \A m \in S : IsFiniteSet(After(m))
    <3>1. \A m \in S : After(m) \in SUBSET S
      OBVIOUS
    <3> HIDE DEF After
    <3> QED BY <3>1, <1>0, FS_Subset
  <2>2. \A m, o \in S : Before(m, o) => After(o) \subseteq After(m)
    BY Order
  <2> HIDE DEF After
  <2> QED BY <2>1, <2>2, FS_Subset, FS_CardinalityType
<1>2. Page(S, n) = {m \in S : Cardinality(After(m)) < n}
  BY DEF Page
<1>3. Page(S, n) \subseteq S /\ IsFiniteSet(Page(S, n))
  <2>1. Page(S, n) \subseteq S
    BY <1>2
  <2> QED BY <2>1, <1>0, FS_Subset
<1>4. ASSUME S # {} PROVE Page(S, n) # {}
  <2>1. Newest(S) \in S /\ After(Newest(S)) = {}
    BY <1>4, Ends, Order
  <2>2. Cardinality(After(Newest(S))) = 0
    BY <2>1, FS_EmptySet
  <2> HIDE DEF After
  <2> QED BY <2>1, <2>2, <1>2
<1>5. ASSUME NEW m \in Page(S, n), NEW o \in S, Before(m, o) PROVE o \in Page(S, n)
  <2> HIDE DEF After
  <2> QED BY <1>1, <1>2, <1>5
<1>6. ASSUME Cardinality(Page(S, n)) < n, Page(S, n) # S PROVE FALSE
  <2> DEFINE T == S \ Page(S, n)
             t == Newest(T)
  <2>1. T \in SUBSET DOMAIN messages /\ T # {}
    BY <1>3, <1>6
  <2> HIDE DEF T
  <2>2. t \in T /\ \A o \in T \ {t} : Before(o, t)
    BY <2>1, Ends
  <2>3. t \in S /\ t \notin Page(S, n)
    BY <2>2 DEF T
  <2>4. After(t) \subseteq Page(S, n)
    <3> SUFFICES ASSUME NEW o \in S, Before(t, o), o \notin Page(S, n) PROVE FALSE
      OBVIOUS
    <3>1. o \in T /\ o # t
      BY <2>3, Order DEF T
    <3> QED BY <3>1, <2>2, <2>3, Order
  <2> HIDE DEF After, t
  <2>5. Cardinality(After(t)) <= Cardinality(Page(S, n))
    BY <2>4, <1>3, FS_Subset
  <2>6. Cardinality(Page(S, n)) \in Nat
    BY <1>3, FS_CardinalityType
  <2> QED BY <2>3, <2>5, <2>6, <1>1, <1>2, <1>6
<1>7. ASSUME Cardinality(S) <= n, NEW m \in S PROVE m \in Page(S, n)
  <2>1. After(m) \subseteq S \ {m}
    BY Order
  <2> HIDE DEF After
  <2>2. IsFiniteSet(S \ {m}) /\ Cardinality(S \ {m}) = Cardinality(S) - 1
    BY <1>0, FS_RemoveElement
  <2>3. Cardinality(After(m)) <= Cardinality(S \ {m})
    BY <2>1, <2>2, FS_Subset
  <2>4. Cardinality(S) \in Nat
    BY <1>0, FS_CardinalityType
  <2> QED BY <2>2, <2>3, <2>4, <1>1, <1>2, <1>7
<1> QED BY <1>3, <1>4, <1>5, <1>6, <1>7

-----------------------------------------------------------------------------
(* Paging *)

\* What the client does changes nothing but what it knows.
LEMMA Reads ==
    ASSUME ReaderUnchanged, NEW r \in ReaderType, Paged(r), reader' = r
    PROVE  ReaderOK' /\ PagingOK'
<1>1. Visible' = Visible /\ \A k : Shown(k)' = Shown(k)
  BY DEF ReaderUnchanged, rules, Visible, Shown, IsFile
<1>2. \A m, c : Behind(m, c)' = Behind(m, c)
  BY DEF ReaderUnchanged, Behind, Before
<1>3. Paged(r)'
  BY <1>1, <1>2 DEF Paged
<1>4. r \in ReaderType'
  BY DEF ReaderUnchanged, ReaderType
<1> QED BY <1>3, <1>4 DEF ReaderOK, PagingOK

LEMMA ListPageReads ==
    ASSUME MessagesOK, ReaderOK, PagingOK, ListPage
    PROVE  ReaderOK' /\ PagingOK'
<1> DEFINE older == OlderThan(Visible, reader.before)
           rows == Page(older, PageSize)
<1>0. PICK r : r = reader'
  OBVIOUS
<1>1. /\ reader \in ReaderType /\ Paged(reader) /\ ReaderUnchanged
      /\ reader.step = "page" /\ reader.kind = "list"
  BY DEF ReaderOK, PagingOK, ListPage
<1>2. older = {m \in Visible : Behind(m, reader.before)} /\ older \in SUBSET DOMAIN messages
  BY DEF OlderThan, Behind, Visible
<1>3. Shown(reader.kind) = Visible
  BY <1>1 DEF Shown
<1>4. r = IF rows = {} THEN [reader EXCEPT !.step = "done"]
          ELSE [reader EXCEPT !.step = "more", !.got = reader.got \cup rows, !.before = Oldest(rows)]
  BY <1>0 DEF ListPage
<1> HIDE DEF older
<1>5. /\ rows \subseteq older /\ (older # {} => rows # {})
      /\ \A m \in rows, o \in older : Before(m, o) => o \in rows
  BY <1>2, MessagesAssumption, Pages
<1> HIDE DEF rows
<1>6. CASE rows = {}
  <2>1. \A m \in reader.start : m \in reader.got
    BY <1>1, <1>2, <1>3, <1>5, <1>6 DEF Paged
  <2>2. r \in ReaderType /\ Paged(r)
    BY <1>1, <1>3, <1>4, <1>6, <2>1 DEF ReaderType, Paged
  <2> QED BY <1>0, <1>1, <2>2, Reads
<1>7. CASE rows # {}
  <2> DEFINE last == Oldest(rows)
  <2>1. last \in rows /\ \A n \in rows \ {last} : Before(last, n)
    BY <1>2, <1>5, <1>7, Ends
  <2>2. r = [reader EXCEPT !.step = "more", !.got = reader.got \cup rows, !.before = last]
    BY <1>4, <1>7
  <2> HIDE DEF last
  <2>3. last \in DOMAIN messages /\ last # None
    BY <1>2, <1>5, <2>1, MessagesAssumption DEF MessagesOK
  <2>4. ASSUME NEW m \in reader.start PROVE Before(m, last) \/ m \in reader.got \cup rows
    <3>1. m \in Visible /\ m \in DOMAIN messages
      BY <1>1 DEF Paged, Visible
    <3>2. Behind(m, reader.before) \/ m \in reader.got
      BY <1>1, <1>3, <3>1 DEF Paged
    <3>3. m \in older \/ m \in reader.got
      BY <1>2, <3>1, <3>2
    <3>4. m = last \/ Before(m, last) \/ Before(last, m)
      BY <2>3, <3>1, Order
    <3> QED BY <1>5, <2>1, <3>3, <3>4
  <2>5. r \in ReaderType
    BY <1>1, <1>2, <1>5, <2>2, <2>3 DEF ReaderType
  <2>6. Paged(r)
    <3>1. /\ r.step = "more" /\ r.got = reader.got \cup rows /\ r.before = last
          /\ r.start = reader.start /\ r.kind = reader.kind
      BY <1>1, <2>2 DEF ReaderType
    <3> QED BY <1>1, <2>3, <2>4, <3>1 DEF Paged, Behind
  <2> QED BY <1>0, <1>1, <2>5, <2>6, Reads
<1> QED BY <1>6, <1>7

LEMMA HasMoreReads ==
    ASSUME MessagesOK, ReaderOK, PagingOK, HasMore
    PROVE  ReaderOK' /\ PagingOK'
<1> DEFINE older == OlderThan(Visible, reader.before)
<1>0. PICK r : r = reader'
  OBVIOUS
<1>1. /\ reader \in ReaderType /\ Paged(reader) /\ ReaderUnchanged /\ reader.step = "more"
  BY DEF ReaderOK, PagingOK, HasMore
<1>2. older = {m \in Visible : Behind(m, reader.before)}
  BY DEF OlderThan, Behind
<1>3. r = [reader EXCEPT !.step = IF older # {} THEN "page" ELSE "done"]
  BY <1>0 DEF HasMore
<1> HIDE DEF older
<1>4. r \in ReaderType
  BY <1>1, <1>3 DEF ReaderType
<1>5. /\ r.step = IF older # {} THEN "page" ELSE "done"
      /\ r.start = reader.start /\ r.got = reader.got /\ r.before = reader.before /\ r.kind = reader.kind
  BY <1>1, <1>3 DEF ReaderType
<1>6. older = {} => reader.start \cap Shown(reader.kind) \subseteq reader.got
  BY <1>1, <1>2 DEF Paged
<1>7. Paged(r)
  BY <1>1, <1>5, <1>6 DEF Paged
<1> QED BY <1>0, <1>1, <1>4, <1>7, Reads

\* A scan has come to the message scan, with what it found on the way; it goes
\* on with rows, the next ones that there are.
LEMMA ScanReads ==
    ASSUME MessagesOK, ReaderOK, PagingOK, ScanHistory
    PROVE  ReaderOK' /\ PagingOK'
<1> DEFINE list == Visible \ hidden
           older == OlderThan(list, reader.scan)
           rows == Page(older, ScanBatch)
           found == reader.found \cup IF reader.kind = "files" THEN {m \in rows : IsFile(m)} ELSE rows
           page == Page(found, PageSize)
           full == Cardinality(found) > PageSize
           want == reader.start \cap Shown(reader.kind)
<1>0. PICK r : r = reader'
  OBVIOUS
<1>1. reader \in ReaderType /\ Paged(reader) /\ ReaderUnchanged /\ reader.step = "scan"
  BY DEF ReaderOK, PagingOK, ScanHistory
<1>2. older = {m \in list : Behind(m, reader.scan)} /\ older \in SUBSET DOMAIN messages
  BY DEF OlderThan, Behind, Visible
<1>3. r = IF full \/ Cardinality(rows) < ScanBatch
          THEN [reader EXCEPT !.step = IF full THEN "page" ELSE "done", !.got = reader.got \cup page,
                              !.before = IF full THEN Oldest(page) ELSE reader.before,
                              !.scan = None, !.found = {}]
          ELSE [reader EXCEPT !.scan = Oldest(rows), !.found = found]
  BY <1>0 DEF ScanHistory
<1>4. /\ want \subseteq list /\ want \subseteq DOMAIN messages
      /\ reader.kind = "files" => \A m \in want : IsFile(m)
  <2>1. reader.kind \in {"history", "files"}
    BY <1>1 DEF Paged, ReaderType
  <2> QED BY <2>1 DEF Shown, Visible
<1> HIDE DEF older
<1>5. /\ rows \subseteq older /\ (older # {} => rows # {}) /\ IsFiniteSet(rows)
      /\ \A m \in rows, o \in older : Before(m, o) => o \in rows
      /\ Cardinality(rows) < ScanBatch => rows = older
  BY <1>2, MessagesAssumption, Pages
<1> HIDE DEF rows
<1>6. /\ found \in SUBSET DOMAIN messages /\ IsFiniteSet(found)
      /\ reader.found \subseteq found /\ found \subseteq reader.found \cup rows
      /\ want \cap rows \subseteq found
  <2>1. found \in SUBSET DOMAIN messages
    BY <1>1, <1>2, <1>5 DEF ReaderType
  <2>2. IsFiniteSet(found)
    BY <2>1, FS_Subset DEF MessagesOK
  <2> QED BY <2>1, <2>2, <1>4
<1>7. \A m \in want : m \in older \/ m \in reader.got \cup reader.found
  <2> SUFFICES ASSUME NEW m \in want PROVE m \in older \/ m \in reader.got \cup reader.found
    OBVIOUS
  <2>1. Behind(m, reader.scan) \/ m \in reader.got \cup reader.found
    BY <1>1 DEF Paged
  <2> QED BY <2>1, <1>2, <1>4
<1>8. \A m \in older, n \in reader.found : Before(m, n)
  <2> SUFFICES ASSUME NEW m \in older, NEW n \in reader.found PROVE Before(m, n)
    OBVIOUS
  <2>1. ~ Behind(n, reader.scan) /\ Behind(m, reader.scan)
    BY <1>1, <1>2 DEF Paged
  <2>2. {m, n, reader.scan} \subseteq DOMAIN messages
    BY <2>1, <1>1, <1>2 DEF ReaderType, Behind
  <2> QED BY <2>1, <2>2, Order DEF Behind
<1> HIDE DEF found
<1>9. /\ page \subseteq found /\ (found # {} => page # {})
      /\ \A m \in page, o \in found : Before(m, o) => o \in page
      /\ Cardinality(found) <= PageSize => page = found
  BY <1>6, MessagesAssumption, Pages
<1>10. /\ PageSize \in Nat \ {0} /\ ScanBatch \in Nat \ {0}
       /\ Cardinality(found) \in Nat /\ Cardinality(rows) \in Nat
  BY <1>5, <1>6, FS_CardinalityType, MessagesAssumption
<1> HIDE DEF page
<1>11. CASE full
  <2> DEFINE last == Oldest(page)
  <2>1. found # {}
    BY <1>10, <1>11, FS_EmptySet
  <2>2. last \in page /\ \A n \in page \ {last} : Before(last, n)
    BY <1>6, <1>9, <2>1, Ends
  <2>3. r = [reader EXCEPT !.step = "page", !.got = reader.got \cup page, !.before = last,
                           !.scan = None, !.found = {}]
    BY <1>3, <1>11
  <2> HIDE DEF last, full
  <2>4. last \in found /\ last \in DOMAIN messages
    BY <1>6, <1>9, <2>2
  <2>5. ASSUME NEW m \in want PROVE Before(m, last) \/ m \in reader.got \cup page
    <3>1. m = last \/ Before(m, last) \/ Before(last, m)
      BY <2>4, <1>4, Order
    <3>2. m \in found => m \in page \/ Before(m, last)
      BY <3>1, <1>9, <2>2
    <3>3. CASE m \in older /\ last \in rows
      BY <3>1, <3>2, <3>3, <1>5, <1>6, <2>5
    <3>4. CASE m \in older /\ last \in reader.found
      BY <3>4, <1>8
    <3> QED BY <3>2, <3>3, <3>4, <1>6, <1>7, <2>4
  <2>6. r \in ReaderType
    BY <1>1, <1>6, <1>9, <2>3, <2>4 DEF ReaderType
  <2>7. /\ r.step = "page" /\ r.got = reader.got \cup page /\ r.before = last
        /\ r.start = reader.start /\ r.kind = reader.kind
    BY <1>1, <2>3 DEF ReaderType
  <2>8. Paged(r)
    BY <1>1, <2>5, <2>7 DEF Paged, Behind
  <2> QED BY <1>0, <1>1, <2>6, <2>8, Reads
<1>12. CASE ~ full /\ Cardinality(rows) < ScanBatch
  <2>1. r = [reader EXCEPT !.step = "done", !.got = reader.got \cup page, !.scan = None, !.found = {}]
    BY <1>1, <1>3, <1>12 DEF ReaderType
  <2>2. page = found /\ rows = older
    BY <1>5, <1>9, <1>10, <1>12
  <2>3. want \subseteq reader.got \cup page
    BY <1>6, <1>7, <2>2
  <2> HIDE DEF full
  <2>4. r \in ReaderType
    BY <1>1, <1>6, <2>1, <2>2 DEF ReaderType
  <2>5. /\ r.step = "done" /\ r.got = reader.got \cup page
        /\ r.start = reader.start /\ r.kind = reader.kind
    BY <1>1, <2>1 DEF ReaderType
  <2>6. Paged(r)
    BY <1>1, <2>3, <2>5 DEF Paged
  <2> QED BY <1>0, <1>1, <2>4, <2>6, Reads
<1>13. CASE ~ full /\ ~ (Cardinality(rows) < ScanBatch)
  <2> DEFINE last == Oldest(rows)
  <2>1. rows # {}
    BY <1>10, <1>13, FS_EmptySet
  <2>2. rows \in SUBSET DOMAIN messages
    BY <1>2, <1>5
  <2>3. last \in rows /\ \A n \in rows \ {last} : Before(last, n)
    BY <2>1, <2>2, Ends
  <2>4. r = [reader EXCEPT !.scan = last, !.found = found]
    BY <1>3, <1>13
  <2> HIDE DEF last, full
  <2>5. last \in older /\ last \in DOMAIN messages /\ last # None
    BY <1>5, <2>2, <2>3, MessagesAssumption DEF MessagesOK
  <2>6. ASSUME NEW m \in want PROVE Behind(m, last) \/ m \in reader.got \cup found
    <3>1. m = last \/ Before(m, last) \/ Before(last, m)
      BY <2>5, <1>4, Order
    <3>2. m \in older => m \in rows \/ Before(m, last)
      BY <3>1, <1>5, <2>3
    <3> QED BY <3>2, <1>6, <1>7, <2>6 DEF Behind
  <2>7. ASSUME NEW m \in found PROVE ~ Behind(m, last)
    <3>1. m \in DOMAIN messages
      BY <1>6
    <3>2. m = last \/ Before(last, m)
      BY <1>6, <1>8, <2>3, <2>5
    <3> QED BY <3>1, <3>2, <2>5, Order DEF Behind
  <2>8. r \in ReaderType
    BY <1>1, <1>6, <2>4, <2>5 DEF ReaderType
  <2>9. /\ r.step = "scan" /\ r.got = reader.got /\ r.before = reader.before
        /\ r.start = reader.start /\ r.kind = reader.kind /\ r.scan = last /\ r.found = found
    BY <1>1, <2>4 DEF ReaderType
  <2>10. Paged(r)
    BY <1>1, <2>6, <2>7, <2>9 DEF Paged
  <2> QED BY <1>0, <1>1, <2>8, <2>10, Reads
<1> QED BY <1>11, <1>12, <1>13

\* Beginning, giving up and ending.
LEMMA ClientReads ==
    ASSUME MessagesOK, TablesOK, ReaderOK, PagingOK, Client
    PROVE  ReaderOK' /\ PagingOK'
<1>1. ASSUME NEW kind \in {"list", "history", "files"}, OpenList(kind) PROVE ReaderOK' /\ PagingOK'
  <2>1. PICK r : r = reader'
    OBVIOUS
  <2>2. reader \in ReaderType /\ Paged(reader) /\ reader.step = "idle"
    BY <1>1 DEF ReaderOK, PagingOK, OpenList
  <2>3. r = [reader EXCEPT !.step = "page", !.kind = kind, !.start = Shown(kind), !.got = {}]
    BY <1>1, <2>1 DEF OpenList
  <2>4. Shown(kind) \subseteq Visible /\ Visible \subseteq DOMAIN messages
    BY DEF Shown, Visible
  <2>5. r \in ReaderType
    BY <2>2, <2>3, <2>4 DEF ReaderType
  <2>6. r.step = "page" /\ r.start = Shown(kind) /\ r.before = None
    BY <2>2, <2>3 DEF ReaderType, Paged
  <2>7. Paged(r)
    BY <2>4, <2>6 DEF Paged, Behind
  <2>8. Visible' = Visible /\ \A k : Shown(k)' = Shown(k)
    BY <1>1 DEF OpenList, rules, Visible, Shown, IsFile
  <2>9. \A m, c : Behind(m, c)' = Behind(m, c)
    BY <1>1 DEF OpenList, Behind, Before
  <2>10. Paged(r)' /\ r \in ReaderType'
    BY <2>5, <2>7, <2>8, <2>9, <1>1 DEF Paged, ReaderType, OpenList
  <2> QED BY <2>1, <2>10 DEF ReaderOK, PagingOK
<1>2. ASSUME PageBlocked \/ CloseList PROVE ReaderOK' /\ PagingOK'
  <2>1. PICK r : r = reader'
    OBVIOUS
  <2>2. reader \in ReaderType /\ ReaderUnchanged
    BY <1>2 DEF ReaderOK, PageBlocked, CloseList
  <2>3. r = [reader EXCEPT !.step = "idle", !.before = None, !.start = {}, !.got = {}]
    BY <1>2, <2>1 DEF PageBlocked, CloseList
  <2>4. r \in ReaderType
    BY <2>2, <2>3 DEF ReaderType
  <2>5. r.step = "idle" /\ r.start = {} /\ r.before = None
    BY <2>2, <2>3 DEF ReaderType
  <2>6. Paged(r)
    BY <2>5 DEF Paged
  <2> QED BY <2>1, <2>2, <2>4, <2>6, Reads
<1>3. ASSUME OpenScan PROVE ReaderOK' /\ PagingOK'
  <2>1. PICK r : r = reader'
    OBVIOUS
  <2>2. /\ reader \in ReaderType /\ Paged(reader) /\ ReaderUnchanged
        /\ reader.step = "page" /\ reader.kind # "list"
    BY <1>3 DEF ReaderOK, PagingOK, OpenScan
  <2>3. r = [reader EXCEPT !.step = "scan", !.scan = reader.before, !.found = {}]
    BY <1>3, <2>1 DEF OpenScan
  <2>4. r \in ReaderType
    BY <2>2, <2>3 DEF ReaderType
  <2>5. /\ r.step = "scan" /\ r.got = reader.got /\ r.before = reader.before /\ r.found = {}
        /\ r.start = reader.start /\ r.kind = reader.kind /\ r.scan = reader.before
    BY <2>2, <2>3 DEF ReaderType
  <2>6. Paged(r)
    BY <2>2, <2>5 DEF Paged
  <2> QED BY <2>1, <2>2, <2>4, <2>6, Reads
<1> QED BY <1>1, <1>2, <1>3, ListPageReads, HasMoreReads, ScanReads DEF Client

-----------------------------------------------------------------------------
(* What requests share *)

LEMMA BotIsNoHandler ==
    /\ Handlers \subseteq Workers /\ Bot \in Workers /\ Bot \notin Handlers
    /\ \A h \in Workers : h # Bot => h \in Handlers
  BY MessagesAssumption DEF Workers

LEMMA TellersKnow ==
    ASSUME CallsOK, BotOK, NEW h \in Workers, Telling(h)
    PROVE  call[h].id \in DOMAIN messages
<1>1. CASE h = Bot
  BY <1>1 DEF BotOK, Telling, BotSteps
<1>2. CASE h # Bot
  <2>1. Fits(call[h])
    BY <1>2, BotIsNoHandler DEF CallsOK
  <2> QED BY <2>1 DEF Fits, Telling, Existing
<1> QED BY <1>1, <1>2

LEMMA OnceKept ==
    ASSUME OnceOK, UNCHANGED <<messages, notes, pushed, queue>>,
           \A g \in Workers : Telling(g)' => call'[g] = call[g]
    PROVE  OnceOK'
  BY DEF OnceOK, Telling

LEMMA MentionsKept ==
    ASSUME MentionsOK, UNCHANGED <<messages, notes, overtaken>>,
           \A g \in Workers : Telling(g)' => call'[g] = call[g],
           \A g \in Handlers : call[g].step = "withdraw" => call'[g] = call[g]
    PROVE  MentionsOK'
<1>1. MentionsAreWithdrawn'
  BY DEF MentionsOK, MentionsAreWithdrawn, At
<1> QED BY <1>1 DEF MentionsOK, Telling

\* Nothing happens to messages and calls.
LEMMA Rest ==
    ASSUME Core, MessagesOK', TablesOK', AnswersOK', Grows, UNCHANGED <<messages, alerts, bot, call>>
    PROVE  Core'
<1>1. UniqueOK'
  BY UniqueKept DEF Core
<1>2. CallsOK' /\ BotOK'
  BY CallsKept, BotKept DEF Core
<1>3. OnceOK' /\ MentionsOK'
  BY OnceKept, MentionsKept DEF Core, alerts
<1> QED BY <1>1, <1>2, <1>3 DEF Core

\* A request begins, goes on or ends, and tells nobody of a message.
LEMMA Moves ==
    ASSUME Core, NEW h \in Handlers, NEW c \in CallType, Fits(c), c.id \in DOMAIN messages \cup {None},
           c.step \notin {"announce", "mention"}, call[h].step # "withdraw",
           call' = [call EXCEPT ![h] = c],
           TablesOK', AnswersOK', Grows, UNCHANGED <<now, messages, alerts, bot>>
    PROVE  Core'
<1>1. MessagesOK'
  BY DEF Core, MessagesOK
<1>2. UniqueOK'
  BY UniqueKept DEF Core
<1>3. call'[h] = c /\ \A g \in Workers \ {h} : call'[g] = call[g]
  BY BotIsNoHandler DEF Core, CallsOK
<1>4. CallsOK' /\ BotOK'
  BY <1>3, CallsMove, BotKept, BotIsNoHandler DEF Core
<1>5. /\ \A g \in Workers : Telling(g)' => call'[g] = call[g]
      /\ \A g \in Handlers : call[g].step = "withdraw" => call'[g] = call[g]
  BY <1>3, BotIsNoHandler DEF Telling
<1>6. OnceOK' /\ MentionsOK'
  BY <1>5, OnceKept, MentionsKept DEF Core, alerts
<1> QED BY <1>1, <1>2, <1>4, <1>6 DEF Core

\* The tables when no request writes to them.
LEMMA TablesKept ==
    ASSUME TablesOK, UNCHANGED <<rules, alerts, restarts>>, DOMAIN messages \subseteq DOMAIN messages'
    PROVE  TablesOK'
<1>1. cursor' \in [Users -> DOMAIN messages' \cup {None}]
  BY DEF TablesOK, rules
<1>2. DOMAIN requests' \subseteq (DOMAIN messages') \X Users
  BY DEF TablesOK, rules
<1>3. queue' \in Seq(DOMAIN messages') /\ Len(queue') <= QueueSize
  <2>1. queue \in Seq(DOMAIN messages')
    BY SeqMonotonic DEF TablesOK
  <2> QED BY <2>1 DEF TablesOK, alerts
<1> QED BY <1>1, <1>2, <1>3 DEF TablesOK, rules, alerts

\* A request begins.
LEMMA Begins ==
    ASSUME Core, NEW h \in Handlers, NEW c \in CallType, Fits(c), c.id \in DOMAIN messages \cup {None},
           c.step \notin {"announce", "mention"}, Start(h, c), UNCHANGED restarts,
           UNCHANGED <<now, messages, answers, told, rules, alerts, bot>>
    PROVE  Core' /\ Grows
<1>1. Grows
  BY Still DEF rules
<1>2. TablesOK' /\ AnswersOK'
  BY <1>1, TablesKept, AnswersKept DEF Core
<1>3. call[h].step # "withdraw" /\ call' = [call EXCEPT ![h] = c]
  BY IdleOK DEF Start
<1> QED BY <1>1, <1>2, <1>3, Moves

-----------------------------------------------------------------------------
(* Sending *)

LEMMA SendMessageOK ==
    ASSUME Core, NEW h \in Handlers, NEW u \in Users, NEW c \in Clients, NEW to \in Audiences,
           SendMessage(h, u, c, to)
    PROVE  Core' /\ Grows
<1>1. UNCHANGED <<now, messages, answers, rules, alerts, bot, reader, restarts>>
  BY DEF SendMessage, Begin
<1>2. Grows
  BY <1>1, Still DEF rules
<1>3. CASE Replayed(u, c)
  <2>1. UNCHANGED call /\ told' = told \cup {<<u, c, answers[<<u, c>>]>>}
    BY <1>3 DEF SendMessage
  <2>2. <<u, c>> \in DOMAIN answers /\ answers[<<u, c>>] \in Existing(u, c)
    BY <1>3 DEF Replayed, Core, AnswersOK
  <2>3. \A n, d : Existing(n, d)' = Existing(n, d)
    BY <1>1 DEF Existing
  <2>4. answers[<<u, c>>] \in DOMAIN messages
    BY <2>2 DEF Existing
  <2> DEFINE m == answers[<<u, c>>]
  <2>5. \A t \in told' : t[3] \in Existing(t[1], t[2])' /\ t \in Users \X Clients \X (DOMAIN messages')
    <3> SUFFICES ASSUME NEW t \in told'
                 PROVE  t[3] \in Existing(t[1], t[2])' /\ t \in Users \X Clients \X (DOMAIN messages')
      OBVIOUS
    <3>1. CASE t \in told
      BY <3>1, <1>1, <2>3 DEF Core, AnswersOK
    <3>2. CASE t = <<u, c, m>>
      <4>1. t[1] = u /\ t[2] = c /\ t[3] = m
        BY <3>2
      <4>2. t[3] \in Existing(t[1], t[2])'
        BY <4>1, <2>2, <2>3
      <4>3. t \in Users \X Clients \X (DOMAIN messages')
        BY <3>2, <2>4, <1>1
      <4> QED BY <4>2, <4>3
    <3> QED BY <3>1, <3>2, <2>1
  <2>6. AnswersOK'
    <3>1. \A k \in DOMAIN answers : answers[k] \in Existing(k[1], k[2])'
      BY <2>3 DEF Core, AnswersOK
    <3>2. told' \subseteq Users \X Clients \X (DOMAIN messages')
      BY <2>5
    <3> QED BY <1>1, <2>5, <3>1, <3>2 DEF Core, AnswersOK
  <2>7. TablesOK' /\ MessagesOK'
    BY <1>1, TablesKept DEF Core, MessagesOK
  <2> QED BY <1>1, <1>2, <2>1, <2>6, <2>7, Rest
<1>4. CASE ~ Replayed(u, c)
  <2>1. PICK r : r = [Idle EXCEPT !.step = "insert", !.op = "send", !.user = u, !.client = c,
                                  !.at = now, !.to = to]
    OBVIOUS
  <2>2. Start(h, r) /\ UNCHANGED told
    BY <1>4, <2>1 DEF SendMessage
  <2>3. r \in CallType
    <3>1. now \in 0..MaxClock
      BY MessagesAssumption DEF Core, MessagesOK
    <3>2. r = [step |-> "insert", op |-> "send", user |-> u, client |-> c, id |-> None, at |-> now,
               to |-> to, found |-> {}, verdict |-> "none"]
      BY <2>1 DEF Idle
    <3> QED BY <3>1, <3>2 DEF CallType, HandlerSteps
  <2>4. r.step = "insert" /\ r.op = "send" /\ r.user = u /\ r.client = c /\ r.id = None
    BY <2>1 DEF Idle
  <2>5. Fits(r)
    BY <2>4 DEF Fits, HandlerSteps
  <2> QED BY <1>1, <2>2, <2>3, <2>4, <2>5, Begins
<1> QED BY <1>3, <1>4

\* A message comes.
LEMMA Inserts ==
    ASSUME Core, NEW m \in NewIds \ DOMAIN messages, NEW r \in Message,
           messages' = Inserted(messages, m, r), UNCHANGED <<now, cursor, hidden>>
    PROVE  /\ Grows /\ MessagesOK'
           /\ DOMAIN messages' = DOMAIN messages \cup {m} /\ messages'[m] = r
           /\ \A n \in DOMAIN messages : messages'[n] = messages[n]
<1>1. /\ DOMAIN messages' = DOMAIN messages \cup {m} /\ messages'[m] = r
      /\ \A n \in DOMAIN messages : messages'[n] = messages[n]
  BY DEF Inserted
<1>2. Grows
  BY <1>1 DEF Grows
<1>3. IsFiniteSet(DOMAIN messages')
  BY <1>1, FS_AddElement DEF Core, MessagesOK
<1>4. messages' \in [DOMAIN messages' -> Message]
  BY <1>1 DEF Inserted, Core, MessagesOK
<1> QED BY <1>1, <1>2, <1>3, <1>4 DEF Core, MessagesOK, Ids

LEMMA UniqueGrown ==
    ASSUME Core, NEW m \in NewIds \ DOMAIN messages, NEW r \in Message,
           DOMAIN messages' = DOMAIN messages \cup {m}, messages'[m] = r,
           \A n \in DOMAIN messages : messages'[n] = messages[n],
           r.client = None \/ Existing(r.sender, r.client) = {}
    PROVE  UniqueOK'
<1> SUFFICES ASSUME NEW u \in Users, NEW c \in Clients,
                    NEW a \in Existing(u, c)', NEW b \in Existing(u, c)'
             PROVE  a = b
  BY DEF UniqueOK
<1>1. {a, b} \subseteq DOMAIN messages \cup {m}
  BY DEF Existing
<1>2. \A x \in {a, b} : x # m => x \in Existing(u, c)
  BY <1>1 DEF Existing
<1>3. m \in {a, b} => r.sender = u /\ r.client = c /\ Existing(u, c) = {}
  BY MessagesAssumption DEF Existing
<1> QED BY <1>2, <1>3 DEF Core, UniqueOK

\* Nobody was told of a message that comes.
LEMMA ToldGrown ==
    ASSUME Core, NEW m \in NewIds \ DOMAIN messages,
           DOMAIN messages' = DOMAIN messages \cup {m}, messages'[m].wiped = FALSE,
           \A n \in DOMAIN messages : messages'[n] = messages[n],
           UNCHANGED alerts, NEW w \in Workers,
           \A g \in Workers : g # w => call'[g] = call[g],
           call'[w] = call[w] \/ (call'[w].id = m /\ call[w].step # "withdraw")
    PROVE  OnceOK' /\ MentionsOK'
<1>1. \A g \in Workers : Telling(g) => call[g].id # m
  BY TellersKnow DEF Core
<1>2. /\ \A i \in DOMAIN queue : queue[i] # m
      /\ \A u \in Users : notes[m][u] = 0 /\ pushed[m][u] = 0
  BY DEF Core, TablesOK, OnceOK, Ids
<1>3. \A g \in Workers : call'[g] = call[g] \/ (g = w /\ call'[g].id = m)
  OBVIOUS
<1>4. \A g \in Workers : Telling(g)' => \/ Telling(g) /\ call'[g] = call[g]
                                        \/ g = w /\ call'[g].id = m
  <2> SUFFICES ASSUME NEW g \in Workers, Telling(g)'
               PROVE  \/ Telling(g) /\ call'[g] = call[g]
                      \/ g = w /\ call'[g].id = m
    BY DEF Telling
  <2>1. CASE call'[g] = call[g]
    BY <2>1 DEF Telling
  <2> QED BY <2>1, <1>3
<1>5. OnceOK'
  <2>1. \A n \in Ids, u \in Users : /\ notes'[n][u] <= 1 /\ pushed'[n][u] <= 1
                                    /\ n \notin DOMAIN messages' => notes'[n][u] = 0 /\ pushed'[n][u] = 0
    BY DEF Core, OnceOK, alerts
  <2>2. \A g \in Workers : Telling(g)' => \A u \in Users : notes'[call'[g].id][u] = 0
    BY <1>2, <1>4 DEF Core, OnceOK, alerts
  <2>3. \A g, h \in Workers : Telling(g)' /\ Telling(h)' /\ g # h => call'[g].id # call'[h].id
    BY <1>1, <1>4 DEF Core, OnceOK
  <2>4. \A g \in Workers : call'[g].step = "announce" =>
          /\ \A u \in Users : pushed'[call'[g].id][u] = 0
          /\ \A i \in DOMAIN queue' : queue'[i] # call'[g].id
    BY <1>2, <1>3 DEF Core, OnceOK, alerts
  <2> QED BY <2>1, <2>2, <2>3, <2>4 DEF Core, OnceOK, alerts
<1>6. MentionsOK'
  <2>1. MentionsAreWithdrawn'
    <3> SUFFICES ASSUME NEW n \in DOMAIN messages', messages'[n].wiped,
                        \E u \in Users : notes'[n][u] > 0
                 PROVE  \/ n \in overtaken'
                        \/ \E h \in Handlers : call'[h].step = "withdraw" /\ call'[h].id = n
      BY DEF MentionsAreWithdrawn, At
    <3>1. n \in DOMAIN messages /\ messages[n].wiped
      OBVIOUS
    <3>2. n \in overtaken \/ \E h \in Handlers : call[h].step = "withdraw" /\ call[h].id = n
      BY <3>1 DEF Core, MentionsOK, MentionsAreWithdrawn, At, alerts
    <3> QED BY <3>2, BotIsNoHandler DEF alerts
  <2>2. \A g \in Workers : Telling(g)' /\ messages'[call'[g].id].wiped => call'[g].id \in overtaken'
    BY <1>4, TellersKnow DEF Core, MentionsOK, alerts
  <2> QED BY <2>1, <2>2 DEF MentionsOK
<1> QED BY <1>5, <1>6

LEMMA InsertMessageOK ==
    ASSUME Core, NEW h \in Handlers, InsertMessage(h)
    PROVE  Core' /\ Grows
<1>0. PICK user, client : user = call[h].user /\ client = call[h].client
  OBVIOUS
<1> DEFINE existing == Existing(user, client)
<1>1. /\ call[h] \in CallType /\ Fits(call[h]) /\ call[h].step = "insert"
      /\ user \in Users /\ client \in Clients
  BY <1>0, BotIsNoHandler DEF Core, CallsOK, Fits, InsertMessage, At
<1>2. UNCHANGED <<now, answers, told, rules, alerts, bot, reader, restarts>>
  BY DEF InsertMessage, bounds
<1>3. ASSUME existing = {}, NEW m \in NewIds \ DOMAIN messages, AddMessage(h, m),
             call' = [call EXCEPT ![h].id = m, ![h].step = "announce"]
      PROVE  Core' /\ Grows
  <2>1. PICK r : r = [sender |-> user, client |-> client, at |-> call[h].at, to |-> call[h].to,
                      kind |-> "text", wiped |-> FALSE]
    OBVIOUS
  <2>2. r \in Message /\ r.sender = user /\ r.client = client /\ r.wiped = FALSE
    BY <1>1, <2>1 DEF Message, CallType
  <2>3. messages' = Inserted(messages, m, r)
    BY <1>0, <1>3, <2>1 DEF AddMessage
  <2>4. /\ Grows /\ MessagesOK'
        /\ DOMAIN messages' = DOMAIN messages \cup {m} /\ messages'[m] = r
        /\ \A n \in DOMAIN messages : messages'[n] = messages[n]
    BY <1>2, <2>2, <2>3, Inserts DEF rules
  <2>5. UniqueOK'
    BY <1>3, <2>2, <2>4, UniqueGrown
  <2>6. PICK c : c = [call[h] EXCEPT !.id = m, !.step = "announce"]
    OBVIOUS
  <2>7. /\ c \in CallType /\ c.id = m /\ c.step = "announce" /\ c.user = user /\ c.client = client
        /\ c.op = call[h].op /\ c.verdict = call[h].verdict
    BY <1>0, <1>1, <2>6 DEF CallType, HandlerSteps, Ids
  <2>8. call' = [call EXCEPT ![h] = c]
    BY <1>3, <2>6
  <2>9. call'[h] = c /\ \A g \in Workers : g # h => call'[g] = call[g]
    BY <2>8, BotIsNoHandler DEF Core, CallsOK
  <2>10. m \in Existing(user, client)'
    BY <1>1, <2>2, <2>4, MessagesAssumption DEF Existing
  <2>11. CallsOK'
    <3>2. Fits(c)'
      <4>1. c.op = "review" => c.verdict \in {"approved", "rejected"}
        BY <1>1, <2>7 DEF Fits
      <4> QED BY <1>1, <2>7, <2>10, <4>1 DEF Fits, HandlerSteps
    <3>3. ASSUME NEW g \in Handlers PROVE Fits(call[g])'
      <4>1. PICK e : e = call[g]
        OBVIOUS
      <4>2. CASE g = h
        BY <3>2, <4>2, <2>9 DEF Fits
      <4>3. CASE g # h
        <5>1. Fits(e)'
          BY <4>1, <2>4, FitsKept DEF Core, CallsOK
        <5> QED BY <5>1, <4>1, <4>3, <2>9, BotIsNoHandler DEF Fits
      <4> QED BY <4>2, <4>3
    <3>4. call' \in [Workers -> CallType]
      BY <2>7, <2>8, BotIsNoHandler DEF Core, CallsOK
    <3>5. \A g \in Workers : call'[g].id \in DOMAIN messages' \cup {None}
      BY <2>4, <2>7, <2>9 DEF Core, CallsOK
    <3> QED BY <3>3, <3>4, <3>5 DEF CallsOK
  <2>12. BotOK'
    BY <1>2, <2>4, <2>9, BotKept, BotIsNoHandler DEF Core
  <2>13. OnceOK' /\ MentionsOK'
    BY <1>1, <1>2, <2>2, <2>4, <2>7, <2>9, ToldGrown, BotIsNoHandler
  <2>14. TablesOK' /\ AnswersOK'
    BY <1>2, <2>4, TablesKept, AnswersKept DEF Core
  <2> QED BY <2>4, <2>5, <2>11, <2>12, <2>13, <2>14 DEF Core
<1>4. ASSUME NEW m \in existing, call' = [call EXCEPT ![h].id = m, ![h].step = "answer"],
             UNCHANGED messages
      PROVE  Core' /\ Grows
  <2>1. PICK c : c = [call[h] EXCEPT !.id = m, !.step = "answer"]
    OBVIOUS
  <2>2. m \in DOMAIN messages /\ m \in Ids
    BY DEF Existing, Core, MessagesOK
  <2>3. /\ c \in CallType /\ c.id = m /\ c.step = "answer" /\ c.user = user /\ c.client = client
        /\ c.op = call[h].op /\ c.verdict = call[h].verdict
    BY <1>0, <1>1, <2>1, <2>2 DEF CallType, HandlerSteps
  <2>4. call' = [call EXCEPT ![h] = c]
    BY <1>4, <2>1
  <2>5. Fits(c)
    BY <1>1, <2>3 DEF Fits, HandlerSteps
  <2>6. Grows
    BY <1>2, <1>4, Still DEF rules
  <2>7. TablesOK' /\ AnswersOK'
    BY <1>2, <1>4, <2>6, TablesKept, AnswersKept DEF Core
  <2> QED BY <1>1, <1>2, <1>4, <2>2, <2>3, <2>4, <2>5, <2>6, <2>7, Moves
<1> QED BY <1>0, <1>3, <1>4 DEF InsertMessage

LEMMA AnnounceOK ==
    ASSUME Core, NEW h \in Handlers, Announce(h)
    PROVE  Core' /\ Grows
<1> DEFINE user == call[h].user
           id == call[h].id
<1>1. /\ call[h] \in CallType /\ Fits(call[h]) /\ call[h].step = "announce" /\ h \in Workers
      /\ id \in DOMAIN messages
  BY BotIsNoHandler DEF Core, CallsOK, Fits, Announce, At, Existing
<1>2. UNCHANGED <<now, messages, answers, told, rules, notes, pushed, overtaken, bot, restarts>>
  BY DEF Announce, bounds
<1>3. Grows
  BY <1>2, Still DEF rules
<1>4. PICK c : c = [call[h] EXCEPT !.step = "mention", !.found = WantAll(user)]
  OBVIOUS
<1>5. /\ c \in CallType /\ c.id = id /\ c.step = "mention" /\ c.user = user /\ c.client = call[h].client
      /\ c.op = call[h].op /\ c.verdict = call[h].verdict
  <2>1. WantAll(user) \subseteq Users
    BY DEF WantAll
  <2> QED BY <1>1, <1>4, <2>1 DEF CallType, HandlerSteps
<1>6. call' = [call EXCEPT ![h] = c]
  BY <1>4 DEF Announce
<1>7. call'[h] = c /\ \A g \in Workers : g # h => call'[g] = call[g]
  BY <1>1, <1>6 DEF Core, CallsOK
<1>8. Fits(c)
  BY <1>1, <1>5 DEF Fits, HandlerSteps
<1>9. CallsOK'
  BY <1>1, <1>3, <1>5, <1>6, <1>8, CallsMove DEF Core
<1>10. queue' = IF Len(queue) < QueueSize THEN Append(queue, id) ELSE queue
  BY DEF Announce, Enqueue
<1>11. /\ queue' \in Seq(DOMAIN messages) /\ Len(queue') <= QueueSize
       /\ \A i \in DOMAIN queue' : \/ i \in DOMAIN queue /\ queue'[i] = queue[i]
                                   \/ i = Len(queue) + 1 /\ i \notin DOMAIN queue /\ queue'[i] = id
  <2>1. queue \in Seq(DOMAIN messages) /\ Len(queue) <= QueueSize
    BY DEF Core, TablesOK
  <2>2. Len(queue) \in Nat /\ DOMAIN queue = 1 .. Len(queue) /\ QueueSize \in Nat
    BY <2>1, MessagesAssumption, LenProperties
  <2>3. CASE Len(queue) < QueueSize
    <3>1. /\ Append(queue, id) \in Seq(DOMAIN messages) /\ Len(Append(queue, id)) = Len(queue) + 1
          /\ \A i \in 1 .. Len(queue) : Append(queue, id)[i] = queue[i]
          /\ Append(queue, id)[Len(queue) + 1] = id
          /\ DOMAIN Append(queue, id) = 1 .. Len(queue) + 1
      BY <1>1, <2>1, AppendProperties, LenProperties
    <3>2. queue' = Append(queue, id)
      BY <1>10, <2>3
    <3> HIDE DEF id
    <3> QED BY <2>2, <2>3, <3>1, <3>2
  <2>4. CASE ~ (Len(queue) < QueueSize)
    BY <1>10, <2>1, <2>2, <2>4
  <2> QED BY <2>3, <2>4
<1>12. TablesOK'
  BY <1>2, <1>11 DEF Core, TablesOK, rules
<1>13. OnceOK'
  <2>1. \A g \in Workers : Telling(g)' => Telling(g) /\ call'[g].id = call[g].id
    BY <1>1, <1>5, <1>7 DEF Telling
  <2>2. \A g \in Workers : call'[g].step = "announce" => g # h /\ call'[g] = call[g]
    BY <1>5, <1>7
  <2>3. Telling(h) /\ \A i \in DOMAIN queue : queue[i] # id
    BY <1>1 DEF Telling, Core, OnceOK
  <2>4. \A g \in Workers : call'[g].step = "announce" =>
          /\ \A u \in Users : pushed[call'[g].id][u] = 0
          /\ \A i \in DOMAIN queue' : queue'[i] # call'[g].id
    <3> SUFFICES ASSUME NEW g \in Workers, call'[g].step = "announce"
                 PROVE  /\ \A u \in Users : pushed[call'[g].id][u] = 0
                        /\ \A i \in DOMAIN queue' : queue'[i] # call'[g].id
      OBVIOUS
    <3>1. g # h /\ call'[g] = call[g] /\ Telling(g)
      BY <2>2 DEF Telling
    <3>2. call[g].id # id
      BY <3>1, <2>3, <1>1 DEF Core, OnceOK
    <3> QED BY <3>1, <3>2, <1>11 DEF Core, OnceOK
  <2>5. \A i \in DOMAIN queue' :
          /\ \A u \in Users : pushed[queue'[i]][u] = 0
          /\ \A j \in DOMAIN queue' : queue'[j] = queue'[i] => j = i
    <3>1. \A u \in Users : pushed[id][u] = 0
      BY <1>1 DEF Core, OnceOK
    <3> HIDE DEF id
    <3> QED BY <3>1, <2>3, <1>11 DEF Core, OnceOK
  <2>6. \A g, f \in Workers : Telling(g)' /\ Telling(f)' /\ g # f => call'[g].id # call'[f].id
    BY <2>1 DEF Core, OnceOK
  <2>7. \A g \in Workers : Telling(g)' => \A u \in Users : notes[call'[g].id][u] = 0
    BY <2>1 DEF Core, OnceOK
  <2> QED BY <2>4, <2>5, <2>6, <2>7, <1>2 DEF Core, OnceOK
<1>14. MentionsOK'
  <2>1. MentionsAreWithdrawn'
    BY <1>1, <1>2, <1>7, BotIsNoHandler DEF Core, MentionsOK, MentionsAreWithdrawn, At
  <2>2. \A g \in Workers : Telling(g)' => Telling(g) /\ call'[g].id = call[g].id
    BY <1>1, <1>5, <1>7 DEF Telling
  <2> QED BY <1>2, <2>1, <2>2 DEF Core, MentionsOK
<1>15. BotOK'
  BY <1>2, <1>3, <1>7, BotKept, BotIsNoHandler DEF Core
<1> QED BY <1>2, <1>3, <1>9, <1>12, <1>13, <1>14, <1>15, UniqueKept, AnswersKept DEF Core, MessagesOK

\* Mentions are added by the sender's request or by the bot.
LEMMA NotifyMentionedOK ==
    ASSUME Core, NEW h \in Workers, NotifyMentioned(h)
    PROVE  Core' /\ Grows
<1>0. PICK id : id = call[h].id
  OBVIOUS
<1> DEFINE to == call[h].found \cap Targets(call[h].to)
           step == IF h = Bot THEN "rest" ELSE "observe"
<1>1. call[h] \in CallType /\ call[h].step = "mention" /\ Telling(h) /\ id \in DOMAIN messages /\ id \in Ids
  <2>1. call[h] \in CallType /\ call[h].step = "mention" /\ Telling(h)
    BY DEF Core, CallsOK, NotifyMentioned, At, Telling
  <2> QED BY <1>0, <2>1, TellersKnow DEF Core, MessagesOK
<1>2. UNCHANGED <<now, messages, answers, told, rules, queue, pushed, overtaken, bot, restarts>>
  BY DEF NotifyMentioned, bounds
<1>3. Grows
  BY <1>2, Still DEF rules
<1>4. call' = [call EXCEPT ![h].step = step] /\ notes' = AddRows(notes, id, to)
  BY <1>0 DEF NotifyMentioned, Goto
<1>5. PICK c : c = [call[h] EXCEPT !.step = step]
  OBVIOUS
<1> HIDE DEF to
<1>6. /\ c \in CallType /\ c.id = id /\ c.step = step /\ c.user = call[h].user
      /\ c.client = call[h].client /\ c.op = call[h].op /\ c.verdict = call[h].verdict
  BY <1>0, <1>1, <1>5 DEF CallType, HandlerSteps, BotSteps
<1>7. call' = [call EXCEPT ![h] = c]
  BY <1>4, <1>5
<1>8. call'[h] = c /\ \A g \in Workers : g # h => call'[g] = call[g]
  BY <1>7 DEF Core, CallsOK
<1>9. CallsOK' /\ BotOK'
  <2>1. CASE h = Bot
    <3>1. c.step = "rest"
      BY <2>1, <1>6
    <3>2. \A g \in Workers : call'[g] \in CallType /\ call'[g].id \in DOMAIN messages \cup {None}
      BY <1>1, <1>6, <1>8 DEF Core, CallsOK
    <3>3. call' \in [Workers -> CallType]
      BY <1>6, <1>7 DEF Core, CallsOK
    <3>4. \A g \in Handlers : Fits(call[g])'
      <4> SUFFICES ASSUME NEW g \in Handlers PROVE Fits(call[g])'
        OBVIOUS
      <4>1. PICK d : d = call[g]
        OBVIOUS
      <4>2. Fits(d)' /\ call'[g] = d
        BY <1>3, <1>8, <2>1, <4>1, FitsKept, BotIsNoHandler DEF Core, CallsOK
      <4> QED BY <4>2 DEF Fits
    <3>5. CallsOK'
      BY <1>2, <3>2, <3>3, <3>4 DEF CallsOK
    <3>6. call[Bot].user = Bot /\ call[Bot].client = None /\ call[Bot] # Idle
      BY <1>1, <2>1, IdleOK DEF Core, BotOK
    <3>7. c # Idle
      BY <3>1, IdleOK
    <3>8. BotOK'
      BY <1>2, <1>6, <1>8, <2>1, <3>1, <3>6, <3>7 DEF Core, BotOK, BotTakesUpMentions, BotSteps
    <3> QED BY <3>5, <3>8
  <2>2. CASE h # Bot
    <3>1. h \in Handlers /\ c.step = "observe" /\ Fits(call[h])
      BY <1>6, <2>2, BotIsNoHandler DEF Core, CallsOK
    <3>2. Fits(c)
      BY <1>0, <1>1, <1>6, <3>1 DEF Fits, HandlerSteps
    <3>3. CallsOK'
      BY <1>1, <1>3, <1>6, <1>7, <3>1, <3>2, CallsMove DEF Core
    <3>4. BotOK'
      BY <1>2, <1>3, <1>8, <2>2, BotKept, BotIsNoHandler DEF Core
    <3> QED BY <3>3, <3>4
  <2> QED BY <2>1, <2>2
<1> HIDE DEF step
<1>10. ~ Telling(h)' /\ \A g \in Workers : Telling(g)' => Telling(g) /\ call'[g] = call[g] /\ g # h
  <2>1. c.step \notin {"announce", "mention"}
    BY <1>6 DEF step
  <2> QED BY <1>8, <2>1 DEF Telling
<1>11. /\ notes' \in [Ids -> [Users -> Nat]]
       /\ \A m \in Ids, u \in Users :
             notes'[m][u] = IF m = id /\ u \in to THEN notes[m][u] + 1 ELSE notes[m][u]
  <2>1. notes \in [Ids -> [Users -> Nat]]
    BY DEF Core, TablesOK
  <2> DEFINE row == [u \in Users |-> notes[id][u] + IF u \in to THEN 1 ELSE 0]
  <2>2. notes' = [notes EXCEPT ![id] = row]
    BY <1>4 DEF AddRows
  <2>3. row \in [Users -> Nat]
    BY <1>1, <2>1
  <2>4. \A u \in Users : row[u] = IF u \in to THEN notes[id][u] + 1 ELSE notes[id][u]
    BY <1>1, <2>1
  <2> HIDE DEF row
  <2> QED BY <1>1, <2>1, <2>2, <2>3, <2>4
<1>12. TablesOK'
  BY <1>2, <1>11 DEF Core, TablesOK, rules
<1>13. OnceOK'
  <2>1. \A u \in Users : notes[id][u] = 0
    BY <1>0, <1>1 DEF Core, OnceOK
  <2>2. \A m \in Ids, u \in Users : /\ notes'[m][u] <= 1 /\ pushed'[m][u] <= 1
                                    /\ m \notin DOMAIN messages' => notes'[m][u] = 0 /\ pushed'[m][u] = 0
    BY <1>1, <1>2, <1>11, <2>1 DEF Core, OnceOK
  <2>3. \A g \in Workers : Telling(g)' => \A u \in Users : notes'[call'[g].id][u] = 0
    <3> SUFFICES ASSUME NEW g \in Workers, Telling(g), call'[g] = call[g], g # h, NEW u \in Users
                 PROVE  notes'[call[g].id][u] = 0
      BY <1>10
    <3>1. call[g].id # id /\ notes[call[g].id][u] = 0
      BY <1>0, <1>1 DEF Core, OnceOK
    <3>2. call[g].id \in Ids
      BY TellersKnow DEF Core, MessagesOK
    <3> QED BY <3>1, <3>2, <1>11
  <2>4. \A g \in Workers : call'[g].step = "announce" => Telling(g)'
    BY DEF Telling
  <2>5. \A g \in Workers : call'[g].step = "announce" =>
          /\ \A u \in Users : pushed'[call'[g].id][u] = 0
          /\ \A i \in DOMAIN queue' : queue'[i] # call'[g].id
    BY <1>2, <1>10, <2>4 DEF Core, OnceOK
  <2>6. \A g, f \in Workers : Telling(g)' /\ Telling(f)' /\ g # f => call'[g].id # call'[f].id
    BY <1>10 DEF Core, OnceOK
  <2> QED BY <1>2, <2>2, <2>3, <2>5, <2>6 DEF Core, OnceOK
<1>14. MentionsOK'
  <2>1. MentionsAreWithdrawn'
    <3> SUFFICES ASSUME NEW m \in DOMAIN messages, messages[m].wiped, NEW u \in Users, notes'[m][u] > 0
                 PROVE  m \in overtaken \/ \E g \in Handlers : call'[g].step = "withdraw" /\ call'[g].id = m
      BY <1>2 DEF MentionsAreWithdrawn, At
    <3>1. m \in Ids
      BY DEF Core, MessagesOK
    <3>2. CASE m = id
      BY <3>2, <1>0, <1>1 DEF Core, MentionsOK
    <3>3. CASE m # id
      <4>1. notes[m][u] > 0
        BY <3>1, <3>3, <1>11
      <4>2. m \in overtaken \/ \E g \in Handlers : call[g].step = "withdraw" /\ call[g].id = m
        BY <4>1 DEF Core, MentionsOK, MentionsAreWithdrawn, At
      <4> QED BY <4>2, <1>1, <1>8, BotIsNoHandler
    <3> QED BY <3>2, <3>3
  <2> QED BY <1>2, <1>10, <2>1 DEF Core, MentionsOK
<1> QED BY <1>2, <1>3, <1>9, <1>12, <1>13, <1>14, UniqueKept, AnswersKept DEF Core, MessagesOK

LEMMA ObserveMessageOK ==
    ASSUME Core, NEW h \in Handlers, ObserveMessage(h)
    PROVE  Core' /\ Grows
<1>0. PICK m : m = call[h].id
  OBVIOUS
<1> DEFINE mentioned == call[h].to = Bot
           since == bot.since + 1
<1>1. /\ call[h] \in CallType /\ call[h].step = "observe" /\ Fits(call[h])
      /\ m \in DOMAIN messages /\ m # None /\ messages[m].sender \in Users
  <2>1. call[h] \in CallType /\ call[h].step = "observe" /\ Fits(call[h])
    BY BotIsNoHandler DEF Core, CallsOK, ObserveMessage, At
  <2>2. m \in Existing(call[h].user, call[h].client) /\ call[h].user \in Users
    BY <1>0, <2>1 DEF Fits
  <2>3. m \in Ids
    BY <2>2 DEF Existing, Core, MessagesOK
  <2> QED BY <2>1, <2>2, <2>3, MessagesAssumption DEF Existing
<1>2. UNCHANGED <<now, messages, answers, told, rules, alerts, reader, restarts>>
  BY DEF ObserveMessage, bounds
<1>3. Grows
  BY <1>2, Still DEF rules
<1>4. PICK c : c = [call[h] EXCEPT !.step = "answer"]
  OBVIOUS
<1>5. /\ c \in CallType /\ c.id = m /\ c.step = "answer" /\ c.user = call[h].user
      /\ c.client = call[h].client /\ c.op = call[h].op /\ c.verdict = call[h].verdict
  BY <1>0, <1>1, <1>4 DEF CallType, HandlerSteps
<1>6. Fits(c)
  BY <1>0, <1>1, <1>5 DEF Fits, HandlerSteps
<1>7. bot \in [since : Nat, threshold : MinGap..MaxGap, busy : BOOLEAN,
               pending : DOMAIN messages \cup {None}]
  BY DEF Core, BotOK
<1>8. TablesOK' /\ AnswersOK' /\ MessagesOK'
  BY <1>2, <1>3, TablesKept, AnswersKept DEF Core, MessagesOK
<1>9. CASE bot.busy \/ (~ mentioned /\ since < bot.threshold)
  <2>1. call' = [call EXCEPT ![h] = c]
    BY <1>4, <1>9 DEF ObserveMessage, Goto
  <2> DEFINE pending == IF mentioned THEN m ELSE bot.pending
  <2>2. bot' = [bot EXCEPT !.since = since, !.pending = pending]
    BY <1>0, <1>9 DEF ObserveMessage
  <2>3. call'[h] = c /\ \A g \in Workers : g # h => call'[g] = call[g]
    BY <2>1, BotIsNoHandler DEF Core, CallsOK
  <2>4. pending \in DOMAIN messages \cup {None} /\ (pending # None => messages[pending].sender \in Users)
    BY <1>1, <1>7 DEF Core, BotOK
  <2>5. pending # None => bot.busy
    BY <1>9 DEF Core, BotOK, BotTakesUpMentions
  <2>6. since \in Nat
    BY <1>7
  <2> HIDE DEF pending, since
  <2>7. /\ bot' \in [since : Nat, threshold : MinGap..MaxGap, busy : BOOLEAN,
                     pending : DOMAIN messages \cup {None}]
        /\ bot'.pending = pending /\ bot'.busy = bot.busy
    BY <1>7, <2>2, <2>4, <2>6
  <2>8. call'[Bot] = call[Bot]
    BY <2>3, BotIsNoHandler
  <2>9. BotTakesUpMentions'
    BY <2>5, <2>7, <2>8 DEF Core, BotOK, BotTakesUpMentions
  <2>10. BotOK'
    BY <1>2, <2>4, <2>7, <2>8, <2>9 DEF Core, BotOK
  <2>11. CallsOK'
    BY <1>1, <1>3, <1>5, <1>6, <2>1, CallsMove DEF Core
  <2>12. /\ \A g \in Workers : Telling(g)' => call'[g] = call[g]
         /\ \A g \in Handlers : call[g].step = "withdraw" => call'[g] = call[g]
    BY <1>1, <1>5, <2>3, BotIsNoHandler DEF Telling
  <2>13. OnceOK' /\ MentionsOK'
    BY <1>2, <2>12, OnceKept, MentionsKept DEF Core, alerts
  <2> QED BY <1>2, <1>3, <1>8, <2>10, <2>11, <2>13, UniqueKept DEF Core
<1>10. CASE ~ (bot.busy \/ (~ mentioned /\ since < bot.threshold))
  <2>1. PICK gap \in MinGap..MaxGap :
          bot' = [bot EXCEPT !.since = 0, !.threshold = gap, !.busy = TRUE]
    BY <1>0, <1>10 DEF ObserveMessage
  <2>2. PICK b : b = BotStarts(IF mentioned THEN m ELSE None)
    OBVIOUS
  <2>3. /\ b \in CallType /\ b.step = "reply" /\ b.user = Bot /\ b.client = None
        /\ b.id = IF mentioned THEN m ELSE None
    <3>1. m \in Ids
      BY <1>1 DEF Core, MessagesOK
    <3> HIDE DEF mentioned
    <3>2. b = [step |-> "reply", op |-> "bot", user |-> Bot, client |-> None,
               id |-> IF mentioned THEN m ELSE None, at |-> 0, to |-> "nobody", found |-> {},
               verdict |-> "none"]
      BY <2>2 DEF BotStarts, Idle
    <3> QED BY <3>1, <3>2, MessagesAssumption DEF CallType, BotSteps
  <2>4. call' = [call EXCEPT ![h] = c, ![Bot] = b]
    <3>1. call' = [call EXCEPT ![h].step = "answer", ![Bot] = b]
      BY <1>0, <1>10, <2>2 DEF ObserveMessage
    <3> QED BY <3>1, <1>4
  <2> HIDE DEF mentioned, since
  <2>5. call'[h] = c /\ call'[Bot] = b /\ \A g \in Workers : g # h /\ g # Bot => call'[g] = call[g]
    BY <2>4, BotIsNoHandler DEF Core, CallsOK
  <2>6. call' \in [Workers -> CallType]
    BY <1>5, <2>3, <2>4, BotIsNoHandler DEF Core, CallsOK
  <2>7. \A g \in Workers : call'[g].id \in DOMAIN messages' \cup {None}
    BY <1>1, <1>2, <1>5, <2>3, <2>5 DEF Core, CallsOK
  <2>8. \A g \in Handlers : Fits(call[g])'
    <3> SUFFICES ASSUME NEW g \in Handlers PROVE Fits(call[g])'
      OBVIOUS
    <3>1. PICK d : d = call'[g]
      OBVIOUS
    <3>2. Fits(d)
      BY <1>6, <2>5, <3>1, BotIsNoHandler DEF Core, CallsOK
    <3>3. Fits(d)'
      BY <1>3, <3>2, FitsKept
    <3> QED BY <3>1, <3>3 DEF Fits
  <2>9. CallsOK'
    BY <2>6, <2>7, <2>8 DEF CallsOK
  <2>10. /\ bot' \in [since : Nat, threshold : MinGap..MaxGap, busy : BOOLEAN,
                      pending : DOMAIN messages \cup {None}]
         /\ bot'.pending = bot.pending /\ bot'.busy = TRUE
    BY <1>7, <2>1
  <2>11. b # Idle
    BY <2>3, IdleOK
  <2>12. BotTakesUpMentions'
    BY <2>5, <2>10, <2>11 DEF BotTakesUpMentions
  <2>13. BotOK'
    BY <1>1, <1>2, <2>3, <2>5, <2>10, <2>12 DEF Core, BotOK, BotSteps
  <2>14. /\ \A g \in Workers : Telling(g)' => call'[g] = call[g]
         /\ \A g \in Handlers : call[g].step = "withdraw" => call'[g] = call[g]
    BY <1>1, <1>5, <2>3, <2>5, BotIsNoHandler DEF Telling
  <2>15. OnceOK' /\ MentionsOK'
    BY <1>2, <2>14, OnceKept, MentionsKept DEF Core, alerts
  <2> QED BY <1>2, <1>3, <1>8, <2>9, <2>13, <2>15, UniqueKept DEF Core
<1> QED BY <1>9, <1>10

LEMMA AnswerOK ==
    ASSUME Core, NEW h \in Handlers, Answer(h)
    PROVE  Core' /\ Grows
<1>0. PICK user, client, id : user = call[h].user /\ client = call[h].client /\ id = call[h].id
  OBVIOUS
<1>1. UNCHANGED <<now, messages, rules, alerts, bot, restarts>> /\ call' = [call EXCEPT ![h] = Idle]
  BY DEF Answer, bounds, End
<1>2. /\ user \in Users /\ client \in Clients /\ id \in Existing(user, client) /\ id \in DOMAIN messages
      /\ call[h].step = "answer"
  BY <1>0, BotIsNoHandler DEF Core, CallsOK, Fits, Answer, At, Existing
<1>3. Grows
  BY <1>1, Still DEF rules
<1>4. \A u, c : Existing(u, c)' = Existing(u, c)
  BY <1>1 DEF Existing
<1> DEFINE key == <<user, client>>
           all == <<user, client, id>>
<1>5. answers' = Inserted(answers, key, id) /\ told' = told \cup {all}
  BY <1>0 DEF Answer
<1>6. key \in Users \X Clients /\ key[1] = user /\ key[2] = client
  BY <1>2
<1>7. all \in Users \X Clients \X (DOMAIN messages) /\ all[1] = user /\ all[2] = client /\ all[3] = id
  BY <1>2
<1> HIDE DEF key, all
<1>8. DOMAIN answers' = DOMAIN answers \cup {key}
      /\ \A k \in DOMAIN answers' : answers'[k] = IF k \in DOMAIN answers THEN answers[k] ELSE id
  BY <1>5 DEF Inserted
<1>9. AnswersOK'
  <2>1. DOMAIN answers' \subseteq Users \X Clients
    BY <1>6, <1>8 DEF Core, AnswersOK
  <2>2. \A k \in DOMAIN answers' : answers'[k] \in Existing(k[1], k[2])'
    BY <1>2, <1>4, <1>6, <1>8 DEF Core, AnswersOK
  <2>3. told' \subseteq Users \X Clients \X (DOMAIN messages')
    BY <1>1, <1>5, <1>7 DEF Core, AnswersOK
  <2>4. \A t \in told' : t[3] \in Existing(t[1], t[2])'
    BY <1>2, <1>4, <1>5, <1>7 DEF Core, AnswersOK
  <2> QED BY <2>1, <2>2, <2>3, <2>4 DEF AnswersOK
<1>10. TablesOK'
  BY <1>1, TablesKept DEF Core
<1> QED BY <1>1, <1>2, <1>3, <1>9, <1>10, IdleOK, Moves

-----------------------------------------------------------------------------
(* Reading, recalling and deleting *)

LEMMA MarkReadOK ==
    ASSUME Core, NEW h \in Handlers, NEW u \in Users, NEW m, MarkRead(h, u, m)
    PROVE  Core' /\ Grows
<1>1. PICK c : c = [Idle EXCEPT !.step = "ensure", !.op = "read", !.user = u, !.id = m]
  OBVIOUS
<1>2. m \in DOMAIN messages /\ m \in Ids
  BY DEF MarkRead, Core, MessagesOK
<1>3. c = [step |-> "ensure", op |-> "read", user |-> u, client |-> None, id |-> m, at |-> 0,
           to |-> "nobody", found |-> {}, verdict |-> "none"]
  BY <1>1 DEF Idle
<1>4. c \in CallType /\ c.step = "ensure" /\ c.op = "read" /\ c.user = u /\ c.id = m
  BY <1>2, <1>3, MessagesAssumption DEF CallType, HandlerSteps
<1>5. Fits(c)
  BY <1>2, <1>4 DEF Fits, HandlerSteps
<1>6. Start(h, c) /\ UNCHANGED <<now, messages, answers, told, rules, alerts, bot, restarts>>
  BY <1>1 DEF MarkRead, Begin
<1> QED BY <1>2, <1>4, <1>5, <1>6, Begins

\* A request goes on with the next step, or ends.
LEMMA GoesOn ==
    ASSUME Core, NEW h \in Handlers, NEW step \in HandlerSteps, Goto(h, step)
    PROVE  \E c \in CallType : /\ c.step = step /\ c.id = call[h].id /\ c.user = call[h].user
                               /\ c.client = call[h].client /\ c.op = call[h].op
                               /\ c.verdict = call[h].verdict
                               /\ c.id \in DOMAIN messages \cup {None}
                               /\ call' = [call EXCEPT ![h] = c]
<1>1. call[h] \in CallType /\ call[h].id \in DOMAIN messages \cup {None}
  BY BotIsNoHandler DEF Core, CallsOK
<1>2. PICK c : c = [call[h] EXCEPT !.step = step]
  OBVIOUS
<1>3. /\ c \in CallType /\ c.step = step /\ c.id = call[h].id /\ c.user = call[h].user
      /\ c.client = call[h].client /\ c.op = call[h].op /\ c.verdict = call[h].verdict
  BY <1>1, <1>2 DEF CallType
<1>4. call' = [call EXCEPT ![h] = c]
  BY <1>2 DEF Goto
<1> QED BY <1>1, <1>3, <1>4

LEMMA CursorOK ==
    ASSUME Core, NEW u \in Users, NEW m \in DOMAIN messages \cup {None},
           cursor[u] # None => m # None, cursor' = [cursor EXCEPT ![u] = m],
           UNCHANGED <<messages, answers, told, level, policy, requests, hidden, alerts, restarts>>
    PROVE  /\ TablesOK' /\ AnswersOK' /\ Grows
           /\ cursor'[u] = m /\ \A v \in Users \ {u} : cursor'[v] = cursor[v]
<1>1. /\ cursor' \in [Users -> DOMAIN messages \cup {None}]
      /\ cursor'[u] = m /\ \A v \in Users \ {u} : cursor'[v] = cursor[v]
  BY DEF Core, TablesOK
<1>2. TablesOK'
  BY <1>1 DEF Core, TablesOK, alerts
<1>3. Grows
  BY <1>1 DEF Grows
<1> QED BY <1>1, <1>2, <1>3, AnswersKept DEF Core

LEMMA EnsureCursorOK ==
    ASSUME Core, NEW h \in Handlers, EnsureCursor(h)
    PROVE  Core' /\ Grows
<1>0. PICK u, m : u = call[h].user /\ m = IF cursor[u] = None THEN call[h].id ELSE cursor[u]
  OBVIOUS
<1>1. Fits(call[h]) /\ call[h].step = "ensure" /\ u \in Users /\ call[h].id \in DOMAIN messages
  BY <1>0 DEF Core, CallsOK, Fits, EnsureCursor, At
<1>2. cursor[u] \in DOMAIN messages \cup {None} /\ call[h].id # None
  BY <1>1, MessagesAssumption DEF Core, TablesOK, MessagesOK
<1>3. m \in DOMAIN messages /\ m # None
  BY <1>0, <1>1, <1>2, MessagesAssumption DEF Core, MessagesOK
<1>4. UNCHANGED <<now, messages, answers, told, level, policy, requests, hidden, alerts, bot, restarts>>
  BY DEF EnsureCursor, bounds
<1>5. cursor' = [cursor EXCEPT ![u] = m]
  BY <1>0 DEF EnsureCursor
<1>6. TablesOK' /\ AnswersOK' /\ Grows /\ cursor'[u] = m /\ \A v \in Users \ {u} : cursor'[v] = cursor[v]
  BY <1>1, <1>3, <1>4, <1>5, CursorOK
<1>7. PICK c \in CallType : /\ c.step = "advance" /\ c.id = call[h].id /\ c.user = u
                            /\ c.op = call[h].op /\ c.verdict = call[h].verdict
                            /\ c.id \in DOMAIN messages \cup {None}
                            /\ call' = [call EXCEPT ![h] = c]
  BY <1>0, GoesOn DEF EnsureCursor, HandlerSteps
<1>8. call'[h] = c /\ \A g \in Workers : g # h => call'[g] = call[g]
  BY <1>7, BotIsNoHandler DEF Core, CallsOK
<1>9. Fits(c)'
  BY <1>1, <1>3, <1>4, <1>6, <1>7 DEF Fits, HandlerSteps
<1>10. CallsOK'
  <2>1. ASSUME NEW g \in Handlers PROVE Fits(call[g])'
    <3>1. PICK d : d = call'[g]
      OBVIOUS
    <3>2. Fits(d)'
      <4>1. CASE g = h
        BY <1>8, <1>9, <3>1, <4>1
      <4>2. CASE g # h
        BY <1>6, <1>8, <3>1, <4>2, FitsKept, BotIsNoHandler DEF Core, CallsOK
      <4> QED BY <4>1, <4>2
    <3> QED BY <3>1, <3>2 DEF Fits
  <2>2. call' \in [Workers -> CallType]
    BY <1>7, BotIsNoHandler DEF Core, CallsOK
  <2>3. \A g \in Workers : call'[g].id \in DOMAIN messages' \cup {None}
    BY <1>4, <1>7, <1>8 DEF Core, CallsOK
  <2> QED BY <2>1, <2>2, <2>3 DEF CallsOK
<1>11. /\ \A g \in Workers : Telling(g)' => call'[g] = call[g]
       /\ \A g \in Handlers : call[g].step = "withdraw" => call'[g] = call[g]
  BY <1>1, <1>7, <1>8, BotIsNoHandler DEF Telling
<1>12. OnceOK' /\ MentionsOK'
  BY <1>4, <1>11, OnceKept, MentionsKept DEF Core, alerts
<1>13. BotOK' /\ UniqueOK' /\ MessagesOK'
  BY <1>4, <1>6, <1>8, BotKept, UniqueKept, BotIsNoHandler DEF Core, MessagesOK
<1> QED BY <1>6, <1>10, <1>12, <1>13 DEF Core

LEMMA AdvanceCursorOK ==
    ASSUME Core, NEW h \in Handlers, AdvanceCursor(h)
    PROVE  Core' /\ Grows
<1>0. PICK u, m : u = call[h].user /\ m = IF Before(cursor[u], call[h].id) THEN call[h].id ELSE cursor[u]
  OBVIOUS
<1>1. /\ Fits(call[h]) /\ call[h].step = "advance" /\ u \in Users
      /\ call[h].id \in DOMAIN messages /\ cursor[u] # None
  BY <1>0 DEF Core, CallsOK, Fits, AdvanceCursor, At
<1>2. m \in DOMAIN messages /\ m # None
  BY <1>0, <1>1, MessagesAssumption DEF Core, TablesOK, MessagesOK
<1>3. UNCHANGED <<now, messages, answers, told, level, policy, requests, hidden, alerts, bot, restarts>>
  BY DEF AdvanceCursor, bounds
<1>4. cursor' = [cursor EXCEPT ![u] = m] /\ call' = [call EXCEPT ![h] = Idle]
  BY <1>0 DEF AdvanceCursor, End
<1>5. TablesOK' /\ AnswersOK' /\ Grows
  BY <1>1, <1>2, <1>3, <1>4, CursorOK
<1> QED BY <1>1, <1>3, <1>4, <1>5, IdleOK, Moves

LEMMA RecallMessageOK ==
    ASSUME Core, NEW h \in Handlers, NEW u \in Users, NEW m, RecallMessage(h, u, m)
    PROVE  Core' /\ Grows
<1>1. m \in DOMAIN messages /\ m \in Ids
  BY DEF RecallMessage, Core, MessagesOK
<1>2. PICK step \in {"wipe", "ask"} :
        Start(h, [[Idle EXCEPT !.op = "recall", !.user = u, !.id = m] EXCEPT !.step = step])
  BY DEF RecallMessage
<1>3. PICK c : c = [[Idle EXCEPT !.op = "recall", !.user = u, !.id = m] EXCEPT !.step = step]
  OBVIOUS
<1>4. c = [step |-> step, op |-> "recall", user |-> u, client |-> None, id |-> m, at |-> 0,
           to |-> "nobody", found |-> {}, verdict |-> "none"]
  BY <1>3 DEF Idle
<1>5. c \in CallType /\ c.step = step /\ c.op = "recall" /\ c.user = u /\ c.id = m
  BY <1>1, <1>4, MessagesAssumption DEF CallType, HandlerSteps
<1>6. Fits(c)
  BY <1>1, <1>5 DEF Fits, HandlerSteps
<1>7. Start(h, c) /\ UNCHANGED <<now, messages, answers, told, rules, alerts, bot, restarts>>
  BY <1>2, <1>3 DEF RecallMessage, Begin
<1> QED BY <1>1, <1>5, <1>6, <1>7, Begins

LEMMA ForceDeleteOK ==
    ASSUME Core, NEW h \in Handlers, NEW u \in Users, NEW m, ForceDelete(h, u, m)
    PROVE  Core' /\ Grows
<1>1. PICK c : c = [Idle EXCEPT !.step = "wipe", !.op = "force", !.user = u, !.id = m]
  OBVIOUS
<1>2. m \in DOMAIN messages /\ m \in Ids
  BY DEF ForceDelete, Core, MessagesOK
<1>3. c = [step |-> "wipe", op |-> "force", user |-> u, client |-> None, id |-> m, at |-> 0,
           to |-> "nobody", found |-> {}, verdict |-> "none"]
  BY <1>1 DEF Idle
<1>4. c \in CallType /\ c.step = "wipe" /\ c.op = "force" /\ c.user = u /\ c.id = m
  BY <1>2, <1>3, MessagesAssumption DEF CallType, HandlerSteps
<1>5. Fits(c)
  BY <1>2, <1>4 DEF Fits, HandlerSteps
<1>6. Start(h, c) /\ UNCHANGED <<now, messages, answers, told, rules, alerts, bot, restarts>>
  BY <1>1 DEF ForceDelete, Begin
<1> QED BY <1>2, <1>4, <1>5, <1>6, Begins

LEMMA ReviewRecallOK ==
    ASSUME Core, NEW h \in Handlers, NEW u \in Users, NEW k \in DOMAIN requests,
           NEW verdict \in {"approved", "rejected"}, ReviewRecall(h, u, k, verdict)
    PROVE  Core' /\ Grows
<1> DEFINE step == IF verdict = "approved" THEN "wipe" ELSE "settle"
<1>1. PICK user, m : user = k[2] /\ m = k[1]
  OBVIOUS
<1>2. user \in Users /\ m \in DOMAIN messages /\ m \in Ids
  BY <1>1 DEF Core, TablesOK, MessagesOK
<1>3. PICK c : c = [Idle EXCEPT !.step = step, !.op = "review", !.user = user, !.id = m,
                                !.verdict = verdict]
  OBVIOUS
<1>4. Start(h, c) /\ UNCHANGED <<now, messages, answers, told, rules, alerts, bot, restarts>>
  BY <1>1, <1>3 DEF ReviewRecall, Begin
<1>5. step \in {"wipe", "settle"}
  OBVIOUS
<1> HIDE DEF step
<1>6. c = [step |-> step, op |-> "review", user |-> user, client |-> None, id |-> m, at |-> 0,
           to |-> "nobody", found |-> {}, verdict |-> verdict]
  BY <1>3 DEF Idle
<1>7. /\ c \in CallType /\ c.step = step /\ c.op = "review" /\ c.user = user /\ c.id = m
      /\ c.verdict = verdict
  BY <1>2, <1>5, <1>6, MessagesAssumption DEF CallType, HandlerSteps
<1>8. Fits(c)
  BY <1>2, <1>5, <1>7 DEF Fits, HandlerSteps
<1> QED BY <1>2, <1>4, <1>5, <1>7, <1>8, Begins

LEMMA AskForRecallOK ==
    ASSUME Core, NEW h \in Handlers, AskForRecall(h)
    PROVE  Core' /\ Grows
<1>0. PICK key : key = <<call[h].id, call[h].user>>
  OBVIOUS
<1>1. call[h].step = "ask" /\ key \in (DOMAIN messages) \X Users
  BY <1>0 DEF Core, CallsOK, Fits, AskForRecall, At
<1>2. UNCHANGED <<now, messages, answers, told, cursor, level, policy, hidden, alerts, bot, restarts>>
  BY DEF AskForRecall, bounds
<1>3. requests' = Inserted(requests, key, "pending") /\ call' = [call EXCEPT ![h] = Idle]
  BY <1>0 DEF AskForRecall, End
<1>4. TablesOK'
  <2>1. /\ DOMAIN requests' = DOMAIN requests \cup {key}
        /\ requests' \in [DOMAIN requests' -> {"pending", "approved", "rejected"}]
    BY <1>3 DEF Inserted, Core, TablesOK
  <2> QED BY <1>1, <1>2, <2>1 DEF Core, TablesOK, alerts
<1>5. Grows
  BY <1>2, Still
<1>6. AnswersOK'
  BY <1>2, <1>5, AnswersKept DEF Core
<1> QED BY <1>1, <1>2, <1>3, <1>4, <1>5, <1>6, IdleOK, Moves

LEMMA SettleRequestOK ==
    ASSUME Core, NEW h \in Handlers, SettleRequest(h)
    PROVE  Core' /\ Grows
<1>0. PICK key, verdict : key = <<call[h].id, call[h].user>> /\ verdict = call[h].verdict
  OBVIOUS
<1>1. call[h].step = "settle" /\ verdict \in {"approved", "rejected"}
  BY <1>0 DEF Core, CallsOK, Fits, SettleRequest, At
<1>2. UNCHANGED <<now, messages, answers, told, cursor, level, policy, hidden, alerts, bot, restarts>>
  BY DEF SettleRequest, bounds
<1>3. requests' = [requests EXCEPT ![key] = verdict] /\ call' = [call EXCEPT ![h] = Idle]
  BY <1>0 DEF SettleRequest, End
<1>4. TablesOK'
  <2>1. /\ DOMAIN requests' = DOMAIN requests
        /\ requests' \in [DOMAIN requests' -> {"pending", "approved", "rejected"}]
    BY <1>1, <1>3 DEF Core, TablesOK
  <2> QED BY <1>2, <2>1 DEF Core, TablesOK, alerts
<1>5. Grows
  BY <1>2, Still
<1>6. AnswersOK'
  BY <1>2, <1>5, AnswersKept DEF Core
<1> QED BY <1>1, <1>2, <1>3, <1>4, <1>5, <1>6, IdleOK, Moves

LEMMA WipeMessageOK ==
    ASSUME Core, NEW h \in Handlers, WipeMessage(h)
    PROVE  Core' /\ Grows
<1>0. PICK m : m = call[h].id
  OBVIOUS
<1>1. /\ call[h].step = "wipe" /\ Fits(call[h]) /\ m \in DOMAIN messages /\ m \in Ids
      /\ messages[m] \in Message
  <2>1. call[h].step = "wipe" /\ Fits(call[h])
    BY DEF Core, CallsOK, WipeMessage, At
  <2> QED BY <1>0, <2>1 DEF Fits, Core, MessagesOK
<1>2. UNCHANGED <<now, answers, told, rules, notes, queue, pushed, bot, restarts>>
  BY DEF WipeMessage, bounds
<1>3. PICK r : r = [messages[m] EXCEPT !.wiped = TRUE, !.to = "nobody"]
  OBVIOUS
<1>4. /\ r \in Message /\ r.wiped = TRUE /\ r.sender = messages[m].sender /\ r.client = messages[m].client
      /\ r.at = messages[m].at /\ r.kind = messages[m].kind
  BY <1>1, <1>3 DEF Message
<1>5. messages' = [messages EXCEPT ![m] = r]
  BY <1>0, <1>3 DEF WipeMessage
<1>6. /\ DOMAIN messages' = DOMAIN messages /\ messages'[m] = r
      /\ \A n \in DOMAIN messages : n # m => messages'[n] = messages[n]
      /\ messages' \in [DOMAIN messages -> Message]
  BY <1>1, <1>4, <1>5 DEF Core, MessagesOK
<1>7. MessagesOK'
  BY <1>2, <1>6 DEF Core, MessagesOK
<1>8. Grows
  BY <1>2, <1>4, <1>6 DEF Grows, rules
<1>9. PICK c \in CallType : /\ c.step = "withdraw" /\ c.id = m /\ c.user = call[h].user
                            /\ c.op = call[h].op /\ c.verdict = call[h].verdict
                            /\ c.id \in DOMAIN messages \cup {None}
                            /\ call' = [call EXCEPT ![h] = c]
  BY <1>0, GoesOn DEF WipeMessage, HandlerSteps
<1>10. call'[h] = c /\ \A g \in Workers : g # h => call'[g] = call[g]
  BY <1>9, BotIsNoHandler DEF Core, CallsOK
<1>11. Fits(c)
  BY <1>1, <1>9 DEF Fits, HandlerSteps
<1>12. CallsOK' /\ BotOK'
  BY <1>2, <1>8, <1>9, <1>10, <1>11, CallsMove, BotKept, BotIsNoHandler DEF Core
<1>13. /\ overtaken \subseteq overtaken' /\ overtaken' \subseteq overtaken \cup {m}
       /\ \A g \in Workers : Telling(g) /\ call[g].id = m => m \in overtaken'
  BY <1>0 DEF WipeMessage, Telling
<1>14. TablesOK'
  BY <1>1, <1>2, <1>6, <1>13 DEF Core, TablesOK, rules
<1>15. \A g \in Workers : Telling(g)' => Telling(g) /\ call'[g] = call[g]
  <2>1. Telling(h)' => FALSE
    BY <1>9, <1>10 DEF Telling
  <2> QED BY <1>10, <2>1 DEF Telling
<1>16. OnceOK'
  <2>1. \A g \in Workers : Telling(g)' => \A u \in Users : notes'[call'[g].id][u] = 0
    BY <1>2, <1>15 DEF Core, OnceOK
  <2>2. \A g, f \in Workers : Telling(g)' /\ Telling(f)' /\ g # f => call'[g].id # call'[f].id
    BY <1>15 DEF Core, OnceOK
  <2>3. \A g \in Workers : call'[g].step = "announce" => Telling(g)'
    BY DEF Telling
  <2>4. \A g \in Workers : call'[g].step = "announce" =>
          /\ \A u \in Users : pushed'[call'[g].id][u] = 0
          /\ \A i \in DOMAIN queue' : queue'[i] # call'[g].id
    BY <1>2, <1>15, <2>3 DEF Core, OnceOK
  <2> QED BY <1>2, <1>6, <2>1, <2>2, <2>4 DEF Core, OnceOK
<1>17. MentionsOK'
  <2>1. MentionsAreWithdrawn'
    <3> SUFFICES ASSUME NEW n \in DOMAIN messages, messages'[n].wiped, \E u \in Users : notes[n][u] > 0
                 PROVE  n \in overtaken' \/ \E g \in Handlers : call'[g].step = "withdraw" /\ call'[g].id = n
      BY <1>2, <1>6 DEF MentionsAreWithdrawn, At
    <3>1. CASE n = m
      BY <1>9, <1>10, <3>1
    <3>2. CASE n # m
      <4>1. n \in overtaken \/ \E g \in Handlers : call[g].step = "withdraw" /\ call[g].id = n
        BY <1>6, <3>2 DEF Core, MentionsOK, MentionsAreWithdrawn, At
      <4> QED BY <4>1, <1>1, <1>10, <1>13, BotIsNoHandler
    <3> QED BY <3>1, <3>2
  <2>2. \A g \in Workers : Telling(g)' /\ messages'[call'[g].id].wiped => call'[g].id \in overtaken'
    <3> SUFFICES ASSUME NEW g \in Workers, Telling(g), call'[g] = call[g], messages'[call[g].id].wiped
                 PROVE  call[g].id \in overtaken'
      BY <1>15
    <3>1. call[g].id \in DOMAIN messages
      BY TellersKnow DEF Core
    <3> QED BY <3>1, <1>6, <1>13 DEF Core, MentionsOK
  <2> QED BY <2>1, <2>2 DEF MentionsOK
<1>18. AnswersOK' /\ UniqueOK'
  BY <1>2, <1>6, <1>8, AnswersKept, UniqueKept DEF Core
<1> QED BY <1>7, <1>8, <1>12, <1>14, <1>16, <1>17, <1>18 DEF Core

\* Notifications go, as calls that tell nobody move on.
LEMMA NotesGo ==
    ASSUME Core, notes' \in [Ids -> [Users -> Nat]],
           \A m \in Ids, u \in Users : notes'[m][u] <= notes[m][u],
           UNCHANGED <<now, messages, answers, told, rules, queue, pushed, overtaken, bot, restarts>>,
           CallsOK', call'[Bot] = call[Bot],
           \A g \in Workers : Telling(g)' => call'[g] = call[g],
           \A g \in Handlers : call[g].step = "withdraw" =>
              call'[g] = call[g] \/ \A u \in Users : notes'[call[g].id][u] = 0
    PROVE  Core' /\ Grows
<1>1. Grows
  BY Still DEF rules
<1>2. TablesOK' /\ MessagesOK'
  BY DEF Core, TablesOK, MessagesOK, rules
<1>3. AnswersOK' /\ UniqueOK' /\ BotOK'
  BY <1>1, AnswersKept, UniqueKept, BotKept DEF Core
<1>4. \A g \in Workers : Telling(g)' => Telling(g) /\ call'[g] = call[g]
  BY DEF Telling
<1>5. OnceOK'
  <2>1. \A m \in Ids, u \in Users : notes[m][u] \in Nat /\ notes'[m][u] \in Nat
    BY DEF Core, TablesOK
  <2>2. \A m \in Ids, u \in Users : /\ notes'[m][u] <= 1 /\ pushed'[m][u] <= 1
                                    /\ m \notin DOMAIN messages' => notes'[m][u] = 0 /\ pushed'[m][u] = 0
    BY <2>1 DEF Core, OnceOK
  <2>3. ASSUME NEW g \in Workers, Telling(g)', NEW u \in Users PROVE notes'[call'[g].id][u] = 0
    <3>1. call'[g] = call[g] /\ Telling(g) /\ call[g].id \in Ids
      BY <1>4, <2>3, TellersKnow DEF Core, MessagesOK
    <3> QED BY <3>1, <2>1 DEF Core, OnceOK
  <2>4. \A g, f \in Workers : Telling(g)' /\ Telling(f)' /\ g # f => call'[g].id # call'[f].id
    BY <1>4 DEF Core, OnceOK
  <2>5. \A g \in Workers : call'[g].step = "announce" => Telling(g)'
    BY DEF Telling
  <2>6. \A g \in Workers : call'[g].step = "announce" =>
          /\ \A u \in Users : pushed'[call'[g].id][u] = 0
          /\ \A i \in DOMAIN queue' : queue'[i] # call'[g].id
    BY <1>4, <2>5 DEF Core, OnceOK
  <2> QED BY <2>2, <2>3, <2>4, <2>6 DEF Core, OnceOK
<1>6. MentionsOK'
  <2>1. MentionsAreWithdrawn'
    <3> SUFFICES ASSUME NEW m \in DOMAIN messages, messages[m].wiped, NEW u \in Users, notes'[m][u] > 0
                 PROVE  m \in overtaken \/ \E g \in Handlers : call'[g].step = "withdraw" /\ call'[g].id = m
      BY DEF MentionsAreWithdrawn, At
    <3>1. notes[m][u] > 0
      BY DEF Core, MessagesOK, TablesOK
    <3>2. m \in overtaken \/ \E g \in Handlers : call[g].step = "withdraw" /\ call[g].id = m
      BY <3>1 DEF Core, MentionsOK, MentionsAreWithdrawn, At
    <3> QED BY <3>2
  <2>2. \A g \in Workers : Telling(g)' /\ messages'[call'[g].id].wiped => call'[g].id \in overtaken'
    BY <1>4 DEF Core, MentionsOK
  <2> QED BY <2>1, <2>2 DEF MentionsOK
<1> QED BY <1>1, <1>2, <1>3, <1>5, <1>6 DEF Core

LEMMA WithdrawNotesOK ==
    ASSUME Core, NEW h \in Handlers, WithdrawNotes(h)
    PROVE  Core' /\ Grows
<1>0. PICK id : id = call[h].id
  OBVIOUS
<1>1. /\ call[h].step = "withdraw" /\ Fits(call[h]) /\ id \in DOMAIN messages /\ id \in Ids
      /\ notes \in [Ids -> [Users -> Nat]]
  <2>1. call[h].step = "withdraw" /\ Fits(call[h])
    BY DEF Core, CallsOK, WithdrawNotes, At
  <2> QED BY <1>0, <2>1 DEF Fits, Core, MessagesOK, TablesOK
<1>2. UNCHANGED <<now, messages, answers, told, rules, queue, pushed, overtaken, bot, restarts>>
  BY DEF WithdrawNotes, bounds
<1>3. PICK row : row = [u \in Users |-> 0]
  OBVIOUS
<1>4. row \in [Users -> Nat] /\ \A u \in Users : row[u] = 0
  BY <1>3
<1>5. notes' = [notes EXCEPT ![id] = row]
  BY <1>0, <1>3 DEF WithdrawNotes
<1>6. /\ notes' \in [Ids -> [Users -> Nat]] /\ notes'[id] = row
      /\ \A m \in Ids : m # id => notes'[m] = notes[m]
  BY <1>1, <1>4, <1>5
<1>7. \A m \in Ids, u \in Users : notes'[m][u] <= notes[m][u]
  <2> SUFFICES ASSUME NEW m \in Ids, NEW u \in Users PROVE notes'[m][u] <= notes[m][u]
    OBVIOUS
  <2>1. notes[m][u] \in Nat
    BY <1>1
  <2> QED BY <2>1, <1>4, <1>6
<1>8. PICK c \in CallType : /\ c.step \in {"settle", "idle"} /\ c.id \in DOMAIN messages \cup {None}
                            /\ Fits(c) /\ call' = [call EXCEPT ![h] = c]
  <2>1. CASE call[h].op = "review"
    <3>1. Goto(h, "settle") /\ call[h].verdict \in {"approved", "rejected"}
      BY <1>1, <2>1 DEF WithdrawNotes, Fits
    <3>2. PICK c \in CallType : /\ c.step = "settle" /\ c.op = "review" /\ c.verdict = call[h].verdict
                                /\ c.id \in DOMAIN messages \cup {None}
                                /\ call' = [call EXCEPT ![h] = c]
      BY <2>1, <3>1, GoesOn DEF HandlerSteps
    <3>3. Fits(c)
      BY <3>1, <3>2 DEF Fits, HandlerSteps
    <3> QED BY <3>2, <3>3
  <2>2. CASE call[h].op # "review"
    <3>1. call' = [call EXCEPT ![h] = Idle]
      BY <2>2 DEF WithdrawNotes, End
    <3> QED BY <3>1, IdleOK
  <2> QED BY <2>1, <2>2
<1>9. call'[h] = c /\ \A g \in Workers : g # h => call'[g] = call[g]
  BY <1>8, BotIsNoHandler DEF Core, CallsOK
<1>10. CallsOK'
  BY <1>2, <1>8, Still, CallsMove DEF Core, rules
<1>11. /\ \A g \in Workers : Telling(g)' => call'[g] = call[g]
       /\ call'[Bot] = call[Bot]
       /\ \A g \in Handlers : call[g].step = "withdraw" =>
              call'[g] = call[g] \/ \A u \in Users : notes'[call[g].id][u] = 0
  BY <1>0, <1>4, <1>6, <1>8, <1>9, BotIsNoHandler DEF Telling
<1> QED BY <1>2, <1>6, <1>7, <1>10, <1>11, NotesGo

LEMMA DismissNoteOK ==
    ASSUME Core, NEW u \in Users, NEW m \in DOMAIN messages, DismissNote(u, m)
    PROVE  Core' /\ Grows
<1>1. notes \in [Ids -> [Users -> Nat]] /\ m \in Ids
  BY DEF Core, TablesOK, MessagesOK
<1>2. UNCHANGED <<now, messages, answers, told, rules, queue, pushed, overtaken, bot, call, restarts>>
  BY DEF DismissNote, Begin
<1>3. notes' = [notes EXCEPT ![m][u] = 0]
  BY DEF DismissNote
<1>4. /\ notes' \in [Ids -> [Users -> Nat]]
      /\ \A n \in Ids, v \in Users : notes'[n][v] = IF n = m /\ v = u THEN 0 ELSE notes[n][v]
  BY <1>1, <1>3
<1>5. \A n \in Ids, v \in Users : notes'[n][v] <= notes[n][v]
  <2> SUFFICES ASSUME NEW n \in Ids, NEW v \in Users PROVE notes'[n][v] <= notes[n][v]
    OBVIOUS
  <2>1. notes[n][v] \in Nat
    BY <1>1
  <2> QED BY <2>1, <1>4
<1>6. CallsOK'
  BY <1>2, Still, CallsKept DEF Core, rules
<1> QED BY <1>2, <1>4, <1>5, <1>6, NotesGo

-----------------------------------------------------------------------------
(* Settings and the clock *)

LEMMA TickOK ==
    ASSUME Core, Tick
    PROVE  Core' /\ Grows
<1>1. /\ UNCHANGED <<messages, answers, told, rules, alerts, bot, call, restarts>>
      /\ now < MaxClock /\ now' = now + 1
  BY DEF Tick, bounds
<1>2. Grows
  BY <1>1, Still DEF rules
<1>3. MessagesOK'
  BY <1>1, MessagesAssumption DEF Core, MessagesOK
<1> QED BY <1>1, <1>2, <1>3, TablesKept, AnswersKept, Rest DEF Core

LEMMA SettingsOK ==
    ASSUME Core, SetPolicy \/ (\E u \in Users : SetLevel(u)) \/ HideHistory
    PROVE  Core' /\ Grows
<1>1. UNCHANGED <<now, messages, answers, told, cursor, requests, alerts, bot, call, restarts>>
  BY DEF SetPolicy, SetLevel, HideHistory, Begin
<1>2. /\ policy' \in {"disabled", "admin_approval", "time_limited"}
      /\ level' \in [Users -> {"all", "muted", "blocked"}]
      /\ hidden \subseteq hidden' /\ hidden' \subseteq DOMAIN messages
  <2>1. CASE SetPolicy
    BY <2>1 DEF SetPolicy, Core, TablesOK
  <2>2. CASE \E u \in Users : SetLevel(u)
    <3>1. PICK u \in Users, l \in {"all", "muted", "blocked"} : level' = [level EXCEPT ![u] = l]
      BY <2>2 DEF SetLevel
    <3>2. level \in [Users -> {"all", "muted", "blocked"}]
      BY DEF Core, TablesOK
    <3>3. level' \in [Users -> {"all", "muted", "blocked"}]
      BY <3>1, <3>2
    <3> QED BY <2>2, <3>3 DEF SetLevel, Core, TablesOK
  <2>3. CASE HideHistory
    BY <2>3 DEF HideHistory, Core, TablesOK
  <2> QED BY <2>1, <2>2, <2>3
<1>3. Grows
  BY <1>1, <1>2 DEF Grows
<1>4. TablesOK' /\ MessagesOK'
  BY <1>1, <1>2 DEF Core, TablesOK, MessagesOK, alerts
<1>5. AnswersOK'
  BY <1>1, <1>3, AnswersKept DEF Core
<1> QED BY <1>1, <1>3, <1>4, <1>5, Rest

LEMMA SystemMessageOK ==
    ASSUME Core, NEW u \in Users, SystemMessage(u)
    PROVE  Core' /\ Grows
<1>1. UNCHANGED <<now, answers, told, rules, alerts, bot, call, restarts>>
  BY DEF SystemMessage, Begin
<1>2. PICK m \in NewIds \ DOMAIN messages, at \in 1..now :
        messages' = Inserted(messages, m, [sender |-> u, client |-> None, at |-> at, to |-> "nobody",
                                           kind |-> "text", wiped |-> FALSE])
  BY DEF SystemMessage
<1>3. PICK r : r = [sender |-> u, client |-> None, at |-> at, to |-> "nobody", kind |-> "text",
                    wiped |-> FALSE]
  OBVIOUS
<1>4. r \in Message /\ r.client = None /\ r.wiped = FALSE
  <2>1. at \in 0..MaxClock
    BY MessagesAssumption DEF Core, MessagesOK
  <2> QED BY <1>3, <2>1 DEF Message
<1>5. /\ Grows /\ MessagesOK'
      /\ DOMAIN messages' = DOMAIN messages \cup {m} /\ messages'[m] = r
      /\ \A n \in DOMAIN messages : messages'[n] = messages[n]
  BY <1>1, <1>2, <1>3, <1>4, Inserts DEF rules
<1>6. UniqueOK'
  BY <1>4, <1>5, UniqueGrown
<1>7. OnceOK' /\ MentionsOK'
  BY <1>1, <1>4, <1>5, ToldGrown, BotIsNoHandler
<1>8. CallsOK' /\ BotOK'
  BY <1>1, <1>5, CallsKept, BotKept DEF Core
<1>9. TablesOK' /\ AnswersOK'
  BY <1>1, <1>5, TablesKept, AnswersKept DEF Core
<1> QED BY <1>5, <1>6, <1>7, <1>8, <1>9 DEF Core

-----------------------------------------------------------------------------
(* Pushes and the bot *)

LEMMA DeliverPushOK ==
    ASSUME Core, DeliverPush
    PROVE  Core' /\ Grows
<1>1. UNCHANGED <<now, messages, answers, told, rules, notes, overtaken, bot, call, restarts>>
  BY DEF DeliverPush, bounds
<1>2. Grows
  BY <1>1, Still DEF rules
<1>3. queue \in Seq(DOMAIN messages) /\ queue # <<>> /\ Len(queue) <= QueueSize /\ Len(queue) \in Nat \ {0}
  BY EmptySeq DEF DeliverPush, Core, TablesOK
<1>4. PICK id : id = queue[1]
  OBVIOUS
<1>5. id = Head(queue) /\ id \in DOMAIN messages /\ id \in Ids /\ 1 \in DOMAIN queue
  BY <1>3, <1>4 DEF Core, MessagesOK
<1>6. /\ queue' \in Seq(DOMAIN messages) /\ Len(queue') <= QueueSize
      /\ \A i \in DOMAIN queue' : i + 1 \in DOMAIN queue /\ queue'[i] = queue[i + 1] /\ i \in Nat \ {0}
  <2>1. queue' = Tail(queue)
    BY DEF DeliverPush
  <2>2. /\ queue' \in Seq(DOMAIN messages) /\ Len(queue') = Len(queue) - 1
        /\ \A i \in 1 .. Len(queue') : queue'[i] = queue[i + 1]
    BY <1>3, <2>1, HeadTailProperties
  <2>3. DOMAIN queue' = 1 .. Len(queue') /\ DOMAIN queue = 1 .. Len(queue)
    BY <1>3, <2>2, LenProperties
  <2> QED BY <1>3, <2>2, <2>3, MessagesAssumption
<1>7. \A i \in DOMAIN queue' : queue'[i] # id /\ queue'[i] \in DOMAIN messages
  <2>1. \A i \in DOMAIN queue : queue[i] = queue[1] => i = 1
    BY <1>5 DEF Core, OnceOK
  <2> QED BY <1>3, <1>4, <1>6, <2>1
<1>8. PICK to : to = PushTargets(id)
  OBVIOUS
<1>9. /\ pushed' \in [Ids -> [Users -> Nat]]
      /\ \A m \in Ids, u \in Users :
            pushed'[m][u] = IF m = id /\ u \in to THEN pushed[m][u] + 1 ELSE pushed[m][u]
  <2>1. pushed \in [Ids -> [Users -> Nat]]
    BY DEF Core, TablesOK
  <2>2. PICK row : row = [u \in Users |-> pushed[id][u] + IF u \in to THEN 1 ELSE 0]
    OBVIOUS
  <2>3. pushed' = [pushed EXCEPT ![id] = row]
    BY <1>5, <1>8, <2>2 DEF DeliverPush, AddRows
  <2>4. row \in [Users -> Nat]
    BY <1>5, <2>1, <2>2
  <2>5. \A u \in Users : row[u] = IF u \in to THEN pushed[id][u] + 1 ELSE pushed[id][u]
    BY <1>5, <2>1, <2>2
  <2> QED BY <1>5, <2>1, <2>3, <2>4, <2>5
<1>10. TablesOK'
  BY <1>1, <1>6, <1>9 DEF Core, TablesOK, rules
<1>11. OnceOK'
  <2>1. \A u \in Users : pushed[id][u] = 0
    BY <1>4, <1>5 DEF Core, OnceOK
  <2>2. \A m \in Ids, u \in Users : /\ notes'[m][u] <= 1 /\ pushed'[m][u] <= 1
                                    /\ m \notin DOMAIN messages' => notes'[m][u] = 0 /\ pushed'[m][u] = 0
    BY <1>1, <1>5, <1>9, <2>1 DEF Core, OnceOK
  <2>3. ASSUME NEW g \in Workers, call[g].step = "announce"
        PROVE  /\ \A u \in Users : pushed'[call[g].id][u] = 0
               /\ \A i \in DOMAIN queue' : queue'[i] # call[g].id
    <3>1. /\ \A u \in Users : pushed[call[g].id][u] = 0
          /\ \A i \in DOMAIN queue : queue[i] # call[g].id
      BY <2>3 DEF Core, OnceOK
    <3>2. call[g].id \in Ids /\ call[g].id # id
      BY <1>4, <1>5, <2>3, <3>1, TellersKnow DEF Telling, Core, MessagesOK
    <3>3. \A u \in Users : pushed'[call[g].id][u] = pushed[call[g].id][u]
      BY <1>9, <3>2
    <3>4. \A i \in DOMAIN queue' : queue'[i] # call[g].id
      BY <1>6, <3>1
    <3> QED BY <3>1, <3>3, <3>4
  <2>4. ASSUME NEW i \in DOMAIN queue'
        PROVE  /\ \A u \in Users : pushed'[queue'[i]][u] = 0
               /\ \A j \in DOMAIN queue' : queue'[j] = queue'[i] => j = i
    <3>1. \A u \in Users : pushed[queue[i + 1]][u] = 0
      BY <1>6 DEF Core, OnceOK
    <3>2. queue'[i] \in Ids /\ queue'[i] # id
      BY <1>7 DEF Core, MessagesOK
    <3>3. \A u \in Users : pushed'[queue'[i]][u] = 0
      <4>1. \A u \in Users : pushed'[queue'[i]][u] = pushed[queue'[i]][u]
        BY <1>9, <3>2
      <4>2. queue'[i] = queue[i + 1]
        BY <1>6
      <4> QED BY <3>1, <4>1, <4>2
    <3>4. ASSUME NEW j \in DOMAIN queue', queue'[j] = queue'[i] PROVE j = i
      <4>1. j + 1 = i + 1
        BY <1>6, <3>4 DEF Core, OnceOK
      <4> QED BY <1>6, <4>1
    <3> QED BY <3>3, <3>4
  <2> QED BY <1>1, <2>2, <2>3, <2>4 DEF Core, OnceOK, Telling
<1>12. MentionsOK'
  BY <1>1, MentionsKept DEF Core
<1>13. CallsOK' /\ BotOK' /\ UniqueOK' /\ AnswersOK' /\ MessagesOK'
  BY <1>1, <1>2, CallsKept, BotKept, UniqueKept, AnswersKept DEF Core, MessagesOK
<1> QED BY <1>2, <1>10, <1>11, <1>12, <1>13 DEF Core

\* The bot's reply goes on, and tells nobody of a message.
LEMMA BotMoves ==
    ASSUME Core, NEW c \in CallType, c.id \in DOMAIN messages \cup {None},
           c.step \notin {"announce", "mention"}, call' = [call EXCEPT ![Bot] = c], BotOK',
           UNCHANGED <<now, messages, answers, told, rules, alerts, restarts>>
    PROVE  Core' /\ Grows
<1>1. Grows
  BY Still DEF rules
<1>2. call'[Bot] = c /\ \A g \in Workers : g # Bot => call'[g] = call[g]
  BY BotIsNoHandler DEF Core, CallsOK
<1>3. \A g \in Handlers : Fits(call[g])'
  <2> SUFFICES ASSUME NEW g \in Handlers PROVE Fits(call[g])'
    OBVIOUS
  <2>1. PICK d : d = call[g]
    OBVIOUS
  <2>2. Fits(d)' /\ call'[g] = d
    BY <1>1, <1>2, <2>1, FitsKept, BotIsNoHandler DEF Core, CallsOK
  <2> QED BY <2>2 DEF Fits
<1>4. call' \in [Workers -> CallType]
  BY BotIsNoHandler DEF Core, CallsOK
<1>5. CallsOK'
  BY <1>2, <1>3, <1>4 DEF Core, CallsOK
<1>6. /\ \A g \in Workers : Telling(g)' => call'[g] = call[g]
      /\ \A g \in Handlers : call[g].step = "withdraw" => call'[g] = call[g]
  BY <1>2, BotIsNoHandler DEF Telling
<1>7. OnceOK' /\ MentionsOK'
  BY <1>6, OnceKept, MentionsKept DEF Core, alerts
<1>8. TablesOK' /\ AnswersOK' /\ UniqueOK' /\ MessagesOK'
  BY <1>1, TablesKept, AnswersKept, UniqueKept DEF Core, MessagesOK
<1> QED BY <1>1, <1>5, <1>7, <1>8 DEF Core

LEMMA BotReadsOK ==
    ASSUME Core, BotReads
    PROVE  Core' /\ Grows
<1>0. PICK m : m = call[Bot].id
  OBVIOUS
<1>1. PICK to : to = IF m # None /\ ~ messages[m].wiped THEN messages[m].sender ELSE "nobody"
  OBVIOUS
<1>2. /\ call[Bot] \in CallType /\ call[Bot].step = "reply" /\ call[Bot] # Idle
      /\ call[Bot].user = Bot /\ call[Bot].client = None
  BY BotIsNoHandler, IdleOK DEF Core, CallsOK, BotOK, BotReads, At
<1>3. to \in Users \cup {"nobody"}
  BY <1>0, <1>1, <1>2 DEF Core, BotOK
<1>4. PICK c : c = [call[Bot] EXCEPT !.step = "think", !.id = None, !.to = to]
  OBVIOUS
<1>5. c \in CallType /\ c.step = "think" /\ c.user = Bot /\ c.client = None /\ c.id = None
  BY <1>2, <1>3, <1>4 DEF CallType, BotSteps
<1>6. call' = [call EXCEPT ![Bot] = c]
  BY <1>0, <1>1, <1>4 DEF BotReads
<1>7. call'[Bot] = c /\ c # Idle
  BY <1>5, <1>6, BotIsNoHandler, IdleOK DEF Core, CallsOK
<1>8. UNCHANGED <<now, messages, answers, told, rules, alerts, bot, restarts>>
  BY DEF BotReads, bounds
<1>9. BotOK'
  BY <1>2, <1>5, <1>7, <1>8 DEF Core, BotOK, BotTakesUpMentions, BotSteps
<1> QED BY <1>5, <1>6, <1>8, <1>9, BotMoves

LEMMA BotRepliesOK ==
    ASSUME Core, BotReplies
    PROVE  Core' /\ Grows
<1>1. /\ call[Bot] \in CallType /\ call[Bot].step = "think" /\ call[Bot] # Idle
      /\ call[Bot].user = Bot /\ call[Bot].client = None /\ call[Bot].id \in DOMAIN messages \cup {None}
  BY BotIsNoHandler, IdleOK DEF Core, CallsOK, BotOK, BotReplies, At
<1>2. now \in 0..MaxClock
  BY MessagesAssumption DEF Core, MessagesOK
<1>3. UNCHANGED <<now, messages, answers, told, rules, alerts, bot, restarts>>
  BY DEF BotReplies, bounds
<1>4. PICK c : /\ c \in CallType /\ c.step \in {"post", "rest"} /\ c.user = Bot /\ c.client = None
               /\ c.id = call[Bot].id
               /\ call' = [call EXCEPT ![Bot] = c]
  <2>1. CASE call' = [call EXCEPT ![Bot].step = "post", ![Bot].at = now]
    <3>1. PICK c : c = [call[Bot] EXCEPT !.step = "post", !.at = now]
      OBVIOUS
    <3>2. c \in CallType /\ c.step = "post" /\ c.user = Bot /\ c.client = None /\ c.id = call[Bot].id
      BY <1>1, <1>2, <3>1 DEF CallType, BotSteps
    <3> QED BY <2>1, <3>1, <3>2
  <2>2. CASE Goto(Bot, "rest")
    <3>1. PICK c : c = [call[Bot] EXCEPT !.step = "rest"]
      OBVIOUS
    <3>2. c \in CallType /\ c.step = "rest" /\ c.user = Bot /\ c.client = None /\ c.id = call[Bot].id
      BY <1>1, <3>1 DEF CallType, BotSteps
    <3> QED BY <2>2, <3>1, <3>2 DEF Goto
  <2> QED BY <2>1, <2>2 DEF BotReplies
<1>5. call'[Bot] = c /\ c # Idle
  BY <1>4, BotIsNoHandler, IdleOK DEF Core, CallsOK
<1>6. BotOK'
  BY <1>1, <1>3, <1>4, <1>5 DEF Core, BotOK, BotTakesUpMentions, BotSteps
<1> QED BY <1>1, <1>3, <1>4, <1>6, BotMoves

LEMMA BotPostsOK ==
    ASSUME Core, BotPosts
    PROVE  Core' /\ Grows
<1>1. /\ call[Bot] \in CallType /\ call[Bot].step = "post" /\ call[Bot] # Idle
      /\ call[Bot].user = Bot /\ call[Bot].client = None
  BY BotIsNoHandler, IdleOK DEF Core, CallsOK, BotOK, BotPosts, At
<1>2. UNCHANGED <<now, answers, told, rules, alerts, bot, restarts>>
  BY DEF BotPosts, bounds
<1>3. PICK m \in NewIds \ DOMAIN messages :
        /\ AddMessage(Bot, m)
        /\ call' = [call EXCEPT ![Bot].id = m, ![Bot].step = "mention", ![Bot].found = WantAll(Bot)]
  BY DEF BotPosts
<1>4. PICK r : r = [sender |-> Bot, client |-> None, at |-> call[Bot].at, to |-> call[Bot].to,
                    kind |-> "text", wiped |-> FALSE]
  OBVIOUS
<1>5. r \in Message /\ r.client = None /\ r.wiped = FALSE /\ messages' = Inserted(messages, m, r)
  <2>1. r \in Message /\ r.client = None /\ r.wiped = FALSE
    BY <1>1, <1>4 DEF Message, CallType
  <2>2. messages' = Inserted(messages, m, r)
    BY <1>1, <1>3, <1>4 DEF AddMessage
  <2> QED BY <2>1, <2>2
<1>6. /\ Grows /\ MessagesOK'
      /\ DOMAIN messages' = DOMAIN messages \cup {m} /\ messages'[m] = r
      /\ \A n \in DOMAIN messages : messages'[n] = messages[n]
  BY <1>2, <1>5, Inserts DEF rules
<1>7. UniqueOK'
  BY <1>5, <1>6, UniqueGrown
<1>8. PICK c : c = [call[Bot] EXCEPT !.id = m, !.step = "mention", !.found = WantAll(Bot)]
  OBVIOUS
<1>9. c \in CallType /\ c.step = "mention" /\ c.id = m /\ c.user = Bot /\ c.client = None
  <2>1. WantAll(Bot) \subseteq Users
    BY DEF WantAll
  <2> QED BY <1>1, <1>8, <2>1 DEF CallType, BotSteps, Ids
<1>10. call' = [call EXCEPT ![Bot] = c]
  BY <1>3, <1>8
<1>11. /\ call'[Bot] = c /\ c # Idle /\ \A g \in Workers : g # Bot => call'[g] = call[g]
       /\ call' \in [Workers -> CallType]
  BY <1>9, <1>10, BotIsNoHandler, IdleOK DEF Core, CallsOK
<1>12. CallsOK'
  <2>1. \A g \in Handlers : Fits(call[g])'
    <3> SUFFICES ASSUME NEW g \in Handlers PROVE Fits(call[g])'
      OBVIOUS
    <3>1. PICK d : d = call[g]
      OBVIOUS
    <3>2. Fits(d)' /\ call'[g] = d
      BY <1>6, <1>11, <3>1, FitsKept, BotIsNoHandler DEF Core, CallsOK
    <3> QED BY <3>2 DEF Fits
  <2>2. \A g \in Workers : call'[g].id \in DOMAIN messages' \cup {None}
    BY <1>6, <1>9, <1>11 DEF Core, CallsOK
  <2> QED BY <1>11, <2>1, <2>2 DEF CallsOK
<1>13. BotOK'
  <2>1. bot' \in [since : Nat, threshold : MinGap..MaxGap, busy : BOOLEAN,
                  pending : DOMAIN messages' \cup {None}]
    BY <1>2, <1>6 DEF Core, BotOK
  <2>2. bot'.pending # None => messages'[bot'.pending].sender \in Users
    BY <1>2, <1>6 DEF Core, BotOK
  <2>3. BotTakesUpMentions'
    BY <1>1, <1>2, <1>11 DEF Core, BotOK, BotTakesUpMentions
  <2> QED BY <1>6, <1>9, <1>11, <2>1, <2>2, <2>3 DEF BotOK, BotSteps
<1>14. OnceOK' /\ MentionsOK'
  <2>1. call'[Bot].id = m /\ call[Bot].step # "withdraw"
    BY <1>1, <1>9, <1>11
  <2> QED BY <1>2, <1>5, <1>6, <1>11, <2>1, ToldGrown, BotIsNoHandler
<1>15. TablesOK' /\ AnswersOK'
  BY <1>2, <1>6, TablesKept, AnswersKept DEF Core
<1> QED BY <1>6, <1>7, <1>12, <1>13, <1>14, <1>15 DEF Core

LEMMA BotRestsOK ==
    ASSUME Core, BotRests
    PROVE  Core' /\ Grows
<1>1. call[Bot] \in CallType /\ call[Bot].step = "rest" /\ call[Bot] # Idle /\ bot.busy
  BY BotIsNoHandler, IdleOK DEF Core, CallsOK, BotOK, BotTakesUpMentions, BotRests, At
<1>2. UNCHANGED <<now, messages, answers, told, rules, alerts, restarts>>
  BY DEF BotRests, bounds
<1>3. bot \in [since : Nat, threshold : MinGap..MaxGap, busy : BOOLEAN,
               pending : DOMAIN messages \cup {None}]
  BY DEF Core, BotOK
<1>4. CASE bot.pending = None
  <2>1. bot' = [bot EXCEPT !.busy = FALSE] /\ call' = [call EXCEPT ![Bot] = Idle]
    BY <1>4 DEF BotRests, End
  <2>2. call'[Bot] = Idle
    BY <2>1, BotIsNoHandler DEF Core, CallsOK
  <2>3. /\ bot' \in [since : Nat, threshold : MinGap..MaxGap, busy : BOOLEAN,
                     pending : DOMAIN messages \cup {None}]
        /\ bot'.pending = None /\ bot'.busy = FALSE
    BY <1>3, <1>4, <2>1
  <2>4. BotOK'
    BY <1>2, <2>2, <2>3, IdleOK DEF BotOK, BotTakesUpMentions, BotSteps
  <2> QED BY <1>2, <2>1, <2>4, IdleOK, BotMoves
<1>5. CASE bot.pending # None
  <2>0. PICK m : m = bot.pending
    OBVIOUS
  <2>1. m \in DOMAIN messages /\ m \in Ids /\ messages[m].sender \in Users
    BY <1>3, <1>5, <2>0 DEF Core, BotOK, MessagesOK
  <2>2. PICK c : c = BotStarts(m)
    OBVIOUS
  <2>3. bot' = [bot EXCEPT !.pending = None, !.since = 0] /\ call' = [call EXCEPT ![Bot] = c]
    BY <1>5, <2>0, <2>2 DEF BotRests
  <2>4. c = [step |-> "reply", op |-> "bot", user |-> Bot, client |-> None, id |-> m, at |-> 0,
             to |-> "nobody", found |-> {}, verdict |-> "none"]
    BY <2>2 DEF BotStarts, Idle
  <2>5. c \in CallType /\ c.step = "reply" /\ c.user = Bot /\ c.client = None /\ c.id = m
    BY <2>1, <2>4, MessagesAssumption DEF CallType, BotSteps
  <2>6. call'[Bot] = c /\ c # Idle
    BY <2>3, <2>5, BotIsNoHandler, IdleOK DEF Core, CallsOK
  <2>7. /\ bot' \in [since : Nat, threshold : MinGap..MaxGap, busy : BOOLEAN,
                     pending : DOMAIN messages \cup {None}]
        /\ bot'.pending = None /\ bot'.busy
    BY <1>1, <1>3, <2>3
  <2>8. BotTakesUpMentions'
    BY <2>6, <2>7 DEF BotTakesUpMentions
  <2>9. BotOK'
    BY <1>2, <2>1, <2>5, <2>6, <2>7, <2>8 DEF BotOK, BotSteps
  <2> QED BY <1>2, <2>1, <2>3, <2>5, <2>9, BotMoves
<1> QED BY <1>4, <1>5

-----------------------------------------------------------------------------
(* The next step *)

LEMMA RestartOK ==
    ASSUME IInv, Restart
    PROVE  IInv'
<1>1. /\ UNCHANGED <<now, messages, answers, told, rules, notes, pushed>>
      /\ call' = [h \in Workers |-> Idle] /\ queue' = <<>>
  BY DEF Restart
<1>2. Grows
  BY <1>1, Still DEF rules
<1>3. MessagesOK' /\ AnswersOK' /\ UniqueOK'
  BY <1>1, <1>2, AnswersKept, UniqueKept DEF IInv, Core, MessagesOK
<1>4. \A h \in Workers : call'[h] = Idle /\ call'[h].step = "idle" /\ call'[h].id = None
  BY <1>1, IdleOK
<1>5. TablesOK'
  <2>1. overtaken' \subseteq DOMAIN messages
    <3>1. \A h \in Workers : call[h].step = "withdraw" => call[h].id \in DOMAIN messages
      <4> SUFFICES ASSUME NEW h \in Workers, call[h].step = "withdraw"
                   PROVE  call[h].id \in DOMAIN messages
        OBVIOUS
      <4>1. h \in Handlers
        BY BotIsNoHandler DEF IInv, Core, BotOK, BotSteps
      <4>2. Fits(call[h])
        BY <4>1 DEF IInv, Core, CallsOK
      <4> QED BY <4>2 DEF Fits
    <3> QED BY <3>1 DEF Restart, At, IInv, Core, TablesOK
  <2>2. queue' \in Seq(DOMAIN messages) /\ Len(queue') <= QueueSize
    <3>1. <<>> \in Seq(DOMAIN messages) /\ Len(<<>>) = 0
      BY EmptySeq
    <3> QED BY <1>1, <3>1, MessagesAssumption
  <2>3. restarts' \in 0..MaxRestarts
    BY MessagesAssumption DEF Restart, IInv, Core, TablesOK
  <2> QED BY <1>1, <2>1, <2>2, <2>3 DEF IInv, Core, TablesOK, rules
<1>6. CallsOK'
  <2>1. ASSUME NEW h \in Handlers PROVE Fits(call[h])'
    <3>1. PICK d : d = Idle
      OBVIOUS
    <3>2. Fits(d)' /\ call'[h] = d
      BY <1>4, <3>1, IdleOK, BotIsNoHandler
    <3> QED BY <3>2 DEF Fits
  <2>2. call' \in [Workers -> CallType]
    BY <1>1, IdleOK
  <2> QED BY <1>4, <2>1, <2>2 DEF CallsOK
<1>7. BotOK'
  <2>1. PICK gap \in MinGap..MaxGap :
          bot' = [since |-> 0, threshold |-> gap, busy |-> FALSE, pending |-> None]
    BY DEF Restart
  <2>2. /\ bot' \in [since : Nat, threshold : MinGap..MaxGap, busy : BOOLEAN,
                     pending : DOMAIN messages' \cup {None}]
        /\ bot'.busy = FALSE /\ bot'.pending = None
    BY <2>1
  <2>3. call'[Bot] = Idle /\ Idle.step = "idle"
    BY <1>4, BotIsNoHandler
  <2> QED BY <2>2, <2>3 DEF BotOK, BotTakesUpMentions, BotSteps
<1>8. OnceOK'
  <2>1. DOMAIN queue' = {}
    BY <1>1
  <2> QED BY <1>1, <1>4, <2>1 DEF IInv, Core, OnceOK, Telling
<1>9. MentionsOK'
  <2>1. MentionsAreWithdrawn'
    <3> SUFFICES ASSUME NEW m \in DOMAIN messages, messages[m].wiped, \E u \in Users : notes[m][u] > 0
                 PROVE  m \in overtaken'
      BY <1>1 DEF MentionsAreWithdrawn
    <3>1. m \in overtaken \/ \E h \in Handlers : call[h].step = "withdraw" /\ call[h].id = m
      BY DEF IInv, Core, MentionsOK, MentionsAreWithdrawn, At
    <3> QED BY <3>1, BotIsNoHandler DEF Restart, At
  <2> QED BY <1>4, <2>1 DEF MentionsOK, Telling
<1>10. ReaderOK' /\ PagingOK'
  <2>1. PICK r : r = reader'
    OBVIOUS
  <2>2. reader \in ReaderType /\ Paged(reader)
    BY DEF IInv, ReaderOK, PagingOK
  <2>3. r = IF reader.step \in {"more", "scan"}
            THEN [reader EXCEPT !.step = "page", !.scan = None, !.found = {}] ELSE reader
    BY <2>1 DEF Restart
  <2>4. r \in ReaderType /\ Paged(r)
    BY <2>2, <2>3 DEF ReaderType, Paged
  <2>5. Visible' = Visible /\ \A k : Shown(k)' = Shown(k)
    BY <1>1 DEF rules, Visible, Shown, IsFile
  <2>6. \A m, c : Behind(m, c)' = Behind(m, c)
    BY <1>1 DEF Behind, Before
  <2>7. Paged(r)' /\ r \in ReaderType'
    BY <1>1, <2>4, <2>5, <2>6 DEF Paged, ReaderType
  <2> QED BY <2>1, <2>7 DEF ReaderOK, PagingOK
<1> QED BY <1>3, <1>5, <1>6, <1>7, <1>8, <1>9, <1>10 DEF IInv, Core

LEMMA ClientOK ==
    ASSUME Core, Client
    PROVE  Core' /\ Grows
<1>1. UNCHANGED <<now, messages, answers, told, rules, alerts, bot, call, restarts>>
  BY DEF Client, OpenList, Begin, PageBlocked, ListPage, HasMore, OpenScan, ScanHistory, CloseList,
         ReaderUnchanged, bounds
<1>2. Grows
  BY <1>1, Still DEF rules
<1> QED BY <1>1, <1>2, TablesKept, AnswersKept, Rest DEF Core, MessagesOK

LEMMA StutterOK ==
    ASSUME Core, UNCHANGED vars
    PROVE  Core' /\ Grows /\ UNCHANGED reader
<1>1. UNCHANGED <<now, messages, answers, told, rules, alerts, bot, call, reader, restarts>>
  BY DEF vars, bounds
<1>2. Grows
  BY <1>1, Still DEF rules
<1> QED BY <1>1, <1>2, TablesKept, AnswersKept, Rest DEF Core, MessagesOK

\* A request that is new.
LEMMA RequestOK ==
    ASSUME Core, NEW h \in Handlers, Request(h)
    PROVE  Core' /\ Grows /\ UNCHANGED <<reader, cursor>>
<1>1. UNCHANGED <<reader, cursor>>
  BY DEF Request, SendMessage, MarkRead, RecallMessage, ForceDelete, ReviewRecall, rules
<1>2. ASSUME NEW u \in Users, NEW m \in DOMAIN messages, MarkRead(h, Reader, m) PROVE Core' /\ Grows
  BY <1>2, MarkReadOK, MessagesAssumption
<1> QED BY <1>1, <1>2, SendMessageOK, RecallMessageOK, ForceDeleteOK, ReviewRecallOK DEF Request

\* The bot takes only the step that requests share with it.
LEMMA StepOK ==
    ASSUME Core, NEW h \in Workers, Step(h)
    PROVE  Core' /\ Grows /\ UNCHANGED reader
<1>1. UNCHANGED reader
  BY DEF Step, InsertMessage, Announce, NotifyMentioned, ObserveMessage, Answer, EnsureCursor,
         AdvanceCursor, AskForRecall, WipeMessage, WithdrawNotes, SettleRequest
<1>2. NotifyMentioned(h) \/ h \in Handlers
  <2>1. CASE h = Bot
    <3>1. call[Bot].step \in BotSteps
      BY DEF Core, BotOK
    <3> QED BY <2>1, <3>1 DEF BotSteps, At, Step, InsertMessage, Announce, ObserveMessage, Answer,
               EnsureCursor, AdvanceCursor, AskForRecall, WipeMessage, WithdrawNotes, SettleRequest
  <2> QED BY <2>1, BotIsNoHandler
<1>3. CASE NotifyMentioned(h)
  BY <1>1, <1>3, NotifyMentionedOK
<1>4. CASE h \in Handlers
  BY <1>1, <1>4, InsertMessageOK, AnnounceOK, NotifyMentionedOK, ObserveMessageOK, AnswerOK,
     EnsureCursorOK, AdvanceCursorOK, AskForRecallOK, WipeMessageOK, WithdrawNotesOK,
     SettleRequestOK DEF Step
<1> QED BY <1>2, <1>3, <1>4

LEMMA SettingOK ==
    ASSUME Core, Setting
    PROVE  Core' /\ Grows /\ UNCHANGED <<reader, cursor>>
<1>1. UNCHANGED <<reader, cursor>>
  BY DEF Setting, SetPolicy, HideHistory, SetLevel, SystemMessage, DismissNote, rules
<1>2. Reader \in Users
  BY MessagesAssumption
<1> QED BY <1>1, <1>2, SettingsOK, SystemMessageOK, DismissNoteOK DEF Setting

LEMMA Steady ==
    ASSUME IInv, [Next]_vars
    PROVE  IInv' /\ Grows
<1>1. Core /\ MessagesOK /\ TablesOK /\ ReaderOK /\ PagingOK
  BY DEF IInv, Core
<1>2. CASE Restart
  <2>1. Grows
    BY <1>2, Still DEF Restart, rules
  <2> QED BY <1>2, <2>1, RestartOK
<1>3. CASE Client
  <2>1. Core' /\ Grows
    BY <1>1, <1>3, ClientOK
  <2> QED BY <1>1, <1>3, <2>1, ClientReads DEF IInv
<1>4. ASSUME Core', Grows, UNCHANGED reader PROVE IInv' /\ Grows
  BY <1>1, <1>4, ReaderKept DEF IInv
<1>5. CASE Tick \/ DeliverPush
  <2>1. UNCHANGED reader
    BY <1>5 DEF Tick, DeliverPush
  <2> QED BY <1>1, <1>4, <1>5, <2>1, TickOK, DeliverPushOK
<1>6. CASE BotReads \/ BotReplies \/ BotPosts \/ BotRests
  <2>1. UNCHANGED reader
    BY <1>6 DEF BotReads, BotReplies, BotPosts, BotRests
  <2> QED BY <1>1, <1>4, <1>6, <2>1, BotReadsOK, BotRepliesOK, BotPostsOK, BotRestsOK
<1>7. CASE Setting
  BY <1>1, <1>4, <1>7, SettingOK
<1>8. ASSUME NEW h \in Handlers, Request(h) PROVE IInv' /\ Grows
  BY <1>1, <1>4, <1>8, RequestOK
<1>9. ASSUME NEW h \in Workers, Step(h) PROVE IInv' /\ Grows
  BY <1>1, <1>4, <1>9, StepOK
<1>10. CASE Finished \/ UNCHANGED vars
  BY <1>1, <1>4, <1>10, StutterOK DEF Finished
<1> QED BY <1>2, <1>3, <1>5, <1>6, <1>7, <1>8, <1>9, <1>10 DEF Next

LEMMA Start0 ==
    ASSUME Init
    PROVE  IInv
<1>1. /\ DOMAIN messages = OldIds
      /\ \A m \in OldIds : messages[m] = [sender |-> Reader, client |-> None, at |-> 0,
                                          to |-> "nobody", kind |-> OldKind[m], wiped |-> FALSE]
  BY DEF Init
<1>2. MessagesOK
  <2>1. ASSUME NEW m \in OldIds PROVE messages[m] \in Message
    <3>1. OldKind[m] \in {"text", "file", "live"} /\ Reader \in Users
      BY MessagesAssumption
    <3>2. 0 \in 0..MaxClock
      BY MessagesAssumption
    <3>3. PICK r : r = [sender |-> Reader, client |-> None, at |-> 0, to |-> "nobody",
                        kind |-> OldKind[m], wiped |-> FALSE]
      OBVIOUS
    <3>4. r \in Message
      BY <3>1, <3>2, <3>3 DEF Message
    <3> QED BY <1>1, <3>3, <3>4
  <2>2. messages \in [DOMAIN messages -> Message]
    BY <1>1, <2>1 DEF Init
  <2> QED BY <1>1, <2>2, MessagesAssumption DEF Init, MessagesOK, Ids
<1>3. TablesOK
  <2>1. <<>> \in Seq(DOMAIN messages) /\ Len(<<>>) = 0
    BY EmptySeq
  <2>2. queue \in Seq(DOMAIN messages) /\ Len(queue) <= QueueSize
    BY <2>1, MessagesAssumption DEF Init
  <2>3. notes \in [Ids -> [Users -> Nat]] /\ pushed \in [Ids -> [Users -> Nat]]
    BY DEF Init
  <2>4. DOMAIN requests = {} /\ requests \in [DOMAIN requests -> {"pending", "approved", "rejected"}]
    BY DEF Init
  <2>5. restarts \in 0..MaxRestarts
    BY MessagesAssumption DEF Init
  <2> QED BY <2>2, <2>3, <2>4, <2>5 DEF Init, TablesOK
<1>4. \A u \in Users, c \in Clients : Existing(u, c) = {}
  <2>1. \A m \in DOMAIN messages : messages[m].client = None
    BY <1>1
  <2>2. None \notin Clients
    BY MessagesAssumption
  <2> QED BY <2>1, <2>2 DEF Existing
<1>5. AnswersOK /\ UniqueOK
  <2>1. DOMAIN answers = {} /\ told = {}
    BY DEF Init
  <2> QED BY <1>4, <2>1 DEF AnswersOK, UniqueOK
<1>6. \A h \in Workers : call[h] = Idle /\ call[h].step = "idle" /\ call[h].id = None
  BY IdleOK DEF Init
<1>7. CallsOK
  BY <1>6, IdleOK, BotIsNoHandler DEF Init, CallsOK
<1>8. BotOK
  <2>1. /\ bot \in [since : Nat, threshold : MinGap..MaxGap, busy : BOOLEAN,
                    pending : DOMAIN messages \cup {None}]
        /\ bot.busy = FALSE /\ bot.pending = None
    BY DEF Init
  <2> QED BY <1>6, <2>1, BotIsNoHandler DEF BotOK, BotTakesUpMentions, BotSteps
<1>9. OnceOK
  <2>1. DOMAIN queue = {}
    BY DEF Init
  <2> QED BY <1>6, <2>1 DEF Init, OnceOK, Telling
<1>10. MentionsOK
  <2>1. \A m \in DOMAIN messages : ~ messages[m].wiped
    BY <1>1
  <2> QED BY <1>6, <2>1 DEF MentionsOK, MentionsAreWithdrawn, Telling
<1>11. ReaderOK /\ PagingOK
  BY DEF Init, ReaderOK, ReaderType, PagingOK, Paged
<1> QED BY <1>2, <1>3, <1>5, <1>7, <1>8, <1>9, <1>10, <1>11 DEF IInv, Core

LEMMA Reachable == Spec => []IInv
  BY Start0, Steady, PTL DEF Spec

-----------------------------------------------------------------------------
(* Theorems *)

\* Rows, cursors, requests under way and the reader's pages are well formed and
\* refer to what exists, through restarts too: a request's message is there at
\* each of its steps, and the push queue stays within its capacity
\* (messages_core.go, message_admin.go, gang_bot.go, push/dispatcher.go).
THEOREM TypeCorrect == Spec => []TypeOK
<1>1. IInv => TypeOK
  <2> SUFFICES ASSUME IInv PROVE TypeOK
    OBVIOUS
  <2>1. /\ \A m \in DOMAIN messages : messages[m] \in Message
        /\ DOMAIN answers \subseteq Users \X Clients
        /\ \A k \in DOMAIN answers : answers[k] \in DOMAIN messages
        /\ \A k \in DOMAIN requests : requests[k] \in {"pending", "approved", "rejected"}
        /\ \A u \in DOMAIN cursor : cursor[u] \in DOMAIN messages \cup {None}
    BY DEF IInv, Core, MessagesOK, TablesOK, AnswersOK, Existing
  <2>2. \A i \in DOMAIN queue : queue[i] \in DOMAIN messages
    BY LenProperties DEF IInv, Core, TablesOK
  <2>3. /\ reader.before \in DOMAIN messages \cup {None}
        /\ reader.got \cup reader.found \subseteq DOMAIN messages
    BY DEF IInv, ReaderOK, ReaderType
  <2>4. bot.pending \in DOMAIN messages \cup {None} /\ bot.threshold \in MinGap..MaxGap
    BY DEF IInv, Core, BotOK
  <2> QED BY <2>1, <2>2, <2>3, <2>4
          DEF IInv, Core, MessagesOK, TablesOK, AnswersOK, CallsOK, TypeOK, Range
<1> QED BY <1>1, Reachable, PTL

\* A message that a client sends again is one row, every answer names that row,
\* and nobody is mentioned or pushed to twice for it, however many requests send
\* it at the same time and wherever a restart cuts them off (sendMessage,
\* idempotentJSON, Dispatcher.Enqueue).
THEOREM MessagesSentOnce == Spec => []SentOnce
<1>1. IInv => SentOnce
  <2> SUFFICES ASSUME IInv PROVE SentOnce
    OBVIOUS
  <2>1. ASSUME NEW u \in Users, NEW c \in Clients PROVE Cardinality(Existing(u, c)) <= 1
    <3>1. CASE Existing(u, c) = {}
      BY <3>1, FS_EmptySet
    <3>2. CASE Existing(u, c) # {}
      <4>1. PICK m : m \in Existing(u, c)
        BY <3>2
      <4>2. Existing(u, c) = {m}
        BY <4>1 DEF IInv, Core, UniqueOK
      <4> QED BY <4>2, FS_Singleton
    <3> QED BY <3>1, <3>2
  <2>2. ASSUME NEW t \in told PROVE Existing(t[1], t[2]) = {t[3]}
    BY DEF IInv, Core, UniqueOK, AnswersOK
  <2> QED BY <2>1, <2>2 DEF IInv, Core, OnceOK, SentOnce
<1> QED BY <1>1, Reachable, PTL

\* Once a recall or a forced deletion is through, no notification shows the
\* message, unless the wipe overtook who adds the mentions or a restart came
\* before the withdrawal (applyRecall, forceDeleteMessage,
\* deleteRoomNotificationsForMessage).
THEOREM RecallsWithdraw == Spec => []MentionsAreWithdrawn
<1>1. IInv => MentionsAreWithdrawn
  BY DEF IInv, Core, MentionsOK
<1> QED BY <1>1, Reachable, PTL

\* The bot is busy exactly while a reply is under way, and a mention waits only
\* behind one, for any threshold (gangBot.observe, gangBot.run).
THEOREM BotAnswers == Spec => []BotTakesUpMentions
<1>1. IInv => BotTakesUpMentions
  BY DEF IInv, Core, BotOK
<1> QED BY <1>1, Reachable, PTL

\* A client that pages back to the end has been given every message that was
\* there when it began and that its list still shows, for pages and batches of
\* any size (listMessages, listMessageHistory).
THEOREM PagesComplete == Spec => []PagingMissesNothing
<1>1. IInv => PagingMissesNothing
  BY DEF IInv, PagingOK, Paged, PagingMissesNothing
<1> QED BY <1>1, Reachable, PTL

\* A cursor that is set moves forward only.
LEMMA CursorsAdvance ==
    ASSUME IInv, [Next]_vars, NEW u \in Users, cursor[u] # None
    PROVE  cursor'[u] \in DOMAIN messages /\ (cursor'[u] = cursor[u] \/ Before(cursor[u], cursor'[u]))
<1>1. cursor \in [Users -> DOMAIN messages \cup {None}]
  BY DEF IInv, Core, TablesOK
<1>2. CASE \E h \in Workers : EnsureCursor(h)
  <2>1. PICK h \in Workers : EnsureCursor(h)
    BY <1>2
  <2>2. PICK v, m : v = call[h].user /\ m = IF cursor[v] = None THEN call[h].id ELSE cursor[v]
    OBVIOUS
  <2>3. cursor' = [cursor EXCEPT ![v] = m]
    BY <2>1, <2>2 DEF EnsureCursor
  <2> QED BY <1>1, <2>2, <2>3, MessagesAssumption
<1>3. CASE \E h \in Workers : AdvanceCursor(h)
  <2>1. PICK h \in Workers : AdvanceCursor(h)
    BY <1>3
  <2>2. call[h].id \in DOMAIN messages
    <3>1. call[h].step = "advance"
      BY <2>1 DEF AdvanceCursor, At
    <3>2. h \in Handlers
      BY <3>1, BotIsNoHandler DEF IInv, Core, BotOK, BotSteps
    <3>3. Fits(call[h])
      BY <3>2 DEF IInv, Core, CallsOK
    <3> QED BY <3>1, <3>3 DEF Fits
  <2>3. PICK v, m : v = call[h].user /\ m = IF Before(cursor[v], call[h].id) THEN call[h].id ELSE cursor[v]
    OBVIOUS
  <2>4. cursor' = [cursor EXCEPT ![v] = m]
    BY <2>1, <2>3 DEF AdvanceCursor
  <2> QED BY <1>1, <2>2, <2>3, <2>4
<1>4. CASE ~ \E h \in Workers : EnsureCursor(h) \/ AdvanceCursor(h)
  <2> SUFFICES UNCHANGED cursor
    BY <1>1
  <2>1. ASSUME NEW h \in Workers, Step(h) PROVE UNCHANGED cursor
    BY <1>4, <2>1 DEF Step, InsertMessage, Announce, NotifyMentioned, ObserveMessage, Answer,
         AskForRecall, WipeMessage, WithdrawNotes, SettleRequest, rules
  <2>2. CASE Tick \/ DeliverPush \/ BotReads \/ BotReplies \/ BotPosts \/ BotRests \/ Restart
             \/ Finished \/ UNCHANGED vars
    BY <2>2 DEF Tick, DeliverPush, BotReads, BotReplies, BotPosts, BotRests, Restart, Finished, vars, rules
  <2>3. CASE Client
    BY <2>3 DEF Client, OpenList, PageBlocked, ListPage, HasMore, OpenScan, ScanHistory, CloseList,
                ReaderUnchanged, rules
  <2>4. CASE Setting
    BY <2>4, SettingOK DEF IInv
  <2>5. ASSUME NEW h \in Handlers, Request(h) PROVE UNCHANGED cursor
    BY <2>5, RequestOK DEF IInv
  <2> QED BY <2>1, <2>2, <2>3, <2>4, <2>5 DEF Next
<1> QED BY <1>2, <1>3, <1>4

\* The newest message of the room is among the unread ones when there are any,
\* or is the user's own.
LastShown(u) ==
    level[u] # "blocked" /\ Unread(u) # {} =>
        LastMessage(u) \in Unread(u) \/ messages[LastMessage(u)].sender = u

LEMMA NewestIsLast ==
    ASSUME IInv
    PROVE  \A u \in Users : LastShown(u)
<1> SUFFICES ASSUME NEW u \in Users, level[u] # "blocked", Unread(u) # {}
             PROVE  LastMessage(u) \in Unread(u) \/ messages[LastMessage(u)].sender = u
  BY DEF LastShown
<1>1. MessagesOK /\ Visible \in SUBSET DOMAIN messages /\ cursor[u] \in DOMAIN messages \cup {None}
  BY DEF IInv, Core, TablesOK, Visible
<1>2. PICK n \in Visible : cursor[u] # None => Before(cursor[u], n)
  BY DEF Unread
<1>3. PICK m : m = Newest(Visible)
  OBVIOUS
<1>4. m \in Visible /\ \A o \in Visible \ {m} : Before(o, m)
  BY <1>1, <1>2, <1>3, Ends
<1>5. cursor[u] # None => Before(cursor[u], m)
  BY <1>1, <1>2, <1>4, Order
<1>6. LastMessage(u) = m
  BY <1>2, <1>3 DEF LastMessage
<1> QED BY <1>4, <1>5, <1>6 DEF Unread

\* What a user has read stays read, nothing stops being unread but by reading
\* and no mention but by reading or a wipe, and the newest message of the room
\* is among the unread ones or is the user's own, whatever the user's devices
\* mark at the same time (markRead, unreadCount, unreadMentionCount, lastMessage).
THEOREM ReadStaysRead == Spec => UnreadFollowsReading
<1> DEFINE Stays == \A u \in Users : level[u] # "blocked" /\ level'[u] # "blocked" =>
             LET appeared == Visible' \ Visible
                 lost == Unread(u) \ Unread(u)'
             IN  /\ Unread(u)' \ Unread(u) \subseteq appeared
                 /\ lost # {} => cursor'[u] # cursor[u]
                 /\ \A m \in UnreadMentions(u) \ UnreadMentions(u)' :
                       m \in lost \/ messages'[m].wiped
                 /\ Unread(u)' # {} => \/ LastMessage(u)' \in Unread(u)'
                                      \/ messages'[LastMessage(u)'].sender = u
<1>1. IInv => \A u \in Users : LastShown(u)
  BY NewestIsLast
<1>2. IInv /\ IInv' /\ [Next]_vars /\ (\A u \in Users : LastShown(u))' => [Stays]_<<cursor, messages>>
  <2> SUFFICES ASSUME IInv, IInv', [Next]_vars, (\A u \in Users : LastShown(u))',
                      NEW u \in Users, level[u] # "blocked", level'[u] # "blocked"
               PROVE  /\ Unread(u)' \ Unread(u) \subseteq Visible' \ Visible
                      /\ Unread(u) \ Unread(u)' # {} => cursor'[u] # cursor[u]
                      /\ \A m \in UnreadMentions(u) \ UnreadMentions(u)' :
                            m \in Unread(u) \ Unread(u)' \/ messages'[m].wiped
                      /\ Unread(u)' # {} => \/ LastMessage(u)' \in Unread(u)'
                                           \/ messages'[LastMessage(u)'].sender = u
    OBVIOUS
  <2>1. Grows /\ MessagesOK /\ MessagesOK' /\ Visible \subseteq Visible'
    BY Steady, VisibleKept DEF IInv, Core
  <2>2. /\ cursor[u] \in DOMAIN messages \cup {None}
        /\ cursor[u] # None => /\ cursor'[u] # None
                               /\ cursor'[u] \in DOMAIN messages
                               /\ cursor'[u] = cursor[u] \/ Before(cursor[u], cursor'[u])
    BY <2>1, CursorsAdvance DEF IInv, Core, TablesOK, Grows
  <2>3. cursor'[u] \in DOMAIN messages' \cup {None}
    BY DEF IInv, Core, TablesOK
  <2>4. \A m \in Visible : /\ m \in DOMAIN messages /\ messages'[m].sender = messages[m].sender
                           /\ messages'[m].wiped \/ messages'[m].to = messages[m].to
    BY <2>1 DEF Visible, Grows
  <2>5. \A m \in Visible : m \in Unread(u) <=> /\ messages[m].sender # u
                                               /\ cursor[u] # None => Before(cursor[u], m)
    BY DEF Unread
  <2>6. \A m \in Visible' : m \in Unread(u)' <=> /\ messages'[m].sender # u
                                                 /\ cursor'[u] # None => Before(cursor[u], m)'
    BY DEF Unread
  <2>7. Unread(u) \subseteq Visible /\ Unread(u)' \subseteq Visible'
    BY DEF Unread
  <2>8. ASSUME NEW m \in Visible, m \in Unread(u)' PROVE m \in Unread(u)
    <3>1. CASE cursor[u] = None
      BY <2>1, <2>4, <2>5, <2>6, <2>8, <3>1
    <3>2. CASE cursor[u] # None
      <4>1. PICK c : c = cursor'[u]
        OBVIOUS
      <4>2. Before(c, m)'
        BY <2>1, <2>2, <2>6, <2>8, <3>2, <4>1 DEF Before
      <4>3. cursor[u] \in DOMAIN messages /\ c \in DOMAIN messages /\ m \in DOMAIN messages
        BY <2>2, <2>4, <3>2, <4>1
      <4>4. Before(c, m)
        BY <2>1, <4>2, <4>3, BeforeKept
      <4>5. Before(cursor[u], m)
        BY <2>1, <2>2, <3>2, <4>1, <4>3, <4>4, Order
      <4> QED BY <2>1, <2>4, <2>5, <2>6, <2>8, <4>5
    <3> QED BY <3>1, <3>2
  <2>9. ASSUME NEW m \in Unread(u), cursor'[u] = cursor[u] PROVE m \in Unread(u)'
    <3>1. PICK c : c = cursor[u]
      OBVIOUS
    <3>2. m \in Visible /\ m \in Visible' /\ messages'[m].sender # u
      BY <2>1, <2>4, <2>5, <2>7, <2>9
    <3>3. c # None => Before(c, m)'
      <4>1. SUFFICES ASSUME c # None PROVE Before(c, m)'
        OBVIOUS
      <4>2. c \in DOMAIN messages /\ m \in DOMAIN messages /\ Before(c, m)
        BY <2>2, <2>4, <2>5, <2>9, <3>1, <3>2, <4>1
      <4> QED BY <2>1, <4>2, BeforeKept
    <3> QED BY <2>6, <2>9, <3>1, <3>2, <3>3 DEF Before
  <2>10. ASSUME NEW m \in UnreadMentions(u), m \notin UnreadMentions(u)'
         PROVE  m \in Unread(u) \ Unread(u)' \/ messages'[m].wiped
    <3>1. m \in Unread(u) /\ m \in Visible /\ u \in Targets(messages[m].to)
      BY <2>7, <2>10 DEF UnreadMentions
    <3>2. CASE messages'[m].wiped \/ m \notin Unread(u)'
      BY <3>1, <3>2
    <3>3. CASE ~ messages'[m].wiped /\ m \in Unread(u)'
      <4>1. u \in Targets(messages'[m].to)
        BY <2>4, <3>1, <3>3
      <4> QED BY <2>10, <3>3, <4>1 DEF UnreadMentions, Targets
    <3> QED BY <3>2, <3>3
  <2>11. Unread(u)' # {} => LastMessage(u)' \in Unread(u)' \/ messages'[LastMessage(u)'].sender = u
    BY DEF LastShown
  <2> QED BY <2>7, <2>8, <2>9, <2>10, <2>11
<1> QED BY <1>1, <1>2, Reachable, PTL DEF Spec, UnreadFollowsReading
=============================================================================
