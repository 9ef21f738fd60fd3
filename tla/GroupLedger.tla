----------------------------- MODULE GroupLedger -----------------------------
(***************************************************************************)
(* The ledgers of the groups (BlockchainGradido) and the pairing of an     *)
(* inbound transaction with the outbound half in another group's chain     *)
(* (GroupBlockchainFacade).                                                *)
(*                                                                         *)
(* The state machine around a ledger is BlockchainBase; here the topic of  *)
(* a group hands out one transaction after the other.  A transaction is    *)
(* one record, it is known by its place in the chain, and that is also its *)
(* time.  calc_fields_and_update_indexes_for() and the append that follows *)
(* are two steps, since the chains of other groups read the index and the  *)
(* storage without taking main_lock.  A group that this node does not      *)
(* host is kept by the sibling.                                            *)
(***************************************************************************)
EXTENDS Integers, Sequences, FiniteSets, SequencesExt

CONSTANTS
    Groups, Hosted,   \* all groups, and those this node keeps
    Repeating,        \* hosted groups with a topic that repeats old messages
    Users, Ids,       \* public keys and paired_transaction_ids
    Amounts,
    BlockSize,        \* GRADIDO_BLOCK_SIZE
    Conns,            \* connections a request for a pair can use
    Siblings,         \* how many sibling_nodes there may be
    Crashes,          \* the process may be killed
    SiblingLags,      \* the sibling may not have what this node has
    StreamsBreak,     \* the stream of a request may break
    Topics,           \* the transactions that the topic of each group may bring
    Prefix,           \* the chain each group starts with
    MaxLen,           \* bound: length of each chain
    Decay(_, _),      \* calculateDecay(): elapsed time and amount
    None

ASSUME LedgerAssumption ==
    /\ Hosted \subseteq Groups /\ Repeating \subseteq Hosted
    /\ Amounts \subseteq Nat \ {0}
    /\ BlockSize \in Nat /\ BlockSize >= 2
    /\ {Crashes, SiblingLags, StreamsBreak} \subseteq BOOLEAN /\ Siblings \subseteq Nat
    /\ MaxLen \in [Groups -> Nat]
    /\ \A d \in 0..BlockSize, v \in Amounts : Decay(d, v) \in 0..v
    /\ None \notin Groups \cup Users \cup Ids \cup Conns

VARIABLES
    chain,         \* the records of each group
    index,         \* user_index, friend_group_index, outbound_transactions
    cur,           \* the transaction at the head of the queue
    stage,         \* calc: its fields are open; locked: a task with the lock of
                   \* the chain looks for its pair; append: they are calculated
    continues,     \* queued calls of continue_with_transactions()
    waiting_for_paired,  \* of the chain
    other_group, paired_tr,
    waiting,       \* waiting_for_paired of the facade: id -> listener
    requests,      \* what each connection, and its tasks, still have to do
    facade,        \* main_lock of the facade, while on_paired_transaction() has
                   \* it: the connection, and the chain that is called
    siblings,      \* the number of sibling_nodes
    misread,       \* history: the records, group and number, whose pair was
                   \* read from a checksum
    broken,        \* history: ids of which a stream broke after the last
                   \* registration
    refused        \* history: chains that last asked for a pair for which
                   \* another one was registered

chainVars == <<chain, index, cur, stage>>
pairVars  == <<waiting_for_paired, other_group, paired_tr, siblings>>
facadeVars == <<waiting, requests, facade>>
history == <<misread, broken, refused>>
vars == <<chainVars, continues, pairVars, facadeVars, history>>

-----------------------------------------------------------------------------
(* Records and their places *)

SUCCESS == "SUCCESS"
Results == {SUCCESS, "UNKNOWN", "NOT_ENOUGH_GRADIDOS", "UNKNOWN_LOCAL_USER",
            "OUTBOUND_TRANSACTION_FAILED", "USER_ALREADY_EXISTS",
            "GROUP_IS_ALREADY_FRIEND", "GROUP_IS_NOT_FRIEND"}
InboundTypes == {"INBOUND_TRANSFER", "MOVE_USER_INBOUND"}
OutboundTypes == {"OUTBOUND_TRANSFER", "MOVE_USER_OUTBOUND"}

\* A transaction as it comes from the topic; new_balance is that of user,
\* to_balance that of the receiver of a local transfer.
Tx(type, user, to, amount, other, id) ==
    [type |-> type, user |-> user, to |-> to, amount |-> amount,
     other |-> other, id |-> id, result |-> "UNKNOWN",
     new_balance |-> 0, to_balance |-> 0]
Delivered(t) == Tx(t.type, t.user, t.to, t.amount, t.other, t.id)
NoTx == Tx(None, None, None, 0, None, None)

\* The place of the n-th record in the block files, and rec_count of a chain
\* of n records: each block ends with a checksum, and so does the chain.
Place(n) == n - 1 + (n - 1) \div (BlockSize - 1)
RecCount(n) == IF n = 0 THEN 0 ELSE Place(n) + 2
FirstInBlock(n) == Place(n) % BlockSize = 0

-----------------------------------------------------------------------------
(* The indexes: std::map::insert keeps an element that is there *)

Insert(f, k, v) == [x \in DOMAIN f \cup {k} |-> IF x \in DOMAIN f THEN f[x] ELSE v]
Erase(f, k) == [x \in DOMAIN f \ {k} |-> f[x]]
Set(f, k, v) == [f EXCEPT ![k] = v]
EmptyMap == [x \in {} |-> 0]
ClearedIndexes == [users |-> EmptyMap, friends |-> {}, outbound |-> EmptyMap]

Info(balance, time) == [balance |-> balance, time |-> time]
Deflate(u, now) == IF u.balance = 0 THEN 0 ELSE Decay(now - u.time, u.balance)

-----------------------------------------------------------------------------
(* calc_fields_and_update_indexes_for(): the transaction with its calculated *)
(* fields and the new indexes, for a chain of n records                      *)

Outcome(x, t) == [index |-> x, tx |-> t]
Failed(x, t, r) == Outcome(x, [t EXCEPT !.result = r])
Booked(x, t, balance) ==
    Outcome(x, [t EXCEPT !.result = SUCCESS, !.new_balance = balance])

Creation(x, t, now) ==
    IF t.user \notin DOMAIN x.users THEN Failed(x, t, "UNKNOWN_LOCAL_USER")
    ELSE LET b == Deflate(x.users[t.user], now) + t.amount
         IN  Booked([x EXCEPT !.users = Set(@, t.user, Info(b, now))], t, b)

AddFriend(x, t) ==
    IF t.other \in x.friends THEN Failed(x, t, "GROUP_IS_ALREADY_FRIEND")
    ELSE Booked([x EXCEPT !.friends = @ \cup {t.other}], t, 0)
RemoveFriend(x, t) ==
    IF t.other \notin x.friends THEN Failed(x, t, "GROUP_IS_NOT_FRIEND")
    ELSE Booked([x EXCEPT !.friends = @ \ {t.other}], t, 0)

AddUser(x, t, now) ==
    IF t.user \in DOMAIN x.users THEN Failed(x, t, "USER_ALREADY_EXISTS")
    ELSE Booked([x EXCEPT !.users = Insert(@, t.user, Info(0, now))], t, 0)

\* pair is the result of the outbound half.
MoveUserInbound(x, t, now, pair) ==
    IF t.user \in DOMAIN x.users THEN Failed(x, t, "USER_ALREADY_EXISTS")
    ELSE IF pair # SUCCESS THEN Failed(x, t, "OUTBOUND_TRANSACTION_FAILED")
    ELSE Booked([x EXCEPT !.users = Insert(@, t.user, Info(0, now))], t, 0)

\* The place an outbound transaction is given in the index: -1 stands for
\* the largest uint64_t.
MutOutboundPlace(n) == RecCount(n)
OutboundPlace(n) == RecCount(n) - 1
WithOutbound(x, t, n) ==
    [x EXCEPT !.outbound = Insert(@, t.id, OutboundPlace(n))]

MoveUserOutbound(x, t, n) ==
    LET y == WithOutbound(x, t, n)
    IN  IF t.user \notin DOMAIN x.users THEN Failed(y, t, "UNKNOWN_LOCAL_USER")
        ELSE Booked([y EXCEPT !.users = Erase(@, t.user)], t, 0)

MutCovers(balance, amount) == TRUE
Covers(balance, amount) == balance >= amount

\* Transfers leave the decayed balance in the index and the new one in the
\* record.  A sender who is not found is dereferenced first; what is read is
\* not used then.
LocalTransfer(x, t, now) ==
    IF {t.user, t.to} \ DOMAIN x.users # {} THEN Failed(x, t, "UNKNOWN_LOCAL_USER")
    ELSE LET sent == Deflate(x.users[t.user], now)
             us == [x.users EXCEPT ![t.user].balance = sent]
             got == Deflate(us[t.to], now)
         IN  IF ~Covers(sent, t.amount) THEN Failed(x, t, "NOT_ENOUGH_GRADIDOS")
             ELSE Outcome([x EXCEPT !.users =
                              [us EXCEPT ![t.to] = Info(got, now), ![t.user].time = now]],
                          [t EXCEPT !.result = SUCCESS,
                                    !.new_balance = sent - t.amount,
                                    !.to_balance = got + t.amount])

MutPairOk(pair) == TRUE
PairOk(pair) == pair = SUCCESS
InboundTransfer(x, t, now, pair) ==
    IF t.user \notin DOMAIN x.users THEN Failed(x, t, "UNKNOWN_LOCAL_USER")
    ELSE IF ~PairOk(pair) THEN Failed(x, t, "OUTBOUND_TRANSACTION_FAILED")
    ELSE LET got == Deflate(x.users[t.user], now)
         IN  Booked([x EXCEPT !.users = Set(@, t.user, Info(got, now))], t,
                    got + t.amount)

OutboundTransfer(x, t, now, n) ==
    LET y == WithOutbound(x, t, n)
        sent == Deflate(x.users[t.user], now)
    IN  IF t.user \notin DOMAIN x.users THEN Failed(y, t, "UNKNOWN_LOCAL_USER")
        ELSE IF ~Covers(sent, t.amount) THEN Failed(y, t, "NOT_ENOUGH_GRADIDOS")
        ELSE Booked([y EXCEPT !.users = Set(@, t.user, Info(sent, now))], t,
                    sent - t.amount)

Calculated(x, t, n, pair) ==
    CASE t.type = "GRADIDO_CREATION" -> Creation(x, t, n + 1)
      [] t.type = "ADD_GROUP_FRIEND" -> AddFriend(x, t)
      [] t.type = "REMOVE_GROUP_FRIEND" -> RemoveFriend(x, t)
      [] t.type = "ADD_USER" -> AddUser(x, t, n + 1)
      [] t.type = "MOVE_USER_INBOUND" -> MoveUserInbound(x, t, n + 1, pair)
      [] t.type = "MOVE_USER_OUTBOUND" -> MoveUserOutbound(x, t, n)
      [] t.type = "LOCAL_TRANSFER" -> LocalTransfer(x, t, n + 1)
      [] t.type = "INBOUND_TRANSFER" -> InboundTransfer(x, t, n + 1, pair)
      [] t.type = "OUTBOUND_TRANSFER" -> OutboundTransfer(x, t, n + 1, n)

-----------------------------------------------------------------------------
(* add_index_data(): the indexes, built again from the records *)

MutCounts(t) == TRUE
Counts(t) == t.result = SUCCESS
Balanced(x, u, b, now) == [x EXCEPT !.users = Set(@, u, Info(b, now))]
\* A user who moved in gets no time stamp.
IndexRecord(x, t, n) ==
    CASE t.type \in {"GRADIDO_CREATION", "INBOUND_TRANSFER"} ->
           Balanced(x, t.user, t.new_balance, n)
      [] t.type = "ADD_GROUP_FRIEND" -> [x EXCEPT !.friends = @ \cup {t.other}]
      [] t.type = "REMOVE_GROUP_FRIEND" -> [x EXCEPT !.friends = @ \ {t.other}]
      [] t.type = "ADD_USER" ->
           [x EXCEPT !.users = Insert(@, t.user, Info(0, n))]
      [] t.type = "MOVE_USER_INBOUND" ->
           [x EXCEPT !.users = Insert(@, t.user, Info(t.new_balance, 0))]
      [] t.type = "MOVE_USER_OUTBOUND" ->
           [x EXCEPT !.users = Erase(@, t.user),
                     !.outbound = Insert(@, t.id, Place(n))]
      [] t.type = "LOCAL_TRANSFER" ->
           Balanced(Balanced(x, t.user, t.new_balance, n), t.to, t.to_balance, n)
      [] t.type = "OUTBOUND_TRANSFER" ->
           [Balanced(x, t.user, t.new_balance, n) EXCEPT
              !.outbound = Insert(@, t.id, Place(n))]
Indexed(x, t, n) == IF Counts(t) THEN IndexRecord(x, t, n) ELSE x
Rebuilt(records) ==
    LET upTo[n \in 0..Len(records)] ==
          IF n = 0 THEN ClearedIndexes ELSE Indexed(upTo[n-1], records[n], n)
    IN  upTo[Len(records)]

-----------------------------------------------------------------------------
(* The outbound half *)

\* What get_transaction() reads at a place: the result of a transaction, or
\* None.  Neither type nor id of a record are compared, nor whether it is one:
\* record_type is the first byte of a checksum.  When this byte happens to be
\* GRADIDO_TRANSACTION a checksum is a transaction, and the zeros behind it are
\* its result, SUCCESS.
Seen(result, checksum) == [result |-> result, checksum |-> checksum]
Checksums == {Seen(None, TRUE), Seen(SUCCESS, TRUE)}
IsRecord(g, p) == \E n \in DOMAIN chain[g] : p = Place(n)
ReadAt(g, p) ==
    IF p \notin 0..RecCount(Len(chain[g])) - 1 THEN {Seen(None, FALSE)}
    ELSE IF IsRecord(g, p)
    THEN {Seen(chain[g][n].result, FALSE) : n \in {m \in DOMAIN chain[g] : Place(m) = p}}
    ELSE Checksums
\* b->get_paired_transaction() and b->get_transaction(), unlocked.  For a
\* user who moves in, the outcome of the first call is ignored, and a place
\* that was not found is an uninitialized variable: any place may be read.
PairsIn(g, t) ==
    IF t.id \in DOMAIN index[g].outbound THEN ReadAt(g, index[g].outbound[t.id])
    ELSE IF t.type = "MOVE_USER_INBOUND"
    THEN UNION {ReadAt(g, p) : p \in -1..RecCount(Len(chain[g])) - 1}
    ELSE {Seen(None, FALSE)}
\* found: the pair that on_paired_transaction_done() left is the right one.
IsPair(t, p) == p.id = t.id /\ p.type = IF t.type = "INBOUND_TRANSFER"
                                        THEN "OUTBOUND_TRANSFER"
                                        ELSE "MOVE_USER_OUTBOUND"
Found(g, t) == other_group[g] = t.other /\ IsPair(t, paired_tr[g])
Pairs(g, t) == IF Found(g, t) THEN {Seen(paired_tr[g].result, FALSE)}
               ELSE IF t.other \in Hosted THEN PairsIn(t.other, t)
               ELSE {Seen(None, FALSE)}
NeedsPair(g, t) ==
    \/ t.type = "INBOUND_TRANSFER" /\ t.user \in DOMAIN index[g].users
    \/ t.type = "MOVE_USER_INBOUND" /\ t.user \notin DOMAIN index[g].users

NoPair == [type |-> None, id |-> None, result |-> SUCCESS]
\* get_block_record() sends the payload of the record; on_paired_transaction()
\* copies it over a whole Record, which starts with one byte more.  The
\* transaction it passes on has no type and no id that would fit.
AsReceived(t) == NoPair

\* A request for a pair: add, an AddPairedTask is queued; next, whether the
\* stream is open, has one message left, or a TryPairedAgainTask is due.
Request(t) == [id |-> t.id, group |-> t.other, add |-> FALSE, next |-> "open"]
NoRequest == [id |-> None, group |-> None, add |-> FALSE, next |-> "none"]
Idle(c) == requests[c] = NoRequest
\* What is left of a request; one with nothing left to do is gone.
Left(q) == IF ~q.add /\ q.next = "none" THEN NoRequest ELSE q
Reduced(c, q) == [requests EXCEPT ![c] = Left(q)]
Free == [conn |-> None, group |-> None]

Init ==
    /\ chain = Prefix
    /\ index = [g \in Groups |-> Rebuilt(Prefix[g])]
    /\ cur = [g \in Groups |-> NoTx] /\ stage = [g \in Groups |-> "none"]
    /\ continues = [g \in Groups |-> 0]
    /\ waiting_for_paired = [g \in Groups |-> FALSE]
    /\ other_group = [g \in Groups |-> None]
    /\ paired_tr = [g \in Groups |-> NoPair]
    /\ waiting = [i \in Ids |-> None]
    /\ requests = [c \in Conns |-> NoRequest] /\ facade = Free
    /\ siblings \in Siblings
    /\ misread = {} /\ broken = {} /\ refused = {}

\* An exception ends the process.  The next one validates the chains, builds
\* the indexes again, and its topics deliver the last transaction again.
Exit ==
    /\ index' = [g \in Groups |-> IF g \in Hosted THEN Rebuilt(chain[g]) ELSE index[g]]
    /\ stage' = [g \in Groups |-> IF g \in Hosted /\ stage[g] # "none"
                                  THEN "calc" ELSE stage[g]]
    /\ continues' = [g \in Groups |-> IF g \notin Hosted THEN continues[g]
                                      ELSE IF stage[g] = "none" THEN 0 ELSE 1]
    /\ waiting_for_paired' = [g \in Groups |-> FALSE]
    /\ other_group' = [g \in Groups |-> None]
    /\ paired_tr' = [g \in Groups |-> NoPair]
    /\ waiting' = [i \in Ids |-> None]
    /\ requests' = [c \in Conns |-> NoRequest] /\ facade' = Free
    /\ broken' = {} /\ refused' = {}
    /\ misread' = {m \in misread : m[2] \in DOMAIN chain[m[1]]}
    /\ cur' = [g \in Groups |-> IF g \in Hosted THEN Delivered(cur[g]) ELSE cur[g]]
    /\ UNCHANGED <<chain, siblings>>
Crash == Crashes /\ Exit

-----------------------------------------------------------------------------
(* A group *)

Deliver(g) ==
    /\ stage[g] = "none" /\ Len(chain[g]) < MaxLen[g]
    /\ \E t \in Topics[g] : cur' = [cur EXCEPT ![g] = t]
    /\ stage' = [stage EXCEPT ![g] = "calc"]
    /\ continues' = [continues EXCEPT ![g] = @ + 1]
    /\ UNCHANGED <<chain, index, pairVars, facadeVars, history>>

\* An older message comes again, as after each restart: the one that waits is
\* looked at first, the older one is omitted.  When none waits there is nothing
\* to look at.
Redeliver(g) ==
    /\ g \in Repeating /\ stage[g] = "calc" /\ continues[g] = 0
    /\ continues' = [continues EXCEPT ![g] = 1]
    /\ UNCHANGED <<chainVars, pairVars, facadeVars, history>>

\* A task of continue_with_transactions() gets the lock of the chain.
Unlocked(g) == stage[g] \in {"none", "calc"}
Continue(g) ==
    /\ continues[g] > 0 /\ Unlocked(g)
    /\ continues' = [continues EXCEPT ![g] = @ - 1]

\* The queue is empty, or the chain waits for a pair.
Nothing(g) ==
    /\ Continue(g) /\ (stage[g] = "none" \/ waiting_for_paired[g])
    /\ UNCHANGED <<chainVars, pairVars, facadeVars, history>>

\* A transaction without a pair is calculated; one with a pair needs the lock of
\* the facade too, for get_group_blockchain() and what follows it.
Starts(g) == Continue(g) /\ stage[g] = "calc" /\ ~waiting_for_paired[g]
Store(g, pair) ==
    /\ LET o == Calculated(index[g], cur[g], Len(chain[g]), pair)
       IN  /\ index' = [index EXCEPT ![g] = o.index]
           /\ cur' = [cur EXCEPT ![g] = o.tx]
    /\ stage' = [stage EXCEPT ![g] = "append"]
    /\ UNCHANGED <<chain, pairVars, facadeVars, broken, refused>>
Calculate(g) ==
    Starts(g) /\ ~NeedsPair(g, cur[g]) /\ Store(g, SUCCESS) /\ UNCHANGED misread
Enter(g) ==
    /\ Starts(g) /\ NeedsPair(g, cur[g])
    /\ stage' = [stage EXCEPT ![g] = "locked"]
    /\ UNCHANGED <<chain, index, cur, pairVars, facadeVars, history>>
CalculatePaired(g) ==
    /\ stage[g] = "locked" /\ facade = Free
    /\ \E seen \in Pairs(g, cur[g]) :
         /\ seen.result # None /\ Store(g, seen.result)
         /\ misread' = IF seen.checksum THEN misread \cup {<<g, Len(chain[g]) + 1>>}
                                        ELSE misread
    /\ UNCHANGED continues

AppendRecord(g) ==
    /\ stage[g] = "append"
    /\ chain' = [chain EXCEPT ![g] = Append(@, cur[g])]
    /\ cur' = [cur EXCEPT ![g] = NoTx]
    /\ stage' = [stage EXCEPT ![g] = "none"]
    /\ UNCHANGED <<index, continues, pairVars, facadeVars, history>>

NoPairYet(g) ==
    /\ stage[g] = "locked" /\ facade = Free
    /\ \E seen \in Pairs(g, cur[g]) : seen.result = None

\* exec_once_paired_transaction_done(group, ptl, hti): one listener for an id.
Ask(g, t) ==
    \/ /\ waiting[t.id] # None
       /\ refused' = IF waiting[t.id] = g THEN refused \ {g} ELSE refused \cup {g}
       /\ UNCHANGED <<waiting, requests, broken>>
    \/ /\ waiting[t.id] = None
       /\ waiting' = [waiting EXCEPT ![t.id] = g]
       /\ \E c \in Conns : Idle(c) /\ requests' = [requests EXCEPT ![c] = Request(t)]
       /\ refused' = refused \ {g} /\ broken' = broken \ {t.id}
HoldsBack(t) == t.type = "MOVE_USER_INBOUND"
Wait(g) ==
    /\ NoPairYet(g) /\ siblings > 0
    /\ stage' = [stage EXCEPT ![g] = "calc"]
    /\ other_group' = [other_group EXCEPT ![g] = cur[g].other]
    /\ waiting_for_paired' = [waiting_for_paired EXCEPT ![g] = HoldsBack(cur[g])]
    /\ Ask(g, cur[g])
    /\ UNCHANGED <<chain, index, cur, continues, paired_tr, siblings, facade, misread>>
NobodyToAsk(g) == NoPairYet(g) /\ siblings = 0 /\ Exit

-----------------------------------------------------------------------------
(* A request for a pair *)

\* What the OutboundProvider of the sibling may find.
Outbounds(c) == {t \in Range(chain[requests[c].group]) :
                    t.type \in OutboundTypes /\ t.id = requests[c].id}
ReplyPair(c) ==
    /\ requests[c].next = "open" /\ Outbounds(c) # {}
    /\ requests' = [requests EXCEPT ![c].add = TRUE, ![c].next = "final"]
    /\ UNCHANGED <<chainVars, continues, pairVars, waiting, facade, history>>

\* The only message without a pair, or the one that ends the stream.
MutAfterNoPair == "none"
AfterNoPair == "retry"
ReplyNoPair(c) ==
    /\ \/ requests[c].next = "open" /\ (SiblingLags \/ Outbounds(c) = {})
       \/ requests[c].next = "final"
    /\ requests' = Reduced(c, [requests[c] EXCEPT !.next = AfterNoPair])
    /\ UNCHANGED <<chainVars, continues, pairVars, waiting, facade, history>>

\* A stream that breaks: PollService::run() ignores an event that is not ok, and
\* the facade is not called.
BreakStream(c) ==
    /\ StreamsBreak /\ requests[c].next \in {"open", "final"}
    /\ requests' = Reduced(c, [requests[c] EXCEPT !.next = "none"])
    /\ broken' = broken \cup {requests[c].id}
    /\ UNCHANGED <<chainVars, continues, pairVars, waiting, facade, misread, refused>>

\* TryPairedAgainTask: exec_once_paired_transaction_done(hti).
RetryDue(c) == requests[c].next = "retry" /\ facade = Free
TryPairedAgain(c) ==
    /\ RetryDue(c) /\ waiting[requests[c].id] # None
    /\ \E d \in Conns :
         /\ Idle(d) \/ (d = c /\ ~requests[c].add)
         /\ requests' = [Reduced(c, [requests[c] EXCEPT !.next = "none"]) EXCEPT
                           ![d] = [requests[c] EXCEPT !.add = FALSE, !.next = "open"]]
    /\ UNCHANGED <<chainVars, continues, pairVars, waiting, facade, history>>
CannotContinue(c) == RetryDue(c) /\ waiting[requests[c].id] = None /\ Exit

\* AddPairedTask: on_paired_transaction(), with the lock of the facade from its
\* first line to its last, and on_paired_transaction_done() with that of the
\* chain as well.
PairDue(c) == requests[c].add /\ facade = Free
OnPaired(c) ==
    /\ PairDue(c) /\ waiting[requests[c].id] # None
    /\ facade' = [conn |-> c, group |-> waiting[requests[c].id]]
    /\ waiting' = [waiting EXCEPT ![requests[c].id] = None]
    /\ UNCHANGED <<chainVars, continues, pairVars, requests, history>>
\* The listener is read from the entry of the map that was erased before: it may
\* still be there (OnPaired), or the process ends.
ErasedListener(c) == PairDue(c) /\ waiting[requests[c].id] # None /\ Exit
AddPaired(c) ==
    /\ facade.conn = c
    /\ LET g == facade.group
       IN  /\ Unlocked(g)
           /\ waiting_for_paired' = [waiting_for_paired EXCEPT ![g] = FALSE]
           /\ \E t \in Outbounds(c) :
                paired_tr' = [paired_tr EXCEPT ![g] = AsReceived(t)]
           /\ continues' = [continues EXCEPT ![g] = @ + 1]
    /\ requests' = Reduced(c, [requests[c] EXCEPT !.add = FALSE]) /\ facade' = Free
    /\ UNCHANGED <<chainVars, other_group, siblings, waiting, history>>
UnexpectedPair(c) == PairDue(c) /\ waiting[requests[c].id] = None /\ Exit

-----------------------------------------------------------------------------
GroupStep(g) ==
    \/ Nothing(g) \/ Calculate(g) \/ Enter(g) \/ CalculatePaired(g)
    \/ AppendRecord(g) \/ Wait(g) \/ NobodyToAsk(g)
RequestStep(c) ==
    \/ ReplyPair(c) \/ ReplyNoPair(c) \/ TryPairedAgain(c)
    \/ CannotContinue(c) \/ OnPaired(c) \/ ErasedListener(c) \/ AddPaired(c)
    \/ UnexpectedPair(c)
Next ==
    \/ \E g \in Groups : GroupStep(g) \/ Deliver(g) \/ Redeliver(g)
    \/ \E c \in Conns : RequestStep(c) \/ BreakStream(c)
    \/ Crash
Spec == Init /\ [][Next]_vars

\* Workers run queued tasks, streams deliver, delayed tasks fire.  Topics owe
\* nothing and the process need not end.
FairSpec ==
    /\ Spec
    /\ \A g \in Groups : WF_vars(GroupStep(g))
    /\ \A c \in Conns : WF_vars(RequestStep(c))

-----------------------------------------------------------------------------
(* Properties *)

IndexType(x, n) ==
    /\ DOMAIN x.users \subseteq Users /\ x.friends \subseteq Groups
    /\ \A u \in DOMAIN x.users :
         x.users[u].balance \in Nat /\ x.users[u].time \in 0..n+1
    /\ DOMAIN x.outbound \subseteq Ids
    /\ \A i \in DOMAIN x.outbound : x.outbound[i] \in -1..RecCount(n)
TxType(t) ==
    t.result \in Results /\ t.new_balance \in Nat /\ t.to_balance \in Nat

\* TypeOK: the types of the variables; no record shows a negative balance.
TypeOK ==
    /\ \A g \in Groups :
         /\ IndexType(index[g], Len(chain[g])) /\ TxType(cur[g])
         /\ \A n \in DOMAIN chain[g] : TxType(chain[g][n])
         /\ stage[g] \in {"none", "calc", "locked", "append"}
         /\ continues[g] \in Nat
         /\ other_group[g] \in Groups \cup {None}
    /\ waiting \in [Ids -> Hosted \cup {None}]
    /\ facade.conn \in Conns \cup {None} /\ facade.group \in Hosted \cup {None}
    /\ misread \subseteq Groups \X Nat /\ broken \subseteq Ids /\ refused \subseteq Groups
    /\ \A c \in Conns : requests[c].next \in {"none", "open", "final", "retry"}

Settled(g) == stage[g] # "append"

\* UsersMatch: the users and friends a ledger keeps while it appends are the
\* ones add_index_data() finds in the records, whatever failed and whoever
\* moved (#00022, #00023).
UsersMatch ==
    \A g \in Groups : Settled(g) =>
        LET x == Rebuilt(chain[g])
        IN  /\ DOMAIN index[g].users = DOMAIN x.users
            /\ index[g].friends = x.friends

\* OutboundPoints: the place the index gives for an outbound transaction, taken
\* from the count of records before the append or from the records after a
\* restart, is that of a record with this id; or, when that one is the first of
\* its block, the place just before it.
PointsTo(s, i, p) ==
    \E n \in DOMAIN s :
        /\ s[n].type \in OutboundTypes /\ s[n].id = i
        /\ p = Place(n) \/ (FirstInBlock(n) /\ p = Place(n) - 1)
OutboundPoints ==
    \A g \in Groups : Settled(g) => \A i \in DOMAIN index[g].outbound :
        PointsTo(chain[g], i, index[g].outbound[i])

IsHalf(o, t) == o.type \in OutboundTypes /\ o.id = t.id
Succeeded(t, type) == t.type = type /\ t.result = SUCCESS
SucceededBefore(t) == \E o \in Range(chain[t.other]) : IsHalf(o, t) /\ o.result = SUCCESS

\* PairedFirst: an inbound transfer succeeds only after its outbound half has
\* succeeded in the chain of the sender's group (#01016), however the two chains,
\* their restarts and the requests to the sibling interleave.  A checksum that
\* get_transaction() takes for a transaction is the only exception, and even
\* then the outbound half is stored, or the one its group works on.
PairedFirst ==
    \A g \in Groups : \A n \in DOMAIN chain[g] :
        LET t == chain[g][n]
        IN  Succeeded(t, "INBOUND_TRANSFER") =>
              IF <<g, n>> \notin misread THEN SucceededBefore(t)
              ELSE \E o \in Range(chain[t.other]) \cup {cur[t.other]} : IsHalf(o, t)

\* NoChecksumRead: there is no such exception (#01016).
NoChecksumRead ==
    \A g \in Groups : \A n \in DOMAIN chain[g] :
        Succeeded(chain[g][n], "INBOUND_TRANSFER") => SucceededBefore(chain[g][n])

\* Awaited: a chain that waits for a pair is being called, or it is registered
\* for it and a stream, a task or a retry is there that leads to the call.  It is
\* left alone only by a stream that broke after it had registered, and by another
\* chain that had registered for the same id when it asked.
UnderWay(i) ==
    \E c \in Conns :
        /\ requests[c].id = i
        /\ requests[c].add \/ requests[c].next \in {"open", "retry"}
Awaited ==
    \A g \in Hosted : stage[g] = "calc" /\ continues[g] = 0 =>
        \/ facade.group = g \/ g \in refused
        \/ /\ waiting[cur[g].id] = g
           /\ UnderWay(cur[g].id) \/ cur[g].id \in broken

\* MovesApart: on_paired_transaction() takes the lock of the facade and then that
\* of a chain, a chain that looks for a pair takes them the other way round.
\* That both wait for each other takes an inbound transfer, the one at hand or an
\* earlier one: a chain that only waits for users who move in is held back by
\* waiting_for_paired until it is called.
Heard(g) == Range(chain[g]) \cup {cur[g]}
Embrace(g) == facade.group = g /\ stage[g] = "locked"

\* NoEmbrace: the two locks are never waited for in a circle.
NoEmbrace == \A g \in Groups : ~Embrace(g)

\* BalanceMatches: the balance the ledger works with is the one its last
\* successful transaction shows (#01032).
BalanceMatches ==
    \A g \in Groups : Settled(g) =>
        LET x == Rebuilt(chain[g])
        IN  \A u \in DOMAIN x.users : index[g].users[u].balance = x.users[u].balance

\* MovedFirst: a user moves in only after moving out (#01016, #01025).
MovedFirst ==
    \A g \in Groups : \A n \in DOMAIN chain[g] :
        Succeeded(chain[g][n], "MOVE_USER_INBOUND") => SucceededBefore(chain[g][n])

\* InboundDecided: an outbound transaction results in an inbound one (#01022):
\* one that waits for a pair that is stored is appended in the end.
InboundDecided ==
    \A g \in Hosted :
        (/\ stage[g] = "calc" /\ cur[g].type \in InboundTypes
         /\ \E o \in Range(chain[cur[g].other]) : IsHalf(o, cur[g]))
          ~> stage[g] = "none"

=============================================================================
