---------------------------- MODULE HttpManager ----------------------------
(***************************************************************************)
(* base/xrtc_http.cpp: requests are handed to curl by the thread that      *)
(* makes them, and finished on the http thread, which posts each reply to  *)
(* the worker thread together with the address of the object that asked.   *)
(* The worker thread delivers it if the address is in async_objs_.         *)
(***************************************************************************)
EXTENDS Naturals, Sequences

CONSTANTS
    Requests,       \* requests that may be made: <<object, kind>>
    Outcomes,       \* what may come back, by kind
    Nobody          \* the holder of mutex_ when no thread holds it

VARIABLES
    mutex,          \* thread inside Post, or Nobody
    transfers,      \* requests whose handle curl works on
    messages,       \* curl's queue of finished transfers: <<request, outcome>>
    request_list,   \* request_list_
    reading,        \* the message the http thread has read, or <<>>
    async_objs,     \* async_objs_
    workerQueue     \* tasks of the worker thread

httpVars == <<mutex, transfers, messages, request_list, reading, async_objs,
              workerQueue>>

HttpInit ==
    /\ mutex = Nobody
    /\ transfers = {}
    /\ messages = <<>>
    /\ request_list = {}
    /\ reading = <<>>
    /\ async_objs = {}
    /\ workerQueue = <<>>

Owner(r) == r[1]

AddObjectTask(obj) == [op |-> "AddObject", obj |-> obj]

\* [mutant: RemoveObjectTask] The task takes another address than AddObject's.
RemoveObjectTaskOther(obj) == [op |-> "RemoveObject", obj |-> Nobody]

RemoveObjectTask(obj) == [op |-> "RemoveObject", obj |-> obj]

ReplyTask(message) ==
    [op |-> "Reply", obj |-> Owner(message[1]), request |-> message[1],
     outcome |-> message[2]]

\* [mutant: AddHandle] Post does not take the lock.
AddHandleUnlocked(thread, r) ==
    /\ transfers' = transfers \cup {r}
    /\ mutex' = mutex
    /\ UNCHANGED <<messages, request_list, reading, async_objs, workerQueue>>

\* The constructor of HttpRequestTask adds the handle, under mutex_.
AddHandle(thread, r) ==
    /\ mutex = Nobody
    /\ mutex' = thread
    /\ transfers' = transfers \cup {r}
    /\ UNCHANGED <<messages, request_list, reading, async_objs, workerQueue>>

\* Post remembers the request and leaves.
Remember(r) ==
    /\ request_list' = request_list \cup {r}
    /\ mutex' = Nobody
    /\ UNCHANGED <<transfers, messages, reading, async_objs, workerQueue>>

\* curl finishes a transfer: an answer, an error, or one of the two timeouts.
TransferEnds(r) ==
    /\ r \in transfers
    /\ transfers' = transfers \ {r}
    /\ \E outcome \in Outcomes[r[2]] : messages' = Append(messages, <<r, outcome>>)
    /\ UNCHANGED <<mutex, request_list, reading, async_objs, workerQueue>>

\* [mutant: ReadMessage] What else has ended by then is forgotten.
ReadMessageOnly ==
    /\ reading = <<>>
    /\ messages # <<>>
    /\ reading' = Head(messages)
    /\ messages' = <<>>
    /\ UNCHANGED <<mutex, transfers, request_list, async_objs, workerQueue>>

\* A round of the loop reads one finished transfer; the others wait for the
\* next round, which the timeout of curl_multi_poll brings at the latest.
ReadMessage ==
    /\ reading = <<>>
    /\ messages # <<>>
    /\ reading' = Head(messages)
    /\ messages' = Tail(messages)
    /\ UNCHANGED <<mutex, transfers, request_list, async_objs, workerQueue>>

\* GetHttpRequestTask takes the request out of the list, and its reply is posted.
PostReply ==
    /\ reading # <<>>
    /\ mutex = Nobody
    /\ reading' = <<>>
    /\ request_list' = request_list \ {reading[1]}
    /\ workerQueue' = IF reading[1] \in request_list
                      THEN Append(workerQueue, ReplyTask(reading))
                      ELSE workerQueue
    /\ UNCHANGED <<mutex, transfers, messages, async_objs>>

HttpNext == ReadMessage \/ PostReply \/ \E r \in Requests : TransferEnds(r)

\* The next task of the worker thread, of one of the two kinds that only
\* change async_objs_.
ChangeObjects ==
    /\ workerQueue # <<>>
    /\ LET task == Head(workerQueue) IN
       \/ task.op = "AddObject" /\ async_objs' = async_objs \cup {task.obj}
       \/ task.op = "RemoveObject" /\ async_objs' = async_objs \ {task.obj}
    /\ workerQueue' = Tail(workerQueue)
    /\ UNCHANGED <<mutex, transfers, messages, request_list, reading>>
============================================================================
