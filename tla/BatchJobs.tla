----------------------------- MODULE BatchJobs -----------------------------
(* A caller that submits a batch, again if it has to, waits for it, cancels *)
(* it and reads its results, over a network that loses and delays what is   *)
(* sent and a provider that runs jobs at its own pace. Every operation of   *)
(* the three batch clients is a chain of HTTP calls (RetryTransport); an    *)
(* attempt is one step, in which the provider may act whatever the client   *)
(* is told, and a create the client has given up on may arrive later.       *)
EXTENDS RetryTransport, Sequences

CONSTANTS Backends,      \* a subset of {"openai", "anthropic", "gemini"}
          Digests,       \* the requests submitted under the recovery key
          PageSize, MaxPages, \* the inventory a recovery reads
          Hints,         \* Retry-After values, 0: none
          Deadlines,     \* time an operation's context has, or NoDeadline
          BigDigests,    \* those whose results, inline, exceed 16 KiB
          MaxJobs, MaxSubmits, MaxLate  \* bounds of the model

ASSUME BatchAssumption ==
    /\ Backends \subseteq {"openai", "anthropic", "gemini"}
    /\ PageSize \in Nat \ {0} /\ Hints \subseteq Nat /\ Deadlines \subseteq Nat \union {NoDeadline}

VARIABLES backend,  \* the client's provider
          jobs,     \* the provider's jobs, oldest first
          late,     \* creates on their way that nobody waits for any more
          arrived,  \* how many of those made a job (ghost)
          submits,  \* Submit calls so far
          op,       \* the caller's operation and how far it is
          call,     \* its HTTP call
          held,     \* the job of the handle the caller has, 0: none
          told      \* what the last operation returned
vars == <<backend, jobs, late, arrived, submits, op, call, held, told>>

NoOp   == [name |-> "none"]
NoCall == [what |-> "none"]
NoAnswer == [op |-> "none", ok |-> FALSE, job |-> 0, why |-> "none"]
OthersJob == [key |-> "other", digest |-> "none", submit |-> 0, status |-> "completed", big |-> FALSE]

Terminal(status) == status \in {"completed", "cancelled"}
CancelSeen(status) == Terminal(status) \/ status = "cancelling"

(* The keyed jobs among the first n.                                        *)
Keyed(n) == {i \in 1..n : jobs[i].key = "mine"}

(* OpenAI's client sends what changes something once, the others mark a     *)
(* create as not to be resent.                                              *)
CallOf(what, left) ==
    NewCall(what, what = "create" /\ backend # "openai",
            backend = "openai" /\ what \in {"upload", "create", "cancel"}, left)

(* The operation goes on with another call, or ends.                        *)
Starts(o, what) == /\ op' = o /\ told' = NoAnswer
                   /\ \E left \in Deadlines : call' = CallOf(what, left)
                   /\ UNCHANGED held
Goes(o, what)   == op' = o /\ call' = CallOf(what, call.left) /\ UNCHANGED <<held, told>>
Ends(ok, job, why) == /\ op' = NoOp /\ call' = NoCall
                      /\ told' = [op |-> op.name, ok |-> ok, job |-> job, why |-> why]
                      /\ held' = IF ok THEN job ELSE held
Fails(why)     == Ends(FALSE, 0, why)
Returns(i)     == Ends(TRUE, i, "none")

Idle == op = NoOp

Scan(name, digest, stage) ==
    [name |-> name, digest |-> digest, stage |-> stage, found |-> 0, cursor |-> 0, seen |-> 0, page |-> 0]

-----------------------------------------------------------------------------
Init == /\ backend \in Backends
        /\ jobs = <<>> /\ late = {} /\ arrived = 0 /\ submits = 0
        /\ op = NoOp /\ call = NoCall /\ held = 0 /\ told = NoAnswer

(* Faulty: the recovery key is looked up only after a failure.              *)
SubmitWithoutLookup(d) ==
    /\ Idle /\ submits < MaxSubmits /\ backend = "openai"
    /\ submits' = submits + 1
    /\ Starts(Scan("submit", d, "create"), "upload")
    /\ UNCHANGED <<backend, jobs, late, arrived>>

(* OpenAI's Submit looks the recovery key up before it uploads and creates. *)
Submit(d) ==
    /\ Idle /\ submits < MaxSubmits /\ backend = "openai"
    /\ submits' = submits + 1
    /\ Starts(Scan("submit", d, "lookup"), "list")
    /\ UNCHANGED <<backend, jobs, late, arrived>>

(* Anthropic's and Gemini's create, in one call that carries the requests.  *)
SubmitInline(d) ==
    /\ Idle /\ submits < MaxSubmits /\ backend # "openai"
    /\ submits' = submits + 1
    /\ Starts(Scan("submit", d, "create"), "create")
    /\ UNCHANGED <<backend, jobs, late, arrived>>

Recover ==
    /\ Idle /\ backend = "openai"
    /\ Starts(Scan("recover", "none", "lookup"), "list")
    /\ UNCHANGED <<backend, jobs, late, arrived, submits>>

(* WaitForBatch is Get until the job is terminal.                           *)
Get(name) ==
    /\ Idle /\ held # 0
    /\ Starts([name |-> name, stage |-> "get"], "get")
    /\ UNCHANGED <<backend, jobs, late, arrived, submits>>

(* OpenAI's Cancel looks at the job first, the others' do not.              *)
Cancel ==
    /\ Idle /\ held # 0 /\ backend = "openai"
    /\ Starts([name |-> "cancel", stage |-> "look"], "get")
    /\ UNCHANGED <<backend, jobs, late, arrived, submits>>

CancelDirectly ==
    /\ Idle /\ held # 0 /\ backend # "openai"
    /\ Starts([name |-> "cancel", stage |-> "post"], "cancel")
    /\ UNCHANGED <<backend, jobs, late, arrived, submits>>

-----------------------------------------------------------------------------
(* The provider (external). What it does with a call it acts on:            *)
NewJob == [key |-> "mine", digest |-> op.digest, submit |-> submits, status |-> "running", big |-> op.digest \in BigDigests]

Creates   == call.what = "create"
RefusesIt == call.what = "cancel" /\ Terminal(jobs[held].status)
Acted ==
    CASE Creates /\ Len(jobs) < MaxJobs -> Append(jobs, NewJob)
      [] call.what = "cancel" /\ ~ RefusesIt -> [jobs EXCEPT ![held].status = IF CancelSeen(@) THEN @ ELSE "cancelling"]
      [] OTHER -> jobs

(* A handle carries the adapter's state, which Validate limits to 16 KiB;   *)
(* Gemini's holds the results.                                              *)
ValidHandle(js, i) == ~ (backend = "gemini" /\ js[i].status = "completed" /\ js[i].big)

ReturnsHandle(js, i) == IF ValidHandle(js, i) THEN Returns(i) ELSE Fails("own validation")

(* requireRecoveredBatch.                                                   *)
RequireRecovered(js, i) ==
    IF op.name = "submit" /\ js[i].digest # op.digest THEN Fails("conflict") ELSE Returns(i)

(* One page of the inventory, newest first, from the cursor on. A second    *)
(* match is a conflict; the lookup ends with the last page.                 *)
Page(js) ==
    LET from  == IF op.cursor = 0 THEN Len(js) ELSE op.cursor - 1
        low   == Max({1, from - PageSize + 1})
        hits  == {i \in low..from : js[i].key = "mine"}
        found == IF hits = {} THEN op.found ELSE Max(hits)
        seen  == IF op.cursor = 0 THEN Len(js) ELSE op.seen
        more  == low > 1
    IN [found |-> found, cursor |-> low, seen |-> seen, more |-> more,
        conflict |-> Cardinality(hits \union ({op.found} \ {0})) > 1]

NotFound ==
    IF op.name = "recover" THEN Fails("not found")
    ELSE IF op.stage = "lookup" THEN Goes([op EXCEPT !.stage = "upload"], "upload")
    ELSE Fails("lost")

(* Faulty: the lookup ends with the first match.                            *)
ListedFirst(js) ==
    LET p == Page(js)
        o == [op EXCEPT !.found = p.found, !.cursor = p.cursor, !.seen = p.seen, !.page = @ + 1]
    IN IF p.found # 0 THEN RequireRecovered(js, p.found)
       ELSE IF ~ p.more THEN NotFound
       ELSE IF o.page = MaxPages THEN Fails("too many pages") ELSE Goes(o, "list")

Listed(js) ==
    LET p == Page(js)
        o == [op EXCEPT !.found = p.found, !.cursor = p.cursor, !.seen = p.seen, !.page = @ + 1]
    IN IF p.conflict THEN Fails("conflict")
       ELSE IF p.more THEN IF o.page = MaxPages THEN Fails("too many pages") ELSE Goes(o, "list")
       ELSE IF p.found # 0 THEN RequireRecovered(js, p.found) ELSE NotFound

(* WaitForBatch goes on until the job is terminal; a Cancel posts unless    *)
(* what it wants is so already, and afterwards wants to see it.             *)
Seen(js) ==
    LET status == js[held].status
    IN CASE op.name = "wait" /\ ~ Terminal(status) -> Goes(op, "get")
         [] op.stage = "look" /\ ~ CancelSeen(status) -> Goes([op EXCEPT !.stage = "post"], "cancel")
         [] op.stage = "verify" /\ backend = "openai" ->
                IF CancelSeen(status) THEN Returns(held) ELSE Fails("not cancelled")
         [] OTHER -> ReturnsHandle(js, held)

(* Gemini's answer to a cancel may be empty: it gets the job again.         *)
Cancelled == IF backend = "gemini" THEN Goes([op EXCEPT !.stage = "verify"], "get") ELSE Returns(held)

(* The operation after a call that was answered with success.               *)
Succeeds(js) ==
    CASE call.what = "list"   -> Listed(js)
      [] call.what = "upload" -> Goes([op EXCEPT !.stage = "create"], "create")
      [] call.what = "create" -> Returns(Len(js))
      [] call.what = "cancel" -> Cancelled
      [] call.what = "get"    -> Seen(js)

(* Faulty: a cancel that was not answered is an error.                      *)
UnansweredCancelFails(done) ==
    IF done THEN Fails("context")
    ELSE IF Creates /\ backend = "openai" THEN Goes(Scan(op.name, op.digest, "reconcile"), "list")
    ELSE Fails("call")

(* After a call that was not: OpenAI's client looks up what became of a     *)
(* create, and at the job after a cancel, unless the context is done.       *)
Unanswered(done) ==
    IF done THEN Fails("context")
    ELSE IF backend # "openai" THEN Fails("call")
    ELSE CASE call.what = "create" -> Goes(Scan(op.name, op.digest, "reconcile"), "list")
           [] call.what = "cancel" -> Goes([op EXCEPT !.stage = "verify"], "get")
           [] OTHER -> Fails("call")

-----------------------------------------------------------------------------
(* An attempt, which takes no time or one unit of it, and its outcome.      *)
Attempting == ~ Idle /\ call.wait = 0 /\ call.left # 0
Room       == Creates => Len(jobs) < MaxJobs

Served ==
    /\ Attempting /\ Room /\ ~ RefusesIt
    /\ jobs' = Acted /\ Succeeds(Acted)
    /\ UNCHANGED <<backend, late, arrived, submits>>

(* Acted on and answered with 2xx, but the answer cannot be decoded.        *)
Garbled ==
    /\ Attempting /\ Room /\ ~ RefusesIt
    /\ jobs' = Acted /\ Unanswered(FALSE)
    /\ UNCHANGED <<backend, late, arrived, submits>>

Refused ==
    /\ Attempting /\ Unanswered(FALSE)
    /\ UNCHANGED <<backend, jobs, late, arrived, submits>>

(* The attempt failed: the call sleeps before the next one, or is over.     *)
AttemptFails(failure, hint, time) ==
    LET c == Spend(call, time)
    IN \/ \E a \in Asleep(c, failure, hint) : call' = a /\ UNCHANGED <<op, held, told>>
       \/ GivesUp(c, failure, hint) /\ Unanswered(FALSE)

(* The provider acts on a request the client hears nothing good of, does    *)
(* not, or acts later.                                                      *)
Fate == \/ jobs' = Acted /\ UNCHANGED <<late, arrived>>
        \/ UNCHANGED <<jobs, late, arrived>>
        \/ /\ Creates /\ Cardinality(late) < MaxLate
           /\ late' = late \union {NewJob} /\ UNCHANGED <<jobs, arrived>>

Busy(hint) ==
    /\ Attempting /\ AttemptFails("429", hint, 0)
    /\ UNCHANGED <<backend, jobs, late, arrived, submits>>

NoConnection ==
    /\ Attempting /\ AttemptFails("dial", 0, 0)
    /\ UNCHANGED <<backend, jobs, late, arrived, submits>>

Broken(failure, time) ==
    /\ Attempting /\ Fate /\ AttemptFails(failure, 0, time)
    /\ UNCHANGED <<backend, submits>>

Wakes ==
    /\ ~ Idle /\ call.wait > 0
    /\ call' = Awake(call)
    /\ UNCHANGED <<backend, jobs, late, arrived, submits, op, held, told>>

(* The caller gives up, in an attempt or asleep, or crashes.                *)
ContextDone ==
    /\ ~ Idle
    /\ IF call.wait > 0 THEN UNCHANGED <<jobs, late, arrived>> ELSE Fate
    /\ Unanswered(TRUE)
    /\ UNCHANGED <<backend, submits>>

-----------------------------------------------------------------------------
Progress(i) ==
    /\ \E s \in {<<"running", "completed">>, <<"cancelling", "completed">>, <<"cancelling", "cancelled">>} :
          jobs[i].status = s[1] /\ jobs' = [jobs EXCEPT ![i].status = s[2]]
    /\ UNCHANGED <<backend, late, arrived, submits, op, call, held, told>>

LateCreate(j) ==
    /\ late' = late \ {j}
    /\ \/ Len(jobs) < MaxJobs /\ jobs' = Append(jobs, j) /\ arrived' = arrived + 1
       \/ UNCHANGED <<jobs, arrived>>
    /\ UNCHANGED <<backend, submits, op, call, held, told>>

OtherSubmits ==
    /\ Len(jobs) < MaxJobs /\ Len(jobs) = Cardinality(Keyed(Len(jobs)))
    /\ jobs' = Append(jobs, OthersJob)
    /\ UNCHANGED <<backend, late, arrived, submits, op, call, held, told>>

Next == \/ (\E d \in Digests : Submit(d)) \/ (\E d \in Digests : SubmitInline(d))
        \/ Recover \/ (\E n \in {"get", "wait"} : Get(n)) \/ Cancel \/ CancelDirectly
        \/ Served \/ Garbled \/ Refused \/ (\E h \in Hints : Busy(h)) \/ NoConnection
        \/ (\E f \in {"broken", "500"}, t \in {0, 1} : Broken(f, t)) \/ Wakes \/ ContextDone
        \/ (\E i \in DOMAIN jobs : Progress(i)) \/ (\E j \in late : LateCreate(j)) \/ OtherSubmits

Spec == Init /\ [][Next]_vars

-----------------------------------------------------------------------------
(* However often a caller submits under a recovery key, with answers lost   *)
(* and crashes in between, there is one job for it, and one more only for   *)
(* each create that arrived after it had been given up; and one Submit      *)
(* makes at most one job with any provider (transport.go:105: a create that *)
(* may have been acted on is not resent).                                   *)
OneJobPerRecoveryKey ==
    /\ backend = "openai" => Cardinality(Keyed(Len(jobs))) <= 1 + arrived
    /\ \A i, j \in Keyed(Len(jobs)) : jobs[i].submit = jobs[j].submit => i = j

(* What a caller is told of a job is so. A job found by its recovery key is *)
(* the only one under it, as far as the inventory went when the lookup      *)
(* began, and the one that was asked for: the next page, and the jobs in    *)
(* front of it, may not hide a second one (rest.go:180). A cancellation     *)
(* OpenAI's client reports is one the provider has taken, or a job that is  *)
(* over; and when the job ended while the request was on its way, that is   *)
(* reported instead of an error (rest.go:242).                              *)
ToldTheTruth ==
    [][/\ call.what = "list" /\ told'.op = op.name /\ told'.ok
             => /\ Keyed(IF op.cursor = 0 THEN Len(jobs) ELSE op.seen) = {told'.job}
                /\ op.name = "submit" => jobs[told'.job].digest = op.digest
       /\ op.name = "cancel" /\ backend = "openai" /\ told'.op = "cancel" =>
             /\ told'.ok => CancelSeen(jobs'[held].status)
             /\ told'.why = "not cancelled" => ~ CancelSeen(jobs[held].status)
             /\ told'.why = "call" => call.what = "get"]_vars

(* Retries keep to their number, the retry budget and the deadline: no      *)
(* attempt starts after them; and a wait is never shorter than the policy's *)
(* own delay, nor than the provider's hint up to its cap, nor longer than   *)
(* the caps (retrybudget.go:83: the hint is a floor, 105: the budget).      *)
RetriesKeepTheirTime ==
    ~ Idle =>
      /\ call.attempt < call.attempts
      /\ call.attempt > 0 /\ call.wait = 0 => /\ RetryBudget <= 0 \/ call.spent < RetryBudget
                                            /\ call.left # 0
      /\ call.wait > 0 => /\ call.wait \in Min({call.hint, MaxRetryAfter})..Max({MaxDelay, MaxRetryAfter})
                          /\ \E d \in Delays(call.attempt) : d <= call.wait
=============================================================================
