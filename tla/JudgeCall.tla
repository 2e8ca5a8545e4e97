------------------------------ MODULE JudgeCall ------------------------------
(***************************************************************************)
(* One structured question to the judge: generate_json asks for JSON of a  *)
(* schema, lets the model repair an invalid answer, and every completion   *)
(* it needs is a POST that is retried while the failure looks transient.   *)
(* Nothing but an invalid answer is repaired: a refusal, a truncation, a   *)
(* malformed body or a transport error ends the question.                  *)
(***************************************************************************)
EXTENDS Naturals

CONSTANTS
    MaxRetries,   \* Settings.max_retries: POSTs of one completion
    MaxAttempts   \* _MAX_ATTEMPTS: completions of one question

ASSUME CallAssumption ==
    /\ MaxRetries \in Nat \ {0}
    /\ MaxAttempts \in Nat \ {0}

VARIABLES
    call,     \* where the question is
    attempt,  \* attempt_number of generate_json
    tries,    \* the POST of this completion, counted by AsyncRetrying
    posts     \* POSTs sent for this question (history)

callVars == <<call, attempt, tries, posts>>

CallTypeOK ==
    /\ call \in {"idle", "waiting", "answered", "failed"}
    /\ attempt \in 0..MaxAttempts
    /\ tries \in 0..MaxRetries
    /\ posts \in Nat

CallInit == call = "idle" /\ attempt = 0 /\ tries = 0 /\ posts = 0

\* The first POST of the first completion.
StartCall ==
    /\ call' = "waiting"
    /\ attempt' = 1
    /\ tries' = 1
    /\ posts' = 1

\* The caller has read the answer, or the exception has passed through it,
\* and nothing else is asked for now.
EndCall == call' = "idle" /\ attempt' = 0 /\ tries' = 0 /\ posts' = 0

MayRetry == tries < MaxRetries

\* A timeout, a 429 or a 5xx: POST again, or raise it.
Transient ==
    /\ call = "waiting"
    /\ \/ /\ MayRetry
          /\ tries' = tries + 1
          /\ posts' = posts + 1
          /\ UNCHANGED <<call, attempt>>
       \/ /\ ~MayRetry
          /\ call' = "failed"
          /\ UNCHANGED <<attempt, tries, posts>>

\* Any other transport error; or a response that carries no usable text: a
\* malformed body, a refusal, a truncation.
Unusable ==
    /\ call = "waiting"
    /\ call' = "failed"
    /\ UNCHANGED <<attempt, tries, posts>>

\* The text does not validate: ask for a correction, or give up.
Invalid ==
    /\ call = "waiting"
    /\ \/ /\ attempt < MaxAttempts
          /\ attempt' = attempt + 1
          /\ tries' = 1
          /\ posts' = posts + 1
          /\ UNCHANGED call
       \/ /\ attempt = MaxAttempts
          /\ call' = "failed"
          /\ UNCHANGED <<attempt, tries, posts>>

Valid ==
    /\ call = "waiting"
    /\ call' = "answered"
    /\ UNCHANGED <<attempt, tries, posts>>

CallStep == Transient \/ Unusable \/ Invalid \/ Valid

------------------------------------------------------------------------------
\* The two retry loops multiply, and nothing else adds to them: a question
\* costs at most MaxRetries POSTs per completion and MaxAttempts completions.
PostsBounded ==
    /\ posts <= MaxRetries * MaxAttempts
    /\ call = "waiting" => posts <= (attempt - 1) * MaxRetries + tries
=============================================================================
