--------------------------- MODULE VerificationCodes ---------------------------
(***************************************************************************)
(* packages/modules/account (modules/verification-code/                     *)
(* verification-code.service.ts): the one-time codes of one address and     *)
(* purpose.  Requests ask for a code or enter one, at the same time and one *)
(* statement after the other, and may fail in between; wrong entries are    *)
(* counted by a limiter that has a store of its own.                        *)
(***************************************************************************)
EXTENDS Naturals, Sequences, FiniteSets

CONSTANTS
    Clients,                        \* requests in progress, slots used again
    Digits,                         \* what a code may be
    MaxMisses,                      \* wrong entries that spend the budget
    MaxCodes                        \* bound

ASSUME CodesAssumption ==
    /\ {MaxMisses, MaxCodes} \subseteq Nat /\ MaxMisses > 0
    /\ IsFiniteSet(Clients) /\ Digits # {}

VARIABLES
    codes,          \* the rows, in the order of their creation
    misses,         \* the limiter
    codePc, entered, created        \* each request: step, digits entered, row created

codeVars == <<codes, misses, codePc, entered, created>>

Endings == {"none", "used", "spent", "replaced"}

\* A row with its history: how it became inactive, how often it was accepted,
\* whether it was returned and nothing was entered until then, and the wrong
\* entries counted since.
Codes == [digits : Digits, active : BOOLEAN, age : 0 .. 2, ending : Endings, uses : 0 .. 2,
          returned : BOOLEAN, quiet : BOOLEAN, missed : 0 .. MaxMisses]

CodesTypeOK ==
    /\ codes \in Seq(Codes) /\ Len(codes) <= MaxCodes
    /\ misses \in 0 .. MaxMisses + Cardinality(Clients)
    /\ codePc \in [Clients -> {"idle", "find", "clear", "create", "restore",
                               "budget", "exhaust", "burn", "credit", "penalty", "spend"}]
    /\ entered \in [Clients -> Digits] /\ created \in [Clients -> 0 .. MaxCodes]

SomeDigits == CHOOSE d \in Digits : TRUE

CodesInit ==
    /\ codes = << >> /\ misses = 0
    /\ codePc = [c \in Clients |-> "idle"] /\ entered = [c \in Clients |-> SomeDigits]
    /\ created = [c \in Clients |-> 0]

-----------------------------------------------------------------------------
Proceed(c, from, to) == codePc[c] = from /\ codePc' = [codePc EXCEPT ![c] = to]

EndRequest(c) ==
    /\ codePc' = [codePc EXCEPT ![c] = "idle"]
    /\ entered' = [entered EXCEPT ![c] = SomeDigits] /\ created' = [created EXCEPT ![c] = 0]

Generating == {c \in Clients : codePc[c] \in {"find", "clear", "create", "restore"}}
Entering == {c \in Clients : codePc[c] # "idle"} \ Generating

\* inactivate(): every active row of the address and purpose.
Inactivated(ending) ==
    [i \in 1 .. Len(codes) |->
        IF codes[i].active THEN [codes[i] EXCEPT !.active = FALSE, !.ending = ending]
        ELSE codes[i]]

(* Asking for a code: generate() *)

Ask(c) ==
    /\ Proceed(c, "idle", "find")
    /\ UNCHANGED <<codes, misses, entered, created>>

\* A code made within the resend window is returned again.
FindCode(c) ==
    /\ Proceed(c, "find", IF \E i \in 1 .. Len(codes) : codes[i].active /\ codes[i].age = 0
                          THEN "idle" ELSE "clear")
    /\ UNCHANGED <<codes, misses, entered, created>>

ClearCodes(c) ==
    /\ Proceed(c, "clear", "create") /\ codes' = Inactivated("replaced")
    /\ UNCHANGED <<misses, entered, created>>

CreateCode(c, d) ==
    /\ Len(codes) < MaxCodes /\ Proceed(c, "create", "restore")
    /\ codes' = Append(codes, [digits |-> d, active |-> TRUE, age |-> 0, ending |-> "none",
                               uses |-> 0, returned |-> FALSE, quiet |-> Entering = {},
                               missed |-> 0])
    /\ created' = [created EXCEPT ![c] = Len(codes')]
    /\ UNCHANGED <<misses, entered>>

\* Mutant: the new code inherits the wrong entries of the last one.
KeepBudget(c) ==
    /\ codePc[c] = "restore" /\ EndRequest(c)
    /\ codes' = [codes EXCEPT ![created[c]].returned = TRUE]
    /\ UNCHANGED misses

\* A fresh code restores the full budget, and is returned.
RestoreBudget(c) ==
    /\ codePc[c] = "restore" /\ EndRequest(c)
    /\ misses' = 0 /\ codes' = [codes EXCEPT ![created[c]].returned = TRUE]

(* Entering a code: consume() *)

Enter(c, d) ==
    /\ Proceed(c, "idle", "budget") /\ entered' = [entered EXCEPT ![c] = d]
    /\ codes' = [i \in 1 .. Len(codes) |->
                    [codes[i] EXCEPT !.quiet = codes[i].quiet /\ codes[i].returned]]
    /\ UNCHANGED <<misses, created>>

ReadBudget(c) ==
    /\ Proceed(c, "budget", IF misses >= MaxMisses THEN "exhaust" ELSE "burn")
    /\ UNCHANGED <<codes, misses, entered, created>>

\* Too many wrong entries: before this entry, or with it.
Spend(c) ==
    /\ codePc[c] \in {"exhaust", "spend"} /\ EndRequest(c)
    /\ codes' = Inactivated("spent")
    /\ UNCHANGED misses

Matching(d) == {i \in 1 .. Len(codes) : codes[i].active /\ codes[i].age < 2 /\ codes[i].digits = d}

\* The update that takes a matching code, if there is one.  What was entered is
\* not read again.
Burn(c) ==
    /\ Proceed(c, "burn", IF Matching(entered[c]) # {} THEN "credit" ELSE "penalty")
    /\ codes' = [i \in 1 .. Len(codes) |->
                    IF i \in Matching(entered[c])
                    THEN [codes[i] EXCEPT !.active = FALSE, !.ending = "used", !.uses = @ + 1]
                    ELSE codes[i]]
    /\ entered' = [entered EXCEPT ![c] = SomeDigits]
    /\ UNCHANGED <<misses, created>>

Credit(c) ==
    /\ codePc[c] = "credit" /\ EndRequest(c) /\ misses' = 0
    /\ UNCHANGED codes

Penalty(c) ==
    /\ codePc[c] = "penalty" /\ misses' = misses + 1
    /\ codes' = [i \in 1 .. Len(codes) |->
                    IF codes[i].returned /\ codes[i].missed < MaxMisses
                    THEN [codes[i] EXCEPT !.missed = @ + 1] ELSE codes[i]]
    /\ IF misses' >= MaxMisses THEN /\ codePc' = [codePc EXCEPT ![c] = "spend"]
                                    /\ UNCHANGED <<entered, created>>
       ELSE EndRequest(c)

(* The environment *)

\* A statement throws, or the process is gone: the request ends where it is.
RequestFails(c) ==
    /\ codePc[c] # "idle" /\ EndRequest(c)
    /\ UNCHANGED <<codes, misses>>

\* Past the resend window, then expired; the age of an inactive row is not read.
CodeAges(i) ==
    /\ codes[i].active /\ codes[i].age < 2 /\ codes' = [codes EXCEPT ![i].age = @ + 1]
    /\ UNCHANGED <<misses, codePc, entered, created>>

\* The limiter's key expires.
MissesExpire ==
    /\ misses > 0 /\ misses' = 0
    /\ UNCHANGED <<codes, codePc, entered, created>>

CodesNext ==
    \/ MissesExpire \/ \E i \in 1 .. Len(codes) : CodeAges(i)
    \/ \E c \in Clients :
          \/ Ask(c) \/ FindCode(c) \/ ClearCodes(c) \/ RestoreBudget(c)
          \/ ReadBudget(c) \/ Spend(c) \/ Burn(c) \/ Credit(c) \/ Penalty(c) \/ RequestFails(c)
          \/ \E d \in Digits : CreateCode(c, d) \/ Enter(c, d)

CodesSpec == CodesInit /\ [][CodesNext]_codeVars

-----------------------------------------------------------------------------
(* Properties *)

\* A code is accepted once, however many requests enter it at the same time.
CodesWorkOnce == \A i \in 1 .. Len(codes) : codes[i].uses <= 1

\* The budget bounds the wrong entries: those that had read it before it was
\* spent are the only ones counted beyond it.
MissesAreBounded == misses < MaxMisses + Cardinality(Clients)

\* A fresh code restores the full budget: one that was returned before anything
\* was entered is invalidated as spent only after that many wrong entries.
FreshCodesHaveTheirBudget ==
    \A i \in 1 .. Len(codes) :
        (codes[i].quiet /\ codes[i].returned /\ codes[i].ending = "spent") =>
            codes[i].missed = MaxMisses

\* Codes work once, the budget holds, and it is restored with every code.
CodesAreSound == CodesWorkOnce /\ MissesAreBounded /\ FreshCodesHaveTheirBudget
=============================================================================
