---------------------------- MODULE MCAdmission ----------------------------
(***************************************************************************)
(* The instances of Admission, HttpEdge and Lifespan that TLC checks.  A   *)
(* behaviour is one of them at work; the others stay where they were.      *)
(***************************************************************************)
EXTENDS Admission, HttpEdge, Lifespan, TLC

CONSTANTS k1, k2, r1, r2, r3, p1, u1, u2

MCKeyOf == r1 :> k1 @@ r2 :> k2 @@ r3 :> k1
MCProcessOf == r1 :> p1 @@ r2 :> p1 @@ r3 :> p1
MCExpiresAt == k1 :> None @@ k2 :> 2

\* Empty bodies and those of up to three chunks, declared and not, for routes of both limits.
BodyEnds == {<<0>>} \cup
    {e \in UNION {[1..n -> 1..9] : n \in 1..3} :
        \A i \in DOMAIN e : e[i] - (IF i = 1 THEN 0 ELSE e[i - 1]) \in 1..3}
MCCalls == UNION {[upload : BOOLEAN, declared : {e[Len(e)], Absent, Malformed}, ends : {e},
                   reads : BOOLEAN, whole : 1..Len(e)] : e \in BodyEnds}

EdgeIdle ==
    /\ message = [upload |-> FALSE, declared |-> 0, ends |-> <<0>>, reads |-> FALSE, whole |-> 1]
    /\ arrived = 0 /\ received = 0 /\ exceeded = FALSE /\ sentStart = FALSE
    /\ held = 0 /\ route = "idle" /\ answer = 0 /\ handled = FALSE
    /\ wire = <<>> /\ counted = <<>> /\ inFlight = 0

\* Sound configurations in production and out of it, and those that differ from them in
\* one setting or two.
MCLower == [k \in {"a", "A", "b"} |-> IF k = "b" THEN "b" ELSE "a"]
From(g, f, a) == [given |-> g, found |-> f, active |-> a]
SoundRing == From(<<>>, "A" :> "good", "a")
RingSources ==
    {From(<<>>, "A" :> "good", "A"), From(<<>>, "b" :> "good", "a"), From(<<>>, "a" :> "blank", "a"),
     From(<<>>, "a" :> "malformed" @@ "b" :> "good", "a"), From(<<>>, "A" :> "placeholder", "A"),
     From("A" :> "good", "a" :> "good", "a"), From("a" :> "zero" @@ "b" :> "good", <<>>, "A")}
Sound(production) ==
    [production |-> production, pepper |-> "good", hmac |-> "good", vault |-> SoundRing,
     document |-> SoundRing, diagnostics |-> FALSE, wildcard |-> FALSE, metrics |-> TRUE,
     token |-> "good", documents |-> TRUE, bucket |-> TRUE, compatible |-> TRUE,
     endpoint |-> TRUE, id |-> "good", secret |-> "good", openai |-> TRUE, overlap |-> "below"]
MCSettingValues ==
    [f \in DOMAIN Sound(TRUE) |->
        CASE f \in {"vault", "document"} -> RingSources
          [] f \in {"pepper", "hmac"} -> {"short", "placeholder"}
          [] f \in {"id", "secret"} -> {"absent", "blank", "placeholder"}
          [] f = "token" -> {"absent", "placeholder", "short"}
          [] f = "overlap" -> {"atLeast"}
          [] OTHER -> BOOLEAN]
OneApart(c) == UNION {{[c EXCEPT ![f] = v] : v \in MCSettingValues[f]} : f \in DOMAIN c}
MCConfigurations ==
    OneApart(Sound(FALSE)) \cup UNION {OneApart(c) : c \in OneApart(Sound(TRUE))}

LifeIdle ==
    /\ settings = Sound(TRUE) /\ life = "idle" /\ agenda = <<>>
    /\ handles = {} /\ worker = FALSE /\ client = NoClient
    /\ work = [t \in Tasks |-> "waiting"]
    /\ overwritten = {} /\ failedCloses = {} /\ keyErrors = {}

EntryInit ==
    \/ Init /\ EdgeInit /\ LifeIdle
    \/ Init /\ EdgeIdle /\ (LifeInit \/ LifeIdle)
Edge == EdgeNext /\ UNCHANGED <<vars, lifeVars>>
Lives == LifeNext /\ UNCHANGED <<vars, edgeVars>>
Admits == Next /\ EdgeIdle /\ LifeIdle /\ UNCHANGED <<edgeVars, lifeVars>>
EntrySpec ==
    EntryInit /\ [][Edge \/ Lives \/ Admits]_<<vars, edgeVars, lifeVars>> /\ Fairness
=============================================================================
