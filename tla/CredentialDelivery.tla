------------------------- MODULE CredentialDelivery -------------------------
(***************************************************************************)
(* What a connector is given of the credentials its source lists           *)
(* (application/credentials.rs): every field under its credential's name,  *)
(* and under its own where no other credential has it.  Pure functions.    *)
(*                                                                         *)
(* A credential's id is the sequence of its segments, a field is           *)
(* [words, upper]: the segments of its name and how it is written; the     *)
(* variable it becomes does not tell how.  secrets maps an id to its       *)
(* fields' values, or to Unresolved where the resolver fails.              *)
(***************************************************************************)
EXTENDS Naturals, Sequences, FiniteSets, SequencesExt

CONSTANT Unresolved

\* variable_part, of the secrets crate.
Variable(field) == field.words

\* Faulty variant: a credential listed twice counts twice.
Listed_Each(ids) == {<<ids[i], i>> : i \in DOMAIN ids}

\* The credentials asked for, each once.
Listed(ids) == {<<ids[i], 0>> : i \in DOMAIN ids}

Fields(ids, secrets) ==
    UNION {{[id |-> c[1], place |-> c[2], field |-> f, value |-> secrets[c[1]][f]] :
              f \in DOMAIN secrets[c[1]]} : c \in Listed(ids)}

Unshared(f, fields) == \A g \in fields : Variable(g.field) = Variable(f.field) => g = f

\* A field already named after its credential.
HandMade(f, fields) ==
    Unshared(f, fields) /\ IsStrictPrefix(f.id, Variable(f.field))

\* Every name delivered, with the field behind it.
Deliveries(fields) ==
    {[name |-> [f.field EXCEPT !.words = f.id \o @], of |-> f] : f \in {x \in fields : ~HandMade(x, fields)}}
    \cup {[name |-> f.field, of |-> f] : f \in {x \in fields : Unshared(x, fields)}}

\* resolve_credentials - what the connector is given, or Unresolved.
Delivered(ids, secrets) ==
    IF \E i \in DOMAIN ids : secrets[ids[i]] = Unresolved THEN Unresolved
    ELSE LET all == Deliveries(Fields(ids, secrets))
         IN  IF \E d, e \in all : Variable(d.name) = Variable(e.name)
                                   /\ <<d.of.id, d.of.field>> # <<e.of.id, e.of.field>>
             THEN Unresolved
             ELSE [n \in {d.name : d \in all} |-> (CHOOSE d \in all : d.name = n).of.value]

-----------------------------------------------------------------------------
(* The property of a delivery. *)

\* A connector finds each field of each credential under that credential's
\* name, under its own exactly when no other has it, and nothing else anywhere;
\* in which order credentials are listed, and whether one is listed again,
\* makes no difference (resolve_credentials).
ReachTheirNames(ids, secrets, given) ==
    LET listed == ToSet(ids)
        of(id) == DOMAIN secrets[id]
        at(words) == {given[n] : n \in {x \in DOMAIN given : x.words = words}}
        alone(id, f) == \A other \in listed : \A g \in of(other) :
                            g.words = f.words => other = id /\ g = f
        own(id, f) == IF IsStrictPrefix(id, f.words) /\ alone(id, f) THEN f.words
                      ELSE id \o f.words
    IN /\ \A id \in listed : \A f \in of(id) :
             /\ at(own(id, f)) = {secrets[id][f]}
             /\ alone(id, f) => at(f.words) = {secrets[id][f]}
       /\ \A n \in DOMAIN given :
             \E id \in listed : \E f \in of(id) :
                n.words = own(id, f) \/ (alone(id, f) /\ n.words = f.words)
       /\ given = Delivered(Reverse(ids) \o ids, secrets)
=============================================================================
