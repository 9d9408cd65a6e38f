-------------------------- MODULE OntologyDiscovery --------------------------
(***************************************************************************)
(* generate_ontology of protoneo.knowledge.ontology: which entity and edge *)
(* types a paper's graph may have.  Three answers of a remote model, or    *)
(* one of a local model, are asked for at the same time and voted on; the  *)
(* entity types that win are checked against the paper by one more call;   *)
(* what is left joins the types every ontology has.                        *)
(*                                                                         *)
(* Any of the calls may fail, come back empty, or be cut off in the middle *)
(* of its JSON.  A type is reduced to its name, and names that differ only *)
(* in spelling share a key.  GraphPipeline treats all of this as one step. *)
(***************************************************************************)
EXTENDS Naturals, Sequences, SequencesExt

CONSTANTS Key,         \* a function: the spelling-free form of each name
          Replies,     \* what a sample may say: types and edges, sequences
          Required,    \* the types and edges that every ontology has
          Seeds,       \* the types that the paper's domain suggests
          RemoteSamples, \* n_samples: one of a local model, else three
          Cap          \* of the types, and of the edges, that are added

ASSUME OntologyAssumption ==
  /\ Replies \subseteq [types : Seq(DOMAIN Key), edges : Seq(DOMAIN Key)]
  /\ Required \in [types : Seq(DOMAIN Key), edges : Seq(DOMAIN Key)]
  /\ Seeds \in Seq(DOMAIN Key)
  /\ IsInjective(Required.types) /\ IsInjective(Required.edges) /\ IsInjective(Seeds)
  /\ RemoteSamples \in Nat \ {0} /\ Cap \in Nat

VARIABLES stage,    \* where generate_ontology stands
          sample,   \* the discovery calls: open, failed, or what they say
          draft,    \* what the vote leaves
          judged,   \* history: whether the check answered, and what it found
          ontology  \* the result

ontologyVars == <<stage, sample, draft, judged, ontology>>

Silence == [types |-> <<>>, edges |-> <<>>]   \* Ontology()
Asked == [asked |-> TRUE]
NoVerdict == [answered |-> FALSE, grounded |-> {}]

OntologyInit ==
  /\ stage = "idle" /\ sample = <<>>
  /\ draft = Silence /\ judged = NoVerdict /\ ontology = Silence

-----------------------------------------------------------------------------
(* Answers. *)

\* The records of an answer that was cut off: of one that ends before its
\* edges, each type is taken for an edge as well.
Salvaged(reply) ==
  {[types |-> SubSeq(reply.types, 1, n), edges |-> SubSeq(reply.types, 1, n)] :
     n \in 0 .. Len(reply.types)}
  \cup {[types |-> reply.types, edges |-> SubSeq(reply.edges, 1, n)] :
     n \in 0 .. Len(reply.edges)}

\* What may be made of an answer that was meant to be this one.
Parsed(reply) == {reply, Silence} \cup Salvaged(reply)

\* The members of a finite set in the order of a relation, and of a sequence
\* those that are in a set.  Defined by counting, since what recurs, as the
\* library's sorts and folds do, cannot be reasoned about.
Ranked(S, R) ==
  [k \in 1 .. Cardinality(S) |->
     CHOOSE x \in S : Cardinality({y \in S : <<y, x>> \in R}) = k - 1]
OnlyOf(seq, S) ==
  LET at == {i \in DOMAIN seq : seq[i] \in S}
      place == Ranked(at, {p \in at \X at : p[1] < p[2]})
  IN  [k \in DOMAIN place |-> seq[place[k]]]

\* The samples that count: a failed call, like one without any types, is an
\* empty sample here.
Counted == {i \in DOMAIN sample : sample[i] # Silence}
Threshold == IF Cardinality(Counted) >= 3 THEN 2 ELSE 1

\* A key gets a vote each time it is named: by this sample, in this place.
Named(field) == UNION {ToSet(sample[i][field]) : i \in Counted}
Votes(field, k) ==
  UNION {{i} \X {j \in DOMAIN sample[i][field] : Key[sample[i][field][j]] = k} : i \in Counted}

\* Most votes first, then in order of appearance.
Earlier(p, q) == p[1] < q[1] \/ (p[1] = q[1] /\ p[2] < q[2])
Precedes(field, j, k) ==
  LET count(x) == Cardinality(Votes(field, x))
  IN  \/ count(j) > count(k)
      \/ /\ count(j) = count(k)
         /\ \E p \in Votes(field, j) : \A q \in Votes(field, k) : Earlier(p, q)

\* The keys with enough votes, in that order.
Enough(field) ==
  {k \in {Key[n] : n \in Named(field)} : Cardinality(Votes(field, k)) >= Threshold}
Confirmed(field) ==
  Ranked(Enough(field), {p \in Enough(field) \X Enough(field) : Precedes(field, p[1], p[2])})

\* Each is spelled as in one of its records, the one with the most to say.
Spelled(field) ==
  LET keys == Confirmed(field)
  IN  {s \in [DOMAIN keys -> Named(field)] : \A i \in DOMAIN keys : Key[s[i]] = keys[i]}

Capped(names) == SubSeq(names, 1, IF Len(names) < Cap THEN Len(names) ELSE Cap)

CappedFirst(own, required) ==   \* (mutant: capped before the required types are sorted out)
  OnlyOf(Capped(own), ToSet(own) \ ToSet(required))

\* What is added to the required types: the first Cap that are not of them.
Added(own, required) == Capped(OnlyOf(own, ToSet(own) \ ToSet(required)))

Validated(o) ==
  [types |-> Required.types \o Added(o.types, Required.types),
   edges |-> Required.edges \o Added(o.edges, Required.edges)]

SeedOntology == [types |-> Seeds, edges |-> <<>>]

-----------------------------------------------------------------------------
(* The workflow. *)

Validate(o) == stage' = "done" /\ ontology' = Validated(o)

\* Without a model the seeds are the ontology; else the samples are asked for.
GenerateOntology ==
  /\ stage = "idle"
  /\ \/ Validate(SeedOntology) /\ UNCHANGED sample
     \/ \E n \in {1, RemoteSamples} :
          stage' = "discovery" /\ sample' = [i \in 1 .. n |-> Asked] /\ UNCHANGED ontology
  /\ UNCHANGED <<draft, judged>>

\* A sample is answered, in whole or cut off, or fails.
AnswerSample(i) ==
  /\ stage = "discovery" /\ sample[i] = Asked
  /\ \E reply \in Replies : \E answer \in Parsed(reply) :
       sample' = [sample EXCEPT ![i] = answer]
  /\ UNCHANGED <<stage, draft, judged, ontology>>

\* All are in.  No types at all: the seeds; no entity types: nothing to check.
EndDiscoveryVote ==
  /\ stage = "discovery" /\ \A i \in DOMAIN sample : sample[i] # Asked
  /\ \E types \in Spelled("types"), edges \in Spelled("edges") :
       LET o == [types |-> types, edges |-> edges]
       IN  /\ draft' = o
           /\ IF o = Silence THEN Validate(SeedOntology)
              ELSE IF types = <<>> THEN Validate(o)
              ELSE stage' = "grounding" /\ UNCHANGED ontology
  /\ UNCHANGED <<sample, judged>>

\* What the check's answer says: nothing usable, or the types it found.
Verdicts ==
  {NoVerdict} \cup [answered : {TRUE}, grounded : SUBSET ToSet(draft.types)]

\* The check finds some of the types in the paper: only those stay.  One that
\* fails, or says nothing of any type, leaves all of them.
Ground ==
  /\ stage = "grounding"
  /\ judged' \in Verdicts
  /\ Validate(IF ~judged'.answered THEN draft
              ELSE [draft EXCEPT !.types = OnlyOf(@, judged'.grounded)])
  /\ UNCHANGED <<sample, draft>>

OntologyNext ==
  \/ GenerateOntology \/ EndDiscoveryVote \/ Ground
  \/ \E i \in DOMAIN sample : AnswerSample(i)

OntologySpec == OntologyInit /\ [][OntologyNext]_ontologyVars

-----------------------------------------------------------------------------
(* Properties. *)

\* The samples that name a key, and whether one of them does so twice.
Voters(field, k) == {p[1] : p \in Votes(field, k)}
Repeated(field, k) ==
  \E p, q \in Votes(field, k) : p[1] = q[1] /\ p # q

\* Whichever calls fail or are cut off, the ontology has every required type,
\* no name twice, and at most Cap more.  What is added was named by two
\* samples of three, or twice by one, or by one of fewer, and not rejected by
\* the check; what deserved to be added is missing only for a rejection or for
\* others with as many votes that fill the cap.  Without a usable answer, or
\* any agreement, the seeds stand in.
OntologySound ==
  stage = "done" =>
    /\ \A field \in {"types", "edges"} :
         LET names == ontology[field]
             own == {n \in ToSet(names) : n \notin ToSet(Required[field])}
             agreed(k) == Cardinality(Voters(field, k)) >= Threshold
             rejected(n) == field = "types" /\ judged.answered /\ n \notin judged.grounded
         IN  /\ IsInjective(names) /\ ToSet(Required[field]) \subseteq ToSet(names)
             /\ Cardinality(own) <= Cap
             /\ draft # Silence => \A n \in own :
                  ~rejected(n) /\ (agreed(Key[n]) \/ Repeated(field, Key[n]))
             /\ \A k \in {Key[n] : n \in Named(field)} :
                  agreed(k) =>
                    \/ \E n \in ToSet(draft[field]) :
                         Key[n] = k /\ (n \in ToSet(names) \/ rejected(n))
                    \/ /\ Cardinality(own) = Cap
                       /\ \A n \in own :
                            Cardinality(Votes(field, Key[n])) >= Cardinality(Votes(field, k))
    /\ draft = Silence => \A n \in ToSet(Seeds) :
         n \in ToSet(ontology.types) \/ Cardinality(ToSet(ontology.types)) >= Cap
=============================================================================
