--------------------------- MODULE TopicGeneration ---------------------------
(***************************************************************************)
(* Topics proposed to a student: the evidence is cleaned, the model        *)
(* proposes what is still missing, and what resembles a topic of the       *)
(* collection, one the student rejected, or an earlier proposal is left    *)
(* out; the graph may then go round again.  Meanwhile Java goes on         *)
(* indexing topics: new ones, renamed ones, rejected and restored ones.    *)
(***************************************************************************)
EXTENDS Naturals, Sequences, FiniteSets

CONSTANTS Topic,         \* what a topic may be about
          Id,            \* of the topics in the collection
          Alike,         \* pairs of topics at DUPLICATE_THRESHOLD or above
          Keyword,
          MaxProposals, MaxTopicRounds,
          MaxIndexed     \* bound: how many changes Java makes meanwhile

Type == {"KEYWORD", "SEARCH", "INTEREST"}
Proposal == [topic : Topic, type : Type, grounded : BOOLEAN, words : SUBSET Keyword]

ASSUME AlikeAssumption ==
    \A t, u \in Topic : <<t, t>> \in Alike /\ (<<t, u>> \in Alike => <<u, t>> \in Alike)
ASSUME TopicAssumption == MaxProposals \in Nat \ {0} /\ MaxTopicRounds \in Nat \ {0}
                          /\ MaxIndexed \in Nat

VARIABLES
    wanted,     \* the request: keyword evidence, search_keyword, max_proposals
    node,       \* of the graph
    inactive,   \* the first proposal was not found among the active topics
    proposals,  \* of this round
    offer,      \* accepted, with their embeddings
    collisions, \* names for the next prompt
    round,
    catalogue,  \* the collection
    indexings,
    stood       \* history: the topics that have been as they are since the request

topicVars == <<wanted, node, inactive, proposals, offer, collisions, round, catalogue, indexings,
               stood>>

\* "mine": rejected by this student; another student's rejection is not looked at.
Entry == [about : Topic, status : {"active", "mine"}]
Unseen == [status |-> "unseen"]
Wanted == [evidence : SUBSET Keyword, search : BOOLEAN, max : 1 .. MaxProposals]

TopicTypeOK ==
    /\ wanted \in Wanted
    /\ node \in {"keyword_extraction", "topic_proposal", "topic_dedupe", "done"}
    /\ inactive \in BOOLEAN
    /\ proposals \in Seq(Proposal) /\ offer \in Seq(Proposal)
    /\ collisions \subseteq Topic
    /\ round \in 0 .. MaxTopicRounds
    /\ catalogue \in [Id -> Entry \cup {Unseen}] /\ stood \subseteq Id
    /\ indexings \in 0 .. MaxIndexed

TopicInit ==
    /\ wanted \in Wanted /\ node = "keyword_extraction" /\ inactive = FALSE
    /\ proposals = << >> /\ offer = << >> /\ collisions = {} /\ round = 0
    /\ catalogue \in [Id -> Entry \cup {Unseen}] /\ stood = Id
    /\ indexings = 0

KeywordExtraction ==
    /\ node = "keyword_extraction" /\ node' = "topic_proposal"
    /\ UNCHANGED <<wanted, inactive, proposals, offer, collisions, round, catalogue, indexings, stood>>

(***************************************************************************)
(* What the model proposes, and the rules about its evidence.              *)
(***************************************************************************)
Ungrounded(s, n) == Cardinality({i \in 1 .. n : ~ s[i].grounded})

\* With evidence at hand one proposal without it is kept; a keyword has to be
\* one of the evidence, a search one of a search.
Allowed(s, n) ==
    LET p == s[n] IN
    IF ~ p.grounded THEN wanted.evidence = {} \/ Ungrounded(s, n) <= 1
    ELSE p.type = "INTEREST" \/
         /\ p.words \cap wanted.evidence # {}
         /\ p.type = "SEARCH" => wanted.search

Keep(s, Test(_)) ==
    LET kept[n \in 0 .. Len(s)] == IF n = 0 THEN << >>
                                   ELSE IF Test(n) THEN Append(kept[n - 1], s[n]) ELSE kept[n - 1]
    IN  kept[Len(s)]

EnforceEvidenceCaps(s) == LET Test(n) == Allowed(s, n) IN Keep(s, Test)

Claims(p) == p.type = "KEYWORD" /\ p.grounded

\* One proposal per keyword: a later one that shares a word is dropped.
DeduplicateEvidenceClusters(s) ==
    LET kept[n \in 0 .. Len(s)] ==
          IF n = 0 THEN << >>
          ELSE LET used == UNION {kept[n - 1][i].words :
                                    i \in {j \in 1 .. Len(kept[n - 1]) : Claims(kept[n - 1][j])}}
               IN  IF Claims(s[n]) /\ s[n].words \cap used # {} THEN kept[n - 1]
                   ELSE Append(kept[n - 1], s[n])
    IN  kept[Len(s)]

Remaining == IF wanted.max > Len(offer) THEN wanted.max - Len(offer) ELSE 1
FirstOf(s, n) == SubSeq(s, 1, IF Len(s) < n THEN Len(s) ELSE n)

\* A reply of any length, or none at all.  How sure a proposal is is left out.
TopicProposal ==
    /\ node = "topic_proposal" /\ node' = "topic_dedupe"
    /\ \E n \in 0 .. MaxProposals : \E reply \in [1 .. n -> Proposal] :
          proposals' = DeduplicateEvidenceClusters(FirstOf(EnforceEvidenceCaps(reply), Remaining))
    /\ round' = round + 1
    /\ collisions' = IF proposals' = << >> THEN collisions ELSE {}
    /\ UNCHANGED <<wanted, inactive, offer, catalogue, indexings, stood>>

(***************************************************************************)
(* Likeness, one proposal at a time, first to the active topics and then   *)
(* to the rejected ones.                                                   *)
(***************************************************************************)
Like(p, status) ==
    {d \in Id : catalogue[d].status = status /\ <<p.topic, catalogue[d].about>> \in Alike}

\* Mutant: the embedding of an accepted proposal is kept for the next round only.
ResemblesEarlierRounds(p) == round > 1 /\ \E i \in 1 .. Len(offer) : <<p.topic, offer[i].topic>> \in Alike

Resembles(p) == \E i \in 1 .. Len(offer) : <<p.topic, offer[i].topic>> \in Alike

\* What index_topic and index_seed_topics store beside an embedding.
Metadata == {"active", "status", "student_id", "interest_dimension", "curriculum_group"}
\* The name of the topic that was hit, when its metadata has one.
CollidedName(hits) == IF "name" \in Metadata THEN {catalogue[d].about : d \in hits} ELSE {}

Drop(hits) ==
    /\ proposals' = Tail(proposals) /\ inactive' = FALSE
    /\ collisions' = collisions \cup CollidedName(hits)

\* The query for active topics.
TopicDedupe ==
    /\ node = "topic_dedupe" /\ proposals # << >> /\ ~ inactive
    /\ LET hits == Like(Head(proposals), "active") IN
       IF hits # {} THEN Drop(hits)
       ELSE inactive' = TRUE /\ UNCHANGED <<proposals, collisions>>
    /\ UNCHANGED <<wanted, node, offer, round, catalogue, indexings, stood>>

\* The query for the student's rejections, and the earlier proposals.
TopicDedupeRejected ==
    /\ node = "topic_dedupe" /\ proposals # << >> /\ inactive
    /\ LET p == Head(proposals)
           hits == Like(p, "mine")
       IN  /\ offer' = IF hits # {} \/ Resembles(p) THEN offer ELSE Append(offer, p)
           /\ Drop(hits)
    /\ UNCHANGED <<wanted, node, round, catalogue, indexings, stood>>

ShouldRetry == Len(offer) < wanted.max /\ round < MaxTopicRounds /\ collisions # {}

TopicDedupeEnds ==
    /\ node = "topic_dedupe" /\ proposals = << >>
    /\ node' = IF ShouldRetry THEN "topic_proposal" ELSE "done"
    /\ UNCHANGED <<wanted, inactive, proposals, offer, collisions, round, catalogue, indexings, stood>>

\* index_topic, called by Java, puts a topic under an id, whatever was there: a
\* new one, another name, a rejection of this student or of another, a return.
IndexTopic ==
    /\ node # "done" /\ indexings < MaxIndexed
    /\ indexings' = indexings + 1
    /\ \E d \in Id : \E e \in (Entry \cup {Unseen}) \ {catalogue[d]} :
          catalogue' = [catalogue EXCEPT ![d] = e] /\ stood' = stood \ {d}
    /\ UNCHANGED <<wanted, node, inactive, proposals, offer, collisions, round>>

TopicNext == KeywordExtraction \/ TopicProposal \/ TopicDedupe \/ TopicDedupeRejected
             \/ TopicDedupeEnds \/ IndexTopic

TopicSpec == TopicInit /\ [][TopicNext]_topicVars

(***************************************************************************)
(* Properties.                                                             *)
(***************************************************************************)
\* A student is offered no more topics than were asked for, none that resembles
\* another of the offer, or a topic that was active or rejected by the student when
\* the request came and has been so since, and no two for the same keyword.
OffersAreNew ==
    /\ Len(offer) <= wanted.max
    /\ \A i \in 1 .. Len(offer) :
          /\ \A d \in stood : catalogue[d] # Unseen => <<offer[i].topic, catalogue[d].about>> \notin Alike
          /\ \A j \in 1 .. i - 1 :
                /\ <<offer[i].topic, offer[j].topic>> \notin Alike
                /\ Claims(offer[i]) /\ Claims(offer[j]) => offer[i].words \cap offer[j].words = {}
=============================================================================
