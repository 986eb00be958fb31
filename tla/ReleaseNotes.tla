----------------------------- MODULE ReleaseNotes -----------------------------
(***************************************************************************)
(* scripts/generate-release-notes.js: the notes of a release from the      *)
(* commits since the last one.  They are a function of the log; a step adds *)
(* a commit to it, so that all logs up to a length are met.                *)
(*                                                                         *)
(* A commit is a record: its type and scope (parseCommit), its subject, a  *)
(* number that is also the subject's length, whether the subject speaks of *)
(* pairing (PAIRING_KEYWORDS), and its author, whose login is what         *)
(* resolveGithubLogin makes of the name and the address.  The lists of     *)
(* commits that the script makes keep the order of the log: each is a set  *)
(* of places in it.  Wording and layout of the notes, and the one subject  *)
(* that normalizeCommit drops by name, are left out.                       *)
(***************************************************************************)
EXTENDS Naturals, Sequences, FiniteSetsExt

CONSTANTS
  Commits,        \* what the log may hold
  Authors,        \* records: name, email and login
  Owner,          \* login of the repository's owner
  None,           \* no scope, or no login
  Limit,          \* highlights at most (6 in the script)
  MaxLog          \* bound: commits of a release

VARIABLES
  log,     \* the commits since the last release, newest first
  prior,   \* authors of the commits before it
  github   \* logins that GitHub itself lists as new contributors

vars == <<log, prior, github>>

Logins == {a.login : a \in Authors} \ {None}

Init == log = <<>> /\ prior \in SUBSET Authors /\ github \in SUBSET (Logins \ {Owner})

Commit(c) == Len(log) < MaxLog /\ log' = Append(log, c) /\ UNCHANGED <<prior, github>>

Next == \E c \in Commits : Commit(c)

Spec == Init /\ [][Next]_vars

------------------------------------------------------------------------------
(* Reading the log                                                          *)

FeatureTypes == {"feat", "feature"}
FixTypes == {"fix", "hotfix"}
SkipTypes == {"chore", "ci", "build", "test", "style", "bump", "debug", "docs", "documentation"}

NormalizeScope(s) == IF s = "pair" THEN "pairing" ELSE s

\* normalizeCommit: the scope under which a commit is listed.
NormalizeCommit(c) ==
  LET s == NormalizeScope(c.scope)
  IN  IF s = None /\ c.type \in FeatureTypes /\ c.pairing THEN "pairing" ELSE s

Scope(i) == NormalizeCommit(log[i])

LoadCommits == {i \in DOMAIN log : log[i].type \notin SkipTypes}

OfTypes(types) == {i \in LoadCommits : log[i].type \in types}

------------------------------------------------------------------------------
(* Summaries                                                                *)

\* groupByScope: a Map from scopes to commits; its keys have the order of their
\* first commits.
GroupByScope(cs) == [s \in {Scope(i) : i \in cs} |-> {i \in cs : Scope(i) = s}]

\* Mutant of UniqueSubjects: only neighbours are compared.
UniqueSubjects_Neighbours(cs) ==
  {i \in cs : LET before == {j \in cs : j < i}
              IN  before # {} => log[Max(before)].subject # log[i].subject}

\* uniqueSubjects: the first commit with each subject.
UniqueSubjects(cs) ==
  {i \in cs : \A j \in cs : log[j].subject = log[i].subject => i <= j}

TypePriority(type) ==
  CASE type \in FeatureTypes -> 0
    [] type \in FixTypes -> 1
    [] type = "perf" -> 2
    [] type \in {"refactor", "improvement"} -> 3
    [] OTHER -> 4

\* The n first of a set in the order Before, a strict one.
First(set, n, Before(_, _)) ==
  {i \in set : Cardinality({j \in set : Before(j, i)}) < n}

\* pickRepresentativeSubjects: by type, then the longest, then the first met.
PickRepresentativeSubjects(cs) ==
  LET Before(i, j) ==
        LET p == TypePriority(log[i].type)
            q == TypePriority(log[j].type)
        IN  \/ p < q
            \/ p = q /\ log[i].subject > log[j].subject
            \/ p = q /\ log[i].subject = log[j].subject /\ i < j
  IN  {log[i].subject : i \in First(UniqueSubjects(cs), 2, Before)}

\* summarizeScopeCommits: the subjects named, and how many more there are.
SummarizeScopeCommits(cs) ==
  LET named == PickRepresentativeSubjects(cs)
  IN  [named |-> named, more |-> Cardinality(UniqueSubjects(cs)) - Cardinality(named)]

\* renderSection: a line for every scope.
RenderSection(cs) ==
  LET groups == GroupByScope(cs)
  IN  [s \in DOMAIN groups |-> SummarizeScopeCommits(groups[s])]

\* Mutant of PickHighlights: those with the fewest commits.
PickHighlights_Fewest(cs) ==
  LET groups == GroupByScope(cs)
      Before(s, t) == LET m == Cardinality(groups[s])  n == Cardinality(groups[t])
                      IN  m < n \/ (m = n /\ Min(groups[s]) < Min(groups[t]))
  IN  First(DOMAIN groups, Limit, Before)

\* pickHighlights: the scopes with the most commits; "identity" goes with "device".
PickHighlights(cs) ==
  LET groups == GroupByScope(cs)
      scopes == {s \in DOMAIN groups : ~(s = "identity" /\ "device" \in DOMAIN groups)}
      Before(s, t) == LET m == Cardinality(groups[s])  n == Cardinality(groups[t])
                      IN  m > n \/ (m = n /\ Min(groups[s]) < Min(groups[t]))
  IN  First(scopes, Limit, Before)

------------------------------------------------------------------------------
(* Contributors                                                             *)

\* Mutant of AuthorHasPriorContributions: addresses only.
AuthorHasPriorContributions_Email(a) == \E b \in prior : b.email = a.email

\* authorHasPriorContributions: by address, by login or by name.
AuthorHasPriorContributions(a) ==
  \E b \in prior :
    \/ b.email = a.email
    \/ a.login # None /\ b.login = a.login
    \/ b.name = a.name

\* collectContributors: the login's newest commit stands for all of them.  Logins
\* found in GitHub's list of pull requests only are never new, and left out.
CollectContributors ==
  LET by == [l \in {log[i].author.login : i \in DOMAIN log} \ {None, Owner} |->
               {i \in DOMAIN log : log[i].author.login = l}]
  IN  {[login |-> l, isNew |-> ~AuthorHasPriorContributions(log[Min(by[l])].author)] : l \in DOMAIN by}

\* renderContributorSections: GitHub's own list, then the others.
DerivedNew == {c.login : c \in {d \in CollectContributors : d.isNew}} \ github

------------------------------------------------------------------------------
(* Properties                                                               *)

\* Every fix of the release is in the notes and counted once: the line of its scope
\* names subjects of that scope and counts the others, however often and under
\* whichever spelling of the scope they were committed (renderSection).
FixesAreAccountedFor ==
  LET lines == RenderSection(OfTypes(FixTypes))
  IN  \A i \in DOMAIN log : log[i].type \in FixTypes =>
        LET subjects == {log[j].subject :
              j \in {k \in DOMAIN log : log[k].type \in FixTypes /\ Scope(k) = Scope(i)}}
        IN  /\ Scope(i) \in DOMAIN lines
            /\ lines[Scope(i)].named \subseteq subjects
            /\ Cardinality(lines[Scope(i)].named) + lines[Scope(i)].more = Cardinality(subjects)

\* A scope that is left out of the highlights has no more commits than any that
\* is in them (pickHighlights), but for the identity that a device goes with.
HighlightsAreHeaviest ==
  LET cs == OfTypes(FeatureTypes)
      Weight(s) == Cardinality({i \in cs : Scope(i) = s})
      chosen == PickHighlights(cs)
      others == ({Scope(i) : i \in cs} \ chosen) \ {"identity"}
  IN  /\ Cardinality(chosen) <= Limit
      /\ \A s \in others : Cardinality(chosen) = Limit /\ \A t \in chosen : Weight(s) <= Weight(t)

\* Nobody who has committed before, under any of several addresses of one login,
\* is announced as new by the script (authorHasPriorContributions).
NewcomersAreNew == \A l \in DerivedNew : \A a \in prior : a.login # l
===============================================================================
