--------------------------- MODULE SkillSelection ---------------------------
(***************************************************************************)
(* How the commands find the skill a user means (commands/query.ts).  A    *)
(* reference is an id, a name or author/name, with or without a version.   *)
(* get looks for it in the registry's list, deps in a dependency graph and *)
(* remove among the installed skills; --rgx matches a pattern against the  *)
(* whole list.  Where several skills answer the user chooses in a list;    *)
(* without a terminal the list gives its first row.                        *)
(***************************************************************************)
EXTENDS Integers, Sequences, FiniteSets

CONSTANTS
    Skills, Versions,
    IdOf,       \* each skill's id, author/name: [author, name], None for no author
    NameOf,     \* the name and the author its SKILL.md gives, None for neither
    AuthorOf,
    Listing,    \* every skill version, in the order of the text id@version
    None

Keys == Skills \X Versions

ASSUME SkillsAssumption == IsFiniteSet(Skills)
ASSUME ListingAssumption ==
    /\ Listing \in Seq(Keys) /\ {Listing[i] : i \in DOMAIN Listing} = Keys
    /\ Len(Listing) = Cardinality(Keys)
ASSUME IdAssumption == \A s, n \in Skills : IdOf[s] = IdOf[n] => s = n

-----------------------------------------------------------------------------
\* The same form for a reference and for an id: an author or None, a name.
Reference(author, name, version) == [author |-> author, name |-> name, version |-> version]
RequestedID(ref) == [author |-> ref.author, name |-> ref.name]

\* buildDisplayIdentity: what SKILL.md leaves open is taken from the id.
Identity(s) ==
    [author |-> IF AuthorOf[s] # None THEN AuthorOf[s] ELSE IdOf[s].author,
     name |-> IF NameOf[s] # None THEN NameOf[s] ELSE IdOf[s].name]

\* matchesSkillSelectorCandidate: the id, or the name and, if given, the author.
Answers(ref, s) ==
    \/ IdOf[s] = RequestedID(ref)
    \/ Identity(s).name = ref.name /\ ref.author \in {None, Identity(s).author}

Matching(ref, keys, matchVersion) ==
    {k \in keys : /\ Answers(ref, k[1])
                  /\ matchVersion /\ ref.version # None => k[2] = ref.version}

-----------------------------------------------------------------------------
Position(k) == CHOOSE i \in DOMAIN Listing : Listing[i] = k
First(keys) == CHOOSE k \in keys : \A n \in keys : Position(k) <= Position(n)

\* What selectSkillWithScroll may return, the only row being taken unasked.
Chosen(keys, tty) == IF tty \/ Cardinality(keys) <= 1 THEN keys ELSE {First(keys)}

\* What selectSkillsWithScroll may return.
ChosenSets(keys) == (SUBSET keys) \ {{}}

\* A version given on its own outweighs the one written in the reference.
WithExplicitVersion(ref, explicit) ==
    IF explicit = None THEN ref ELSE [ref EXCEPT !.version = explicit]

\* The list is matched without the version, and its rows are skill versions;
\* the version of the reference is put back on the row that was chosen.
ListedVersion(ref, row) == row[2]
SelectedVersion(ref, row) == IF ref.version # None THEN ref.version ELSE row[2]

\* resolveCatalogSkillSelection.  Without an answer the reference itself is
\* asked for, which no registry knows that did not list it.
CatalogSelection(ref, explicit, catalogue, tty) ==
    LET asked == WithExplicitVersion(ref, explicit) IN
    {<<row[1], SelectedVersion(asked, row)>> :
        row \in Chosen(Matching(asked, catalogue, FALSE), tty)}

\* resolveSkillIDByRegex: one row must match, and only its id is kept; the
\* version is the last of the skill's versions unless one is given.
Latest(s, catalogue) ==
    CHOOSE v \in Versions : /\ <<s, v>> \in catalogue
                            /\ \A w \in Versions : <<s, w>> \in catalogue =>
                                  Position(<<s, w>>) <= Position(<<s, v>>)
RegexSelection(pattern, explicit, catalogue) ==
    {<<row[1], IF explicit # None THEN explicit ELSE Latest(row[1], catalogue)>> :
        row \in IF Cardinality(pattern \cap catalogue) = 1 THEN pattern \cap catalogue ELSE {}}

\* selectLocalSkills: the sets of skills remove may go on with; {} when none
\* answers, and no set at all when nobody can be asked.
LocalSelections(ref, installed, tty) ==
    LET exact == {k \in installed : IdOf[k[1]] = RequestedID(ref) /\ ref.version = None}
        found == Matching(ref, installed, TRUE)
    IN  IF exact # {} THEN {exact}
        ELSE IF Cardinality(found) <= 1 THEN {found}
        ELSE IF tty THEN ChosenSets(found) ELSE {}
=============================================================================
