---------------------------- MODULE TeamIdentity ----------------------------
(***************************************************************************)
(* How a strict provider's clubs find their canonical team: alias rows by  *)
(* the provider's stable id, then by the name it displays, the worklist of *)
(* what did not resolve, and the operator's mappings.                      *)
(*                                                                         *)
(* A club stands for its stable id and for the canonical team a correct    *)
(* mapping gives it.  A name is a spelling as the provider sends it.       *)
(***************************************************************************)
EXTENDS Naturals, FiniteSets

CONSTANTS Club, Name

NoId == 0
NoTeam == 0
ASSUME ClubAssumption == IsFiniteSet(Club) /\ NoId \notin Club /\ NoTeam \notin Club
ASSUME NameAssumption == IsFiniteSet(Name) /\ Cardinality(Club) <= Cardinality(Name)

VARIABLES
  called,    \* the name each club has now
  teams,     \* the clubs with a canonical team
  alias,     \* the provider's alias rows, by name
  unmapped,  \* the names of the worklist
  confused   \* history: a name was reused as no mapping can survive

identityVars == <<called, teams, alias, unmapped, confused>>

Alias == [team : Club \cup {NoTeam}, ext : Club \cup {NoId}]
NoAlias == [team |-> NoTeam, ext |-> NoId]
Injective(f) == \A c, d \in DOMAIN f : f[c] = f[d] => c = d

IdentityInit ==
  /\ called \in {f \in [Club -> Name] : Injective(f)}
  /\ teams = {}
  /\ alias = [n \in Name |-> NoAlias]
  /\ unmapped = {} /\ confused = FALSE

\* get_or_create_canonical_team: the seed source creates a team once.
Seed(c) ==
  /\ c \notin teams
  /\ teams' = teams \cup {c}
  /\ UNCHANGED <<called, alias, unmapped, confused>>

\* The provider renames a club, to a free name or to one another club had.  A
\* row that has not learnt its club's id cannot tell the two apart.
Rename(c, n) ==
  /\ \A d \in Club : called[d] # n
  /\ called' = [called EXCEPT ![c] = n]
  /\ confused' = (confused \/ (alias[n].team \notin {c, NoTeam} /\ alias[n].ext = NoId))
  /\ UNCHANGED <<teams, alias, unmapped>>

\* The row that answers for a club with its stable id, and the two lookups the
\* other way round.
Owns(n, c) == c # NoId /\ alias[n].ext = c
FoundNameFirst(n, c) ==
  IF alias[n] # NoAlias \/ ~(\E m \in Name : Owns(m, c)) THEN n
  ELSE CHOOSE m \in Name : Owns(m, c)
Found(n, c) ==
  IF \E m \in Name : Owns(m, c) THEN CHOOSE m \in Name : Owns(m, c) ELSE n

\* resolve_team for a record that carries the id c, or NoId, and the name n.
Resolve(n, c) ==
  LET row == Found(n, c) IN
  /\ alias[row] # NoAlias
  /\ alias' = IF c # NoId /\ alias[row].ext = NoId
              THEN [alias EXCEPT ![row].ext = c] ELSE alias
  /\ UNCHANGED <<called, teams, unmapped, confused>>

\* _record_unmapped, and the record is left out of the import.
RecordUnmapped(n, c) ==
  /\ alias[Found(n, c)] = NoAlias
  /\ unmapped' = unmapped \cup {n}
  /\ UNCHANGED <<called, teams, alias, confused>>

\* map_team: the operator binds a name, with the club's id or without.  The id
\* is unique per provider.  A name re-bound without an id keeps the id it has.
Map(n, c, id) ==
  /\ c \in teams /\ called[c] = n
  /\ n \in unmapped \/ alias[n] # NoAlias
  /\ id # NoId => \A m \in Name \ {n} : alias[m].ext # id
  /\ alias' = [alias EXCEPT ![n] = [team |-> c, ext |-> IF id # NoId THEN id ELSE @.ext]]
  /\ unmapped' = unmapped \ {n}
  /\ confused' = (confused \/ (id = NoId /\ alias[n].ext \notin {c, NoId}))
  /\ UNCHANGED <<called, teams>>

IdentityNext ==
  \/ \E c \in Club : Seed(c)
  \/ \E c \in Club, n \in Name : Rename(c, n)
  \/ \E c \in Club : \E id \in {c, NoId} :
       Resolve(called[c], id) \/ RecordUnmapped(called[c], id) \/ Map(called[c], c, id)

IdentitySpec == IdentityInit /\ [][IdentityNext]_identityVars

-----------------------------------------------------------------------------

\* A club whose stable id is in some row resolves to its own team, whatever
\* name it, or another club, took since; two clubs may even have swapped
\* names.  Excepted: a name reused before its row learnt an id, and a row
\* re-bound to another club without that club's id (resolve_team, map_team).
IdentityKept ==
  ~confused =>
    \A c \in Club :
      (\E n \in Name : alias[n].ext = c) => alias[Found(called[c], c)].team = c

=============================================================================
