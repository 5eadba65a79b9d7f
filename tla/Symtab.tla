------------------------------- MODULE Symtab -------------------------------
(***************************************************************************)
(* The symbol table of scope_symtab.c: an array of associations, of which  *)
(* the first size are in use.  An association and the attributes it points *)
(* to (id_attrs.c) are one record here: neither is changed or shared after *)
(* it is created.                                                          *)
(***************************************************************************)
EXTENDS Integers, FiniteSets

CONSTANTS
  Names,          \* the identifiers
  MaxScopeSize    \* MAX_SCOPE_SIZE

ASSUME MaxScopeSizeAssumption == MaxScopeSize \in Nat

VARIABLE symtab   \* the fields size and entries

Kinds == {"constant", "variable"}

\* Contents of a slot of the array that is no association: the null pointer,
\* and whatever is found in memory that was not, or wrongly, written.
NullId == "null"
JunkId == "junk"

ASSUME NamesAssumption == Names \subseteq STRING \ {NullId, JunkId, "no-text"}

Slots == [id : Names \cup {NullId, JunkId}, loc : Nat, kind : Kinds, offset : Nat]

EmptySlot(id) == [id |-> id, loc |-> 0, kind |-> "constant", offset |-> 0]

\* The tables that scope_create can return.  Its loop variable j is not
\* initialized: the slots before its first value keep what malloc left there.
CreatedTables ==
  {[size |-> 0,
    entries |-> [i \in 0 .. MaxScopeSize - 1 |->
                   EmptySlot(IF i < j THEN JunkId ELSE NullId)]]
     : j \in 0 .. MaxScopeSize}

\* Mutant: the offset to use next counts the name about to be declared.
scope_size_next == symtab.size + 1

scope_size == symtab.size
scope_full == scope_size >= MaxScopeSize

\* The first slot in use that holds the name, or the null slot.
scope_lookup(name) ==
  LET found == {i \in 0 .. symtab.size - 1 : symtab.entries[i].id = name}
  IN  IF found = {} THEN EmptySlot(NullId)
      ELSE symtab.entries[CHOOSE i \in found : \A j \in found : i <= j]

scope_defined(name) == scope_lookup(name) # EmptySlot(NullId)

\* Mutant: offsets start at -1, that of the name declared last.
create_id_attrs_last(name, floc, k, ofst) ==
  [id |-> name, loc |-> floc, kind |-> k, offset |-> ofst - 1]

create_id_attrs(name, floc, k, ofst) ==
  [id |-> name, loc |-> floc, kind |-> k, offset |-> ofst]

\* Mutant: the next slot is taken to be the one after size, as the comment on
\* the idea of the table says.
WrittenOnePast(i, assoc) ==
  {[j \in DOMAIN symtab.entries \cup {i + 1} |->
      IF j = i + 1 THEN assoc ELSE symtab.entries[j]]}

\* The array after a write.  Writing past its end (scope_add does not check
\* scope_full) hits the memory of other blocks: the entry may be kept there,
\* and it may overwrite an association that is in use.
Written(i, assoc) ==
  LET entries == [j \in DOMAIN symtab.entries \cup {i} |->
                    IF j = i THEN assoc ELSE symtab.entries[j]]
  IN  IF i < MaxScopeSize THEN {entries}
      ELSE {entries} \cup {[entries EXCEPT ![j].id = JunkId] : j \in 0 .. i}

scope_add(assoc) ==
  \E entries \in Written(symtab.size, assoc) :
    symtab' = [size |-> symtab.size + 1, entries |-> entries]

\* An entry in use is not an association any more.
Damaged == \E i \in 0 .. symtab.size - 1 : symtab.entries[i].id \notin Names
=============================================================================
