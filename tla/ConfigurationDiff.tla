--------------------------- MODULE ConfigurationDiff ---------------------------
\* What the diff of two stored configurations says (snapshots/diffing.py), its
\* JSON Patch, and the atoms the Guardian builds from it (guardian/change.py).
\* A document maps attributes to values; a value is a leaf, a map of leaves, or
\* a list whose items are leaves or maps of leaves.  A leaf is
\* <<"v", text, "">>, or <<"s", ciphertext, fingerprint>> for a secret.
EXTENDS Integers, Sequences, FiniteSets, Functions, SequencesExt

CONSTANTS
    Keys,             \* every attribute and key, in the order canonical documents keep
    Values,           \* the values each attribute may have
    Ignored,          \* metadata keys
    IDENTITY_KEYS,    \* the keys that may identify the items of a list, in order
    MAX_ENTRIES

VARIABLES before, after
vars == <<before, after>>

\* A node is [is, items]: a leaf is one item with the single key Here.
Here == ""
ABSENT == [is |-> "absent", items |-> <<>>]
Leaf(l) == [is |-> "leaf", items |-> <<[k \in {Here} |-> l]>>]
Map(f) == [is |-> "map", items |-> <<f>>]
Text(t) == <<"v", t, "">>
null == Text("null")
Item(f) == [is |-> IF DOMAIN f = {Here} THEN "leaf" ELSE "map", items |-> <<f>>]
At(f, k) == IF k \in DOMAIN f THEN Leaf(f[k]) ELSE ABSENT
LeafOf(n) == n.items[1][Here]

is_secret(n) == n.is = "leaf" /\ LeafOf(n)[1] = "s"
Masked(l) == IF l[1] = "s" THEN Text("********") ELSE l
redact_value(n) == [n EXCEPT !.items = [i \in DOMAIN n.items |-> [k \in DOMAIN n.items[i] |-> Masked(n.items[i][k])]]]
stable_json(n) == redact_value(n)

\* canonicalize: metadata dropped at every depth, keys in one order.
Kept(f) == [k \in DOMAIN f \ Ignored |-> f[k]]
canonicalize(n) == [n EXCEPT !.items = [i \in DOMAIN n.items |-> Kept(n.items[i])]]
comparison_document(doc) == [k \in DOMAIN doc \ Ignored |-> canonicalize(doc[k])]
get(doc, k, default) == IF k \in DOMAIN doc THEN doc[k] ELSE default
changed_top_level_fields(b, a) ==
    {k \in (DOMAIN b \union DOMAIN a) \ Ignored :
        canonicalize(get(b, k, Leaf(null))) # canonicalize(get(a, k, Leaf(null)))}

\* Before's keys, then those only after has, both in canonical order.
_ordered_keys(b, a) ==
    SelectSeq(Keys, LAMBDA k : k \in DOMAIN b) \o SelectSeq(Keys, LAMBDA k : k \in DOMAIN a \ DOMAIN b)

------------------------
\* The walk: the entries in order.
Entry(path, kind) == <<[path |-> path, kind |-> kind, secret |-> FALSE, unknown |-> FALSE, reordered |-> FALSE]>>
Secret(path, kind, unknown) ==
    <<[path |-> path, kind |-> kind, secret |-> TRUE, unknown |-> unknown, reordered |-> FALSE]>>
_add_reorder(path) == <<[Entry(path, "MODIFIED")[1] EXCEPT !.reordered = TRUE]>>

_compare_secretsSlip(b, a) == IF b[2] = a[2] THEN "equal" ELSE "different"
_compare_secrets(b, a) ==
    IF b[3] # "" /\ a[3] # "" THEN IF b[3] = a[3] THEN "equal" ELSE "different"
    ELSE IF b[2] = a[2] THEN "equal" ELSE "unknown"
_walk_secret(path, b, a) ==
    CASE a = ABSENT -> Secret(path, "REMOVED", FALSE)
      [] b = ABSENT -> Secret(path, "ADDED", FALSE)
      [] is_secret(b) /\ is_secret(a) ->
             LET decision == _compare_secrets(LeafOf(b), LeafOf(a))
             IN  IF decision = "equal" THEN <<>> ELSE Secret(path, "MODIFIED", decision = "unknown")
      [] OTHER -> Secret(path, "MODIFIED", FALSE)

\* A subtree on one side only: an entry per leaf, an empty one for itself.
OneSidedLeaf(path, n, kind) ==
    IF is_secret(n) THEN Secret(path, kind, FALSE) ELSE Entry(path, kind)
OneSidedItem(path, n, kind) ==
    IF n.is = "leaf" \/ DOMAIN n.items[1] = {} THEN OneSidedLeaf(path, n, kind)
    ELSE LET keys == SelectSeq(Keys, LAMBDA k : k \in DOMAIN n.items[1])
         IN  FlattenSeq([i \in DOMAIN keys |->
                 OneSidedLeaf(Append(path, keys[i]), At(n.items[1], keys[i]), kind)])
walk_one_sided(path, n, kind) ==
    IF n.is # "list" THEN OneSidedItem(path, n, kind)
    ELSE IF n.items = <<>> THEN Entry(path, kind)
    ELSE FlattenSeq([i \in DOMAIN n.items |-> OneSidedItem(Append(path, i), Item(n.items[i]), kind)])

Differs(path, b, a) == IF stable_json(b) # stable_json(a) THEN Entry(path, "MODIFIED") ELSE <<>>
WalkLeaf(path, b, a) ==
    IF is_secret(b) \/ is_secret(a) THEN _walk_secret(path, b, a)
    ELSE IF b = ABSENT THEN Entry(path, "ADDED") ELSE IF a = ABSENT THEN Entry(path, "REMOVED")
    ELSE Differs(path, b, a)
_walk_mapping(path, b, a) ==
    LET keys == _ordered_keys(b, a)
    IN  FlattenSeq([i \in DOMAIN keys |-> WalkLeaf(Append(path, keys[i]), At(b, keys[i]), At(a, keys[i]))])
WalkItem(path, b, a) ==
    IF is_secret(b) \/ is_secret(a) THEN _walk_secret(path, b, a)
    ELSE IF b.is = "map" /\ a.is = "map" THEN _walk_mapping(path, b.items[1], a.items[1])
    ELSE Differs(path, b, a)

_identifies(items, key) ==
    /\ \A i \in DOMAIN items : key \in DOMAIN items[i] /\ items[i][key][1] = "v" /\ items[i][key] # null
    /\ \A i, j \in DOMAIN items : i # j => items[i][key] # items[j][key]
_identity_key(b, a) ==
    LET mappings == \A items \in {b, a} : items # <<>> /\ \A i \in DOMAIN items : Item(items[i]).is = "map"
        found == SelectSeq(IDENTITY_KEYS, LAMBDA k : _identifies(b, k) /\ _identifies(a, k))
    IN  IF mappings /\ found # <<>> THEN {found[1]} ELSE {}
_walk_identified(path, b, a, key) ==
    LET ids(items) == [i \in DOMAIN items |-> items[i][key]]
        of(items, id) == Item(items[CHOOSE i \in DOMAIN items : items[i][key] = id])
        removed == SelectSeq(ids(b), LAMBDA id : id \notin Range(ids(a)))
    IN  (IF Range(ids(b)) = Range(ids(a)) /\ ids(b) # ids(a) THEN _add_reorder(path) ELSE <<>>)
        \o FlattenSeq([i \in DOMAIN removed |->
               walk_one_sided(Append(path, removed[i][2]), of(b, removed[i]), "REMOVED")])
        \o FlattenSeq([i \in DOMAIN a |->
               LET id == ids(a)[i]
               IN  IF id \in Range(ids(b)) THEN WalkItem(Append(path, id[2]), of(b, id), Item(a[i]))
                   ELSE walk_one_sided(Append(path, id[2]), Item(a[i]), "ADDED")])

Same(items, x) == Cardinality({i \in DOMAIN items : stable_json(Item(items[i])) = x})
_is_pure_reorder(b, a) ==
    LET shown(items) == [i \in DOMAIN items |-> stable_json(Item(items[i]))]
    IN  /\ Len(b) = Len(a) /\ shown(b) # shown(a)
        /\ \A x \in Range(shown(b)) \union Range(shown(a)) : Same(b, x) = Same(a, x)
_walk_positional(path, b, a) ==
    IF _is_pure_reorder(b, a) THEN _add_reorder(path)
    ELSE FlattenSeq([i \in 1 .. (IF Len(b) > Len(a) THEN Len(b) ELSE Len(a)) |->
             IF i > Len(a) THEN walk_one_sided(Append(path, i), Item(b[i]), "REMOVED")
             ELSE IF i > Len(b) THEN walk_one_sided(Append(path, i), Item(a[i]), "ADDED")
             ELSE WalkItem(Append(path, i), Item(b[i]), Item(a[i]))])
_walk_sequence(path, b, a) ==
    IF \E key \in _identity_key(b, a) : TRUE
    THEN _walk_identified(path, b, a, CHOOSE key \in _identity_key(b, a) : TRUE)
    ELSE _walk_positional(path, b, a)

walk(path, b, a) ==
    IF is_secret(b) \/ is_secret(a) THEN _walk_secret(path, b, a)
    ELSE IF b = ABSENT THEN walk_one_sided(path, a, "ADDED")
    ELSE IF a = ABSENT THEN walk_one_sided(path, b, "REMOVED")
    ELSE IF b.is = "map" /\ a.is = "map" THEN _walk_mapping(path, b.items[1], a.items[1])
    ELSE IF b.is = "list" /\ a.is = "list" THEN _walk_sequence(path, b.items, a.items)
    ELSE Differs(path, b, a)
_walk_changes(b, a) ==
    LET old == comparison_document(b) new == comparison_document(a) keys == _ordered_keys(old, new)
    IN  FlattenSeq([i \in DOMAIN keys |->
            walk(<<keys[i]>>, get(old, keys[i], ABSENT), get(new, keys[i], ABSENT))])

\* The walker keeps MAX_ENTRIES and says whether it saw more.
changed_paths(b, a) ==
    LET found == _walk_changes(b, a)
    IN  [paths |-> {found[i].path : i \in {j \in DOMAIN found : j <= MAX_ENTRIES}},
         complete |-> Len(found) <= MAX_ENTRIES]

\* build_change_set: the attributes that become atoms.
build_change_setSlip(b, a) == {p[1] : p \in changed_paths(b, a).paths}
build_change_set(b, a) ==
    LET found == changed_paths(b, a)
    IN  {p[1] : p \in found.paths} \union (IF found.complete THEN {} ELSE changed_top_level_fields(b, a))

------------------------
\* JSON Patch between the redacted documents.
redact_document(doc) == LET kept == comparison_document(doc) IN [k \in DOMAIN kept |-> redact_value(kept[k])]
Beyond(b, a) == IF Len(b) > Len(a) THEN Len(b) - Len(a) ELSE 0
Op(op, path, value) == <<[op |-> op, path |-> path, value |-> value]>>
_patch_mapping(path, b, a) ==
    LET keys == _ordered_keys(b, a)
    IN  FlattenSeq([i \in DOMAIN keys |->
            LET k == keys[i] child == Append(path, k)
            IN  IF k \notin DOMAIN a THEN Op("remove", child, ABSENT)
                ELSE IF k \notin DOMAIN b THEN Op("add", child, Leaf(a[k]))
                ELSE IF b[k] # a[k] THEN Op("replace", child, Leaf(a[k])) ELSE <<>>])
_patch_sequenceSlip(path, b, a) ==
    FlattenSeq([i \in 1 .. (IF Len(b) < Len(a) THEN Len(b) ELSE Len(a)) |->
        IF Item(b[i]) # Item(a[i]) THEN Op("replace", Append(path, i), Item(a[i])) ELSE <<>>])
    \o FlattenSeq([n \in 1 .. Beyond(b, a) |-> Op("remove", Append(path, Len(a) + n), ABSENT)])
    \o FlattenSeq([n \in 1 .. Beyond(a, b) |-> Op("add", Append(path, "-"), Item(a[Len(b) + n]))])
_patch_sequence(path, b, a) ==
    FlattenSeq([i \in 1 .. (IF Len(b) < Len(a) THEN Len(b) ELSE Len(a)) |->
        IF Item(b[i]).is = "map" /\ Item(a[i]).is = "map" THEN _patch_mapping(Append(path, i), b[i], a[i])
        ELSE IF Item(b[i]) # Item(a[i]) THEN Op("replace", Append(path, i), Item(a[i])) ELSE <<>>])
    \o FlattenSeq([n \in 1 .. Beyond(b, a) |-> Op("remove", Append(path, Len(b) + 1 - n), ABSENT)])
    \o FlattenSeq([n \in 1 .. Beyond(a, b) |-> Op("add", Append(path, "-"), Item(a[Len(b) + n]))])
_patch_value(path, b, a) ==
    IF b.is = "map" /\ a.is = "map" THEN _patch_mapping(path, b.items[1], a.items[1])
    ELSE IF b.is = "list" /\ a.is = "list" THEN _patch_sequence(path, b.items, a.items)
    ELSE IF b # a THEN Op("replace", path, a) ELSE <<>>
build_json_patch(b, a) ==
    LET old == redact_document(b) new == redact_document(a) keys == _ordered_keys(old, new)
    IN  FlattenSeq([i \in DOMAIN keys |->
            LET k == keys[i]
            IN  IF k \notin DOMAIN new THEN Op("remove", <<k>>, ABSENT)
                ELSE IF k \notin DOMAIN old THEN Op("add", <<k>>, new[k])
                ELSE _patch_value(<<k>>, old[k], new[k])])

------------------------
\* The two documents change one attribute at a time.
Attributes == DOMAIN Values
Documents == UNION {{d \in [D -> UNION {Values[k] : k \in D}] : \A k \in D : d[k] \in Values[k]} :
                       D \in SUBSET Attributes}
Init == before \in Documents /\ after = before
Dropped == \E k \in DOMAIN after : after' = [x \in DOMAIN after \ {k} |-> after[x]]
Written ==
    \E k \in Attributes : \E v \in Values[k] :
        after' = [x \in DOMAIN after \union {k} |-> IF x = k THEN v ELSE after[x]]
Next == UNCHANGED before /\ (Dropped \/ Written)
Spec == Init /\ [][Next]_vars

------------------------
\* Properties, against what the documents mean.
\* A secret is its plaintext where a fingerprint says which, else its ciphertext.
Meant(l) == IF l[1] = "s" /\ l[3] # "" THEN <<"s", "", l[3]>> ELSE l
Meaning(n) == [n EXCEPT !.items = [i \in DOMAIN n.items |-> [k \in DOMAIN n.items[i] |-> Meant(n.items[i][k])]]]
DiffersIn(k) ==
    LET old == comparison_document(before) new == comparison_document(after)
    IN  Meaning(get(old, k, ABSENT)) # Meaning(get(new, k, ABSENT))
Changed == {k \in (DOMAIN before \union DOMAIN after) \ Ignored : DiffersIn(k)}

\* The diff names an attribute exactly when its meaning changed: a secret that
\* was encrypted again is no change, one that was replaced is, wherever it sits.
NothingUnsaid ==
    LET found == _walk_changes(before, after)
    IN  {found[i].path[1] : i \in DOMAIN found} = Changed

\* An attribute that changed becomes an atom even where the walker stopped
\* early; only one that appeared as null may then be missed.
EveryChangeIsAnAtom ==
    \A k \in Changed \ build_change_set(before, after) :
        /\ ~changed_paths(before, after).complete
        /\ {get(before, k, Leaf(null)), get(after, k, Leaf(null))} = {Leaf(null)}

\* RFC 6902, operation by operation.
Into(n, path, op) ==
    LET items == n.items f == n.items[path[2]]
    IN  IF n.is = "map"
        THEN Map([x \in (IF op.op = "remove" THEN DOMAIN items[1] \ {path[2]} ELSE DOMAIN items[1] \union {path[2]}) |->
                     IF x = path[2] THEN LeafOf(op.value) ELSE items[1][x]])
        ELSE IF Len(path) = 3
        THEN [n EXCEPT !.items[path[2]] =
                 [x \in (IF op.op = "remove" THEN DOMAIN f \ {path[3]} ELSE DOMAIN f \union {path[3]}) |->
                     IF x = path[3] THEN LeafOf(op.value) ELSE f[x]]]
        ELSE IF op.op = "remove" THEN [n EXCEPT !.items = RemoveAt(@, path[2])]
        ELSE IF op.op = "add" THEN [n EXCEPT !.items = Append(@, op.value.items[1])]
        ELSE [n EXCEPT !.items[path[2]] = op.value.items[1]]
Apply(doc, op) ==
    LET k == op.path[1]
    IN  IF Len(op.path) > 1 THEN [doc EXCEPT ![k] = Into(@, op.path, op)]
        ELSE IF op.op = "remove" THEN [x \in DOMAIN doc \ {k} |-> doc[x]]
        ELSE [x \in DOMAIN doc \union {k} |-> IF x = k THEN op.value ELSE doc[x]]
\* Applied to the redacted document before, the patch yields the one after.
PatchReproduces ==
    FoldLeft(Apply, redact_document(before), build_json_patch(before, after)) = redact_document(after)

\* What is said to be only reordered holds the same items as before.
ReorderKeepsItems ==
    LET found == _walk_changes(before, after)
        meant(doc, k) == LET n == Meaning(comparison_document(doc)[k]) IN Range(n.items)
    IN  \A i \in DOMAIN found :
            found[i].reordered /\ (\A j \in DOMAIN found : j # i => found[j].path[1] # found[i].path[1])
            => meant(before, found[i].path[1]) = meant(after, found[i].path[1])
=============================================================================
