------------------------------- MODULE EvSchema -------------------------------
(***************************************************************************)
(* The event schema of core__ev: the table every event is declared in, the *)
(* self-test that ev_init runs over it once, the guards of the three ways  *)
(* to post, the counters per event, and the console's evstat.  The queues  *)
(* behind a post are EventBus's part.                                      *)
(*                                                                         *)
(* An event is named in three ways: by (src, code) when it is posted, by   *)
(* its place in the table when it is counted, and by its name when a       *)
(* person looks at it.  The self-test is what makes them agree.            *)
(***************************************************************************)
EXTENDS Naturals, Sequences, FiniteSets, FiniteSetsExt

CONSTANTS
  Tables,      (* the tables the program may be built with                *)
  Shipped,     (* EV_SCHEMA as it is                                      *)
  Sites,       (* the program's own posts: [name, api, zero]              *)
  MaxPosts     (* bound                                                   *)

Apis  == {"post", "post_lease", "post_from_isr"}
Kinds == {"NONE", "COPY", "LEASE", "STREAM"}

(* doc: has a description; flags: 0, 1 for EVF_CRITICAL, 2 for another.    *)
RowType == [name : STRING, key : Nat \X Nat, kind : Kinds,
            qos : {"DROP_NEW", "REPLACE_LAST"}, flags : {0, 1, 2}, doc : BOOLEAN]

ASSUME SchemaAssumption ==
  /\ Tables \cup {Shipped} \subseteq Seq(RowType)
  /\ \A s \in Sites : s.api \in Apis /\ \E i \in DOMAIN Shipped : Shipped[i].name = s.name
  /\ MaxPosts \in Nat

VARIABLES
  table,       (* s_ev_meta                                               *)
  up,          (* "off", "up" or "abort"                                  *)
  posts,       (* s_ev_posts_ok + s_ev_posts_drop, per place in the table: *)
              (* each post adds one to one of the two                      *)
  made,        (* history: posts per place, as the poster meant them      *)
  stray,       (* history: a post against the schema was made             *)
  cliAsked, cliSaid (* evstat: its argument and what it printed: <<word, row>> *)

schemaVars == <<table, up, posts, made, stray, cliAsked, cliSaid>>

SchemaInit ==
  /\ table \in Tables \cup {Shipped}
  /\ up = "off" /\ stray = FALSE
  /\ posts = [i \in DOMAIN table |-> 0] /\ made = posts
  /\ cliAsked = <<"none", 0>> /\ cliSaid = <<"nothing", 0>>

-----------------------------------------------------------------------------
(* ev_schema_selftest_or_abort_                                            *)
KeysDiffer(t)  == \A i, j \in DOMAIN t : i < j => t[i].key # t[j].key
NamesDiffer(t) == \A i, j \in DOMAIN t : i < j /\ t[i].name # "" => t[i].name # t[j].name

SoundNoQos(r) == r.name # "" /\ r.flags # 2 /\ (r.flags = 1 => r.doc)
Sound(r) ==
  /\ r.name # "" /\ r.flags # 2
  /\ r.qos = "REPLACE_LAST" => r.kind # "LEASE"
  /\ r.flags = 1 => r.doc

SelfTest(t) == KeysDiffer(t) /\ NamesDiffer(t) /\ \A i \in DOMAIN t : Sound(t[i])

Boot ==
  /\ up = "off"
  /\ up' = IF SelfTest(table) THEN "up" ELSE "abort"
  /\ UNCHANGED <<table, posts, made, stray, cliAsked, cliSaid>>

-----------------------------------------------------------------------------
(* ev_meta_find: the first row with the key, 0 when there is none.         *)
Find(t, k) == LET at == {i \in DOMAIN t : t[i].key = k} IN IF at = {} THEN 0 ELSE Min(at)

(* The guards: which API takes an event, zero: both arguments are 0.       *)
Accepts(api, r, zero) ==
  IF api = "post_lease" THEN r.kind = "LEASE" /\ r.qos = "DROP_NEW"
  ELSE r.kind # "LEASE" /\ (r.kind \in {"NONE", "STREAM"} => zero)

Count(i) == posts' = [posts EXCEPT ![i] = @ + 1]

Call(k, api, zero) ==
  LET i == Find(table, k) IN
    IF i # 0 /\ Accepts(api, table[i], zero)
    THEN Count(i) /\ UNCHANGED up
    ELSE up' = "abort" /\ UNCHANGED posts

Posting == up = "up" /\ FoldSet(LAMBDA i, n : n + made[i], 0, DOMAIN table) < MaxPosts

(* A post of event n, in a way the schema allows or in another.            *)
Post(n, api, zero) ==
  /\ Posting
  /\ Call(table[n].key, api, zero)
  /\ made' = [made EXCEPT ![n] = @ + 1]
  /\ stray' = (stray \/ [name |-> table[n].name, api |-> api, zero |-> zero] \notin Sites)
  /\ UNCHANGED <<table, cliAsked, cliSaid>>

-----------------------------------------------------------------------------
(* cmd_evstat: no argument or one of the four it knows; else the usage.    *)
Check      == KeysDiffer(table)

(* evstat show: by number or by name, the first that fits.  The code       *)
(* compares names in either case; those of the tables are all in one case, *)
(* as the schema's are.                                                    *)
Shown(by, n) ==
  LET fits == IF by = "show-id" THEN {n}
              ELSE IF by = "show-name" THEN {i \in DOMAIN table : table[i].name = table[n].name}
              ELSE {}
  IN IF fits = {} THEN <<"not found", 0>> ELSE <<"row", Min(fits)>>

Evstat(arg, n) ==
  /\ up = "up"
  /\ cliAsked' = <<arg, n>>
  /\ cliSaid' = CASE arg \in {"", "stat"} -> <<"counters", 0>>
               [] arg = "list"         -> <<"rows", 0>>
               [] arg = "check"        -> <<IF Check THEN "OK" ELSE "FAIL", 0>>
               [] n # 0                -> Shown(arg, n)
               [] OTHER                -> <<"usage", 0>>
  /\ UNCHANGED <<table, up, posts, made, stray>>

SchemaNext ==
  \/ Boot
  \/ \E n \in DOMAIN table, api \in Apis, zero \in BOOLEAN : Post(n, api, zero)
  \/ \E arg \in {"", "stat", "list", "show", "check", "--reset"} : Evstat(arg, 0)
  \/ \E by \in {"show-id", "show-name", "show-src:code"}, n \in DOMAIN table : Evstat(by, n)

SchemaSpec == SchemaInit /\ [][SchemaNext]_schemaVars

-----------------------------------------------------------------------------
SchemaTypeOK ==
  /\ table \in Seq(RowType)
  /\ up \in {"off", "up", "abort"}
  /\ DOMAIN posts = DOMAIN table
  /\ up = "off" => cliSaid[1] = "nothing"

(* A program that is up can post every event of its schema, a lease by     *)
(* ev_post_lease alone, the others by ev_post and ev_post_from_isr: the    *)
(* self-test leaves no row that is shadowed by another or that every guard *)
(* refuses.                                                                *)
ApisFor(r) == IF r.kind = "LEASE" THEN {"post_lease"} ELSE {"post", "post_from_isr"}
EveryEventHasItsApi ==
  up = "up" => \A i \in DOMAIN table :
    /\ Find(table, table[i].key) = i
    /\ {api \in Apis : Accepts(api, table[i], TRUE)} = ApisFor(table[i])

(* The counter in an event's place counts that event and no other.         *)
CountersNameTheirEvent == up # "abort" => posts = made

(* The program as it is comes up, and none of its own posts is against its *)
(* schema: guards and self-test abort no build of it.                      *)
OwnPostsAreLegal == table = Shipped /\ ~stray => up # "abort"

(* evstat check finds nothing wrong with a table that passed at boot.      *)
CheckAgreesWithBoot == cliAsked[1] = "check" => cliSaid[1] = "OK"

(* evstat show by number or by name shows the event that was named: names  *)
(* are as unique as the self-test makes them.                              *)
ShowsTheRowNamed ==
  cliAsked[1] \in {"show-id", "show-name"} => cliSaid = <<"row", cliAsked[2]>>

(* README.md:190: evstat show takes <EV_NAME|ID|SRC:CODE>.                 *)
ShowTakesSrcCode == cliAsked[1] = "show-src:code" => cliSaid = <<"row", cliAsked[2]>>

(* logging_cli.c:303: evstat --reset resets the counters.                  *)
ResetResets == cliAsked[1] = "--reset" => \A i \in DOMAIN table : posts[i] = 0
=============================================================================
