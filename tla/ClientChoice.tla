---------------------------- MODULE ClientChoice ----------------------------
(***************************************************************************)
(* How a Consumed Thing chooses the form and the client of an interaction, *)
(* sets the security of the client, fills the form in, and judges the      *)
(* answer (core/src/consumed-thing.ts, helpers.ts), while the runtime adds *)
(* and removes client factories.  Which form ends a subscription included. *)
(*                                                                         *)
(* A call is chosen and sent in one step: there is no await before it.     *)
(***************************************************************************)
EXTENDS Naturals, FiniteSetsExt, SequencesExt

CONSTANTS
    Things,         \* Thing Descriptions, see ThingType
    HasCredentials, \* the servient holds credentials for the Thing
    Schemes,
    MaxSubs,        \* bound on established subscriptions
    None

VARIABLES
    td,             \* the Thing Description of the Consumed Thing
    factories,      \* the schemes the servient has a client factory for
    clients,        \* #clients of the Thing, by scheme
    call,           \* the latest call
    subs            \* subscriptions: what observeProperty and subscribeEvent return

vars == <<td, factories, clients, call, subs>>

Operations ==
    {"readproperty", "writeproperty", "observeproperty", "unobserveproperty",
     "invokeaction", "subscribeevent", "unsubscribeevent"}

\* mentions: the schemes that occur in the href with a colon behind, its own
\* and those that end it ("opc.tcp:") or come later; ops: {} when `op` is
\* absent; single: `op` is a string, no array.
FormType ==
    [scheme : Schemes, mentions : SUBSET Schemes, ops : SUBSET Operations, single : BOOLEAN,
     security : Seq(STRING), type : {"json", "text"}]

\* security and parts are names, with or without a definition; valid: a combo
\* is either of allOf or of oneOf.
DefinitionType ==
    [scheme : {"nosec", "basic", "combo"}, parts : Seq(STRING), valid : BOOLEAN]

IsThing(t) ==
    /\ t.security \in Seq(STRING) /\ IsFiniteSet(DOMAIN t.affordances)
    /\ \A a \in DOMAIN t.affordances :
          /\ t.affordances[a].kind \in {"property", "action", "event"}
          /\ t.affordances[a].forms \in Seq(FormType)
          /\ \A f \in Range(t.affordances[a].forms) : f.scheme \in f.mentions
    /\ \A n \in DOMAIN t.definitions : t.definitions[n] \in DefinitionType

ASSUME ClientChoiceAssumption == (\A t \in Things : IsThing(t)) /\ HasCredentials \in BOOLEAN

Affordances == td.affordances
Definitions == td.definitions
Forms(a) == Affordances[a].forms

-----------------------------------------------------------------------------
(* Security                                                                *)

Defined(names) == Range(names) \cap DOMAIN Definitions

\* getSecuritySchemes goes through the parts of each combo it comes to, and
\* never twice through those of one.
Visited(names) ==
    LET IsClosed(S) ==
          \A n \in S : Definitions[n].scheme = "combo" => Defined(Definitions[n].parts) \subseteq S
    IN  {n \in DOMAIN Definitions :
           \A S \in SUBSET DOMAIN Definitions : Defined(names) \subseteq S /\ IsClosed(S) => n \in S}

\* A combo that is neither allOf nor oneOf throws.
VisitFails(names) == \E n \in Visited(names) : Definitions[n].scheme = "combo" /\ ~Definitions[n].valid

\* The first scheme of the list that it returns: a name without definition is
\* passed over, and counts as null where it comes up again.
FirstScheme(names) ==
    LET counts == {k \in DOMAIN names : \/ names[k] \in DOMAIN Definitions
                                       \/ \E j \in 1..(k - 1) : names[j] = names[k]}
        name == names[Min(counts)]
    IN  CASE counts = {} -> "none"
          [] counts # {} /\ name \notin DOMAIN Definitions -> "null"
          [] OTHER -> Definitions[name].scheme

\* ensureClientSecurity: the security of a form goes before that of the Thing.
Required(f) == IF f # None /\ f.security # <<>> THEN f.security ELSE td.security
OfForm(f) == f # None /\ f.security # <<>>

\* setSecurity of a client that can do basic: it throws when it does not find
\* user and password, which it never does in the array of all credentials
\* that goes with the security of a form.  No schemes, no security.
SecurityFails(f) ==
    /\ Required(f) # <<>>
    /\ \/ VisitFails(Required(f))
       \/ FirstScheme(Required(f)) = "null"
       \/ FirstScheme(Required(f)) = "basic" /\ (OfForm(f) \/ ~HasCredentials)

\* What the client is secured with.
SecurityAfter(f) == IF Required(f) = <<>> THEN None ELSE Required(f)

-----------------------------------------------------------------------------
(* The choice                                                              *)

DefaultOps(kind) ==
    CASE kind = "property" -> {"readproperty", "writeproperty"}
      [] kind = "action" -> {"invokeaction"}
      [] kind = "event" -> {"subscribeevent"}

\* A string is searched for the operation within it.
Within(op) ==
    {op} \cup (CASE op = "observeproperty" -> {"unobserveproperty"}
                 [] op = "subscribeevent" -> {"unsubscribeevent"}
                 [] OTHER -> {})
Offers(f, kind, op) ==
    IF f.ops = {} THEN op \in DefaultOps(kind)
    ELSE IF f.single THEN f.ops \cap Within(op) # {} ELSE op \in f.ops

\* Mutant: any form for the operation will do.
FindAnyForm(a, op, scheme) ==
    LET fits == {i \in DOMAIN Forms(a) : Offers(Forms(a)[i], Affordances[a].kind, op)}
    IN  IF fits = {} THEN 0 ELSE Min(fits)

\* The first form for the operation whose href mentions the scheme; 0: there
\* is none.
FindForm(a, op, scheme) ==
    LET fits == {i \in DOMAIN Forms(a) : /\ scheme \in Forms(a)[i].mentions
                                         /\ Offers(Forms(a)[i], Affordances[a].kind, op)}
    IN  IF fits = {} THEN 0 ELSE Min(fits)

NewClient(scheme, security) == [scheme |-> scheme, security |-> security]

NoCall == [outcome |-> "none", a |-> None, op |-> None, index |-> None, form |-> 0,
           client |-> None, stale |-> FALSE]

Thrown(cache) == [clients |-> cache, call |-> [NoCall EXCEPT !.outcome = "thrown"]]

\* index: options.formIndex.  A client is made although there may be one
\* already, which is then neither used nor replaced.
ByIndex(cache, a, op, index) ==
    LET f == Forms(a)[index]
        again == cache[f.scheme] # None
        client == NewClient(f.scheme, IF again THEN None ELSE SecurityAfter(f))
    IN  IF index \notin DOMAIN Forms(a) THEN Thrown(cache)
        ELSE IF f.scheme \notin factories \/ (~again /\ SecurityFails(f))
        THEN Thrown(cache)
        ELSE [clients |-> IF again THEN cache ELSE [cache EXCEPT ![f.scheme] = client],
              call |-> [outcome |-> "chosen", a |-> a, op |-> op, index |-> index, form |-> index,
                        client |-> client, stale |-> again]]

\* The form found, or none, for a client that is at hand from now on.
WithClient(cache, a, op, scheme) ==
    [clients |-> cache,
     call |-> [outcome |-> IF FindForm(a, op, scheme) = 0 THEN "noform" ELSE "chosen",
               a |-> a, op |-> op, index |-> None, form |-> FindForm(a, op, scheme),
               client |-> cache[scheme], stale |-> FALSE]]

\* Mutant: without a form for the operation no security is set.
FirstSecurityOfForm(f) == IF f = None THEN None ELSE SecurityAfter(f)

\* ensureClientSecurity of a new client, whether a form was found or not.
FirstSecurity(f) == SecurityAfter(f)

\* The first form whose scheme has a client decides, or else the first whose
\* scheme has a factory: its client is kept before its security is set.
ByScheme(cache, a, op) ==
    LET Places(S) == {i \in DOMAIN Forms(a) : Forms(a)[i].scheme \in S}
        known == Places({s \in Schemes : cache[s] # None})
        scheme == Forms(a)[Min(IF known # {} THEN known ELSE Places(factories))].scheme
        f == IF FindForm(a, op, scheme) = 0 THEN None ELSE Forms(a)[FindForm(a, op, scheme)]
    IN  IF known # {} THEN WithClient(cache, a, op, scheme)
        ELSE IF Places(factories) = {} THEN Thrown(cache)
        ELSE IF SecurityFails(f)
        THEN Thrown([cache EXCEPT ![scheme] = NewClient(scheme, None)])
        ELSE WithClient([cache EXCEPT ![scheme] = NewClient(scheme, FirstSecurity(f))], a, op, scheme)

\* getClientFor
ClientFor(cache, a, op, index) ==
    IF Forms(a) = <<>> THEN Thrown(cache)
    ELSE IF index # None THEN ByIndex(cache, a, op, index)
    ELSE ByScheme(cache, a, op)

-----------------------------------------------------------------------------
(* Which form ends a subscription                                          *)

Ending(op) == IF op = "observeproperty" THEN "unobserveproperty" ELSE "unsubscribeevent"

Score(a, from, i, op) ==
    LET f == Forms(a)[i] ref == Forms(a)[from]
    IN  (IF op \in f.ops THEN 1 ELSE 0) + (IF f.scheme = ref.scheme THEN 1 ELSE 0)
        + (IF f.type = ref.type THEN 1 ELSE 0)

\* matchingUnsubscribeForm: the form itself if it says so, for an event also
\* if it says nothing; else the first of those with the best score.
EndingForm(a, from, op) ==
    LET ref == Forms(a)[from]
        Best(i) == \A j \in DOMAIN Forms(a) : Score(a, from, j, op) <= Score(a, from, i, op)
    IN  IF (op \in ref.ops /\ ~ref.single) \/ (op = "unsubscribeevent" /\ ref.ops = {}) THEN from
        ELSE Min({i \in DOMAIN Forms(a) : Best(i)})

-----------------------------------------------------------------------------
(* Steps                                                                   *)

Init ==
    /\ td \in Things
    /\ factories \in SUBSET Schemes
    /\ clients = [s \in Schemes |-> None]
    /\ call = NoCall
    /\ subs = {}

\* The operations of an affordance, apart from those that end one.
OpsOf(kind) ==
    CASE kind = "property" -> {"readproperty", "writeproperty", "observeproperty"}
      [] kind = "action" -> {"invokeaction"}
      [] kind = "event" -> {"subscribeevent"}

Becomes(result, proper) ==
    /\ clients' = result.clients
    /\ call' = IF proper THEN result.call ELSE [NoCall EXCEPT !.outcome = "thrown"]

\* readProperty, writeProperty, invokeAction and the first part of the two
\* that subscribe.  proper: the value can be serialized and the URI variables
\* are known; else the call throws, with a client chosen.
Interact(a, op, index, proper) ==
    /\ Becomes(ClientFor(clients, a, op, index), proper)
    /\ UNCHANGED <<td, factories, subs>>

\* The answer comes, of the type that the form expects or of another one.
Answer ==
    /\ call.outcome = "chosen"
    /\ call' = NoCall
    /\ \/ /\ call.op \in {"observeproperty", "subscribeevent"}
          /\ Cardinality(subs) < MaxSubs
          /\ subs' = subs \cup {[a |-> call.a, op |-> call.op, form |-> call.form, client |-> call.client]}
       \/ subs' = subs
    /\ UNCHANGED <<td, factories, clients>>

\* readAllProperties looks up a property and keeps it when it has a form;
\* one that has no client ends the call.
LookUp(sum, a) ==
    LET found == ClientFor(sum.clients, a, "readproperty", None)
    IN  IF sum.call.outcome = "thrown" THEN sum
        ELSE [clients |-> found.clients, call |-> found.call,
              read |-> IF found.call.outcome = "chosen" THEN Append(sum.read, a) ELSE sum.read]

LookUps(names) ==
    LET look[k \in 0..Len(names)] ==
          IF k = 0 THEN [clients |-> clients, call |-> NoCall, read |-> <<>>]
          ELSE LookUp(look[k - 1], names[k])
    IN  look

\* The readings of the properties that it has kept.
Readings(looked) ==
    LET read[k \in 0..Len(looked.read)] ==
          IF k = 0 THEN [clients |-> looked.clients, call |-> looked.call]
          ELSE ClientFor(read[k - 1].clients, looked.read[k], "readproperty", None)
    IN  read

\* All properties are looked up, one after the other, and then those with a
\* form are read, before the first answer.
ReadAll ==
    LET names == SetToSeq({a \in DOMAIN Affordances : Affordances[a].kind = "property"})
        looked == LookUps(names)[Len(names)]
    IN  /\ names # <<>>
        /\ Becomes(IF looked.call.outcome = "thrown" THEN looked
                   ELSE Readings(looked)[Len(looked.read)], TRUE)
        /\ UNCHANGED <<td, factories, subs>>

\* stop(): the client is asked for by the place of the form, which can throw,
\* but that of the subscription is used.
Stop(x) ==
    LET op == Ending(x.op)
        result == ClientFor(clients, x.a, op, EndingForm(x.a, x.form, op))
    IN  /\ clients' = result.clients
        /\ call' = IF result.call.outcome = "chosen"
                   THEN [result.call EXCEPT !.outcome = "stopped", !.client = x.client]
                   ELSE result.call
        /\ subs' = IF result.call.outcome = "chosen" THEN subs \ {x} ELSE subs
        /\ UNCHANGED <<td, factories>>

\* The runtime adds and removes bindings; clients that are kept stay.
AddFactory(s) == s \notin factories /\ factories' = factories \cup {s} /\ UNCHANGED <<td, clients, call, subs>>
RemoveFactory(s) == s \in factories /\ factories' = factories \ {s} /\ UNCHANGED <<td, clients, call, subs>>

Next ==
    \/ \E a \in DOMAIN Affordances, proper \in BOOLEAN :
          \E op \in OpsOf(Affordances[a].kind),
             index \in {None} \cup 1..(Len(Forms(a)) + 1) : Interact(a, op, index, proper)
    \/ Answer
    \/ ReadAll
    \/ \E x \in subs : Stop(x)
    \/ \E s \in Schemes : AddFactory(s) \/ RemoveFactory(s)

Spec == Init /\ [][Next]_vars

-----------------------------------------------------------------------------
(* Properties                                                              *)

TheForm == Forms(call.a)[call.form]

\* A request that nobody gave a form for goes out with a form for its
\* operation and to a client of the scheme of the form, whatever clients the
\* calls and the runtime have left behind, unless the href of the form
\* mentions the scheme of another form, whose client it then can go to; only
\* a form whose `op` is a string can be one that ends what it should start.
\* This is about getClientFor, which chooses the client by one form and the
\* form by the client, with a search for the scheme all through the href.
FormFitsClient ==
    call.outcome = "chosen" =>
        /\ call.client.scheme # TheForm.scheme =>
              /\ call.index = None /\ call.client.scheme \in TheForm.mentions
              /\ \E f \in Range(Forms(call.a)) : f.scheme = call.client.scheme
        /\ call.index = None =>
              call.op \in TheForm.ops \/ TheForm.ops = {} \/ TheForm.single

\* Where all forms that mention the scheme of a client, and the Thing, ask for
\* one security and it can be set, each request of it goes out with it, also one after the runtime has
\* removed and added the factory; but not one for which a form index is given
\* when the scheme has a client already.  This is about the cache #clients,
\* which three paths fill, before or after the security is set.
SecuredOrKnown ==
    LET same == /\ SecurityAfter(None) = SecurityAfter(TheForm)
                /\ \A a \in DOMAIN Affordances : \A i \in DOMAIN Forms(a) :
                      call.client.scheme \in Forms(a)[i].mentions =>
                         /\ SecurityAfter(Forms(a)[i]) = SecurityAfter(TheForm)
                         /\ ~SecurityFails(Forms(a)[i])
    IN  call.outcome = "chosen" /\ same =>
            call.stale \/ call.client.security = SecurityAfter(TheForm)
=============================================================================
