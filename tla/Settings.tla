------------------------------- MODULE Settings -------------------------------
(***************************************************************************)
(* What the exporters find out about where they run and whom they act for: *)
(* the platform detector (detectors/gcp), the client authentication        *)
(* extension (extension/googleclientauthextension), and the options of the *)
(* exporters of the collector and the SDK.                                 *)
(*                                                                         *)
(* env is a function from the environment variables that are set to their  *)
(* values; served is the set of the metadata keys that the metadata server *)
(* answers.  Absent stands for a value that is not found.                  *)
(***************************************************************************)
EXTENDS Integers, Sequences, FiniteSets, SequencesExt

Absent == "absent"
Set(env, name) == name \in DOMAIN env
Getenv(env, name) == IF Set(env, name) THEN env[name] ELSE ""

(* The first place of some, 0 if there is none.                            *)
FirstAt(places) == IF places = {} THEN 0 ELSE Min(places)
LookupFirst(env, names) ==
    LET at == FirstAt({n \in DOMAIN names : Set(env, names[n])})
    IN  IF at = 0 THEN Absent ELSE env[names[at]]

Bms == {"BMS_PROJECT_ID", "BMS_REGION", "BMS_INSTANCE_ID"}
onBareMetalSolution(env) == \A n \in Bms : Getenv(env, n) # ""
onGKE(env, served) == Set(env, "KUBERNETES_SERVICE_HOST") /\ "cluster-location" \in served
onGCE(served) == "machine-type" \in served
onAppEngineStandard(env) == Getenv(env, "GAE_ENV") = "standard"

(* The first that applies.                                                 *)
Platforms_AnyFlex == <<"BareMetalSolution", "GKE", "CloudFunctions", "CloudRun", "CloudRunJob",
    "CloudRunWorkerPool", "AppEngineFlex", "AppEngineStandard", "GCE">>
Platforms == <<"BareMetalSolution", "GKE", "CloudFunctions", "CloudRun", "CloudRunJob",
    "CloudRunWorkerPool", "AppEngineStandard", "AppEngineFlex", "GCE">>
On(platform, env, served) ==
    CASE platform = "BareMetalSolution" -> onBareMetalSolution(env)
      [] platform = "GKE" -> onGKE(env, served)
      [] platform = "CloudFunctions" -> Set(env, "FUNCTION_TARGET")
      [] platform = "CloudRun" -> Set(env, "K_CONFIGURATION")
      [] platform = "CloudRunJob" -> Set(env, "CLOUD_RUN_JOB")
      [] platform = "CloudRunWorkerPool" -> Set(env, "CLOUD_RUN_WORKER_POOL")
      [] platform = "AppEngineStandard" -> onAppEngineStandard(env)
      [] platform = "AppEngineFlex" -> Set(env, "GAE_SERVICE")
      [] platform = "GCE" -> onGCE(served)
CloudPlatform(env, served) ==
    LET at == FirstAt({n \in DOMAIN Platforms : On(Platforms[n], env, served)})
    IN  IF at = 0 THEN "UnknownPlatform" ELSE Platforms[at]

FaaSName(env) == LookupFirst(env, <<"K_SERVICE", "CLOUD_RUN_JOB", "CLOUD_RUN_WORKER_POOL">>)

(* A location is the sequence of its parts, which dashes separate.         *)
GKEAvailabilityZoneOrRegion(parts) ==
    CASE Len(parts) = 2 -> [location |-> parts, type |-> "Region"]
      [] Len(parts) = 3 -> [location |-> parts, type |-> "Zone"]
      [] OTHER -> [location |-> <<>>, type |-> "Undefined"]
GCEAvailabilityZoneAndRegion_AllParts(parts) ==
    IF Len(parts) >= 2 THEN [zone |-> parts, region |-> SubSeq(parts, 1, 2)]
    ELSE [zone |-> <<>>, region |-> <<>>]
GCEAvailabilityZoneAndRegion(parts) ==
    IF Len(parts) >= 3 THEN [zone |-> parts, region |-> SubSeq(parts, 1, 2)]
    ELSE [zone |-> <<>>, region |-> <<>>]

-----------------------------------------------------------------------------
(* The extension.  Credentials are [found, project, quota, source], where  *)
(* a project is "" if there is none, and source says whether an ID token   *)
(* source can be made of them.  Start keeps what it finds in the config,   *)
(* though it fails at the token source.                                    *)
Coalesce(values) ==
    LET at == FirstAt({n \in DOMAIN values : values[n] # ""}) IN IF at = 0 THEN "" ELSE values[at]
ValidExtension(config) ==
    /\ config.tokenType \in {"access_token", "id_token"}
    /\ config.tokenType = "id_token" => config.audience # ""
    /\ config.tokenHeader \in {"authorization", "proxy-authorization"}

StartProject_CredsFirst(config, env, creds) ==
    Coalesce(<<config.project, creds.project, Getenv(env, "GOOGLE_CLOUD_PROJECT")>>)
StartProject(config, env, creds) ==
    Coalesce(<<config.project, Getenv(env, "GOOGLE_CLOUD_PROJECT"), creds.project>>)
newTokenSource(config, creds) == config.tokenType = "id_token" => creds.source
StartExtension(config, env, creds) ==
    IF ~creds.found \/ StartProject(config, env, creds) = "" THEN [started |-> FALSE, config |-> config]
    ELSE [started |-> newTokenSource(config, creds),
          config  |-> [config EXCEPT !.project = StartProject(config, env, creds),
                                     !.quota = Coalesce(<<@, creds.quota>>)]]

(* The headers of a request: HTTP takes the one that is configured for the *)
(* token, gRPC always authorization.                                       *)
Parameters(config) == [project |-> config.project, quota |-> config.quota]
RoundTripper(ext) ==
    [sent |-> ext.started,
     token |-> IF ext.config.tokenHeader = "proxy-authorization" THEN "proxy-authorization"
              ELSE "authorization",
     parameters |-> Parameters(ext.config)]
GetRequestMetadata(ext) ==
    [sent |-> ext.started, token |-> "authorization", parameters |-> Parameters(ext.config)]
-----------------------------------------------------------------------------
(* The exporters of the collector.  A client is [endpoint, insecure,       *)
(* given, options]: whether GetClientOptions is set, and what it gives, {} *)
(* if it is not.  A host is [there, extensions], a function from names to  *)
(* [interfaces, options, perRPC]: what ClientOptions gives, and whether    *)
(* PerRPCCredentials gives any.  creds are Absent or the project of the    *)
(* default credentials; failing are the library calls that fail.           *)
ValidMappings(mappings) ==
    \A m, n \in DOMAIN mappings :
        m # n => /\ mappings[m].key # mappings[n].key
                 /\ mappings[m].replacement # mappings[n].replacement
mappingFuncFromAKM(mappings, key) ==
    LET at == FirstAt({n \in DOMAIN mappings : mappings[n].key = key})
    IN  IF at = 0 THEN key ELSE mappings[at].replacement

(* The options of the authenticator extension, by the first interface it   *)
(* has; one for client options is passed over if it gives none.            *)
AuthInterfaces == <<"ClientOptions", "ContextTokenSource", "TokenSource", "GRPCClient">>
Offers_Empty(ext, interface) == interface \in ext.interfaces
Offers(ext, interface) ==
    interface \in ext.interfaces /\ (interface = "ClientOptions" => ext.options # {})
NoAuth == [ok |-> FALSE, options |-> {}]
ExtensionOptions(ext) ==
    LET at == FirstAt({n \in DOMAIN AuthInterfaces : Offers(ext, AuthInterfaces[n])})
    IN  CASE at = 0 \/ (at = 4 /\ ~ext.perRPC) -> NoAuth
          [] at = 1                            -> [ok |-> TRUE, options |-> ext.options]
          [] OTHER                             -> [ok |-> TRUE, options |-> {AuthInterfaces[at]}]
getAuthenticatorClientOptions(name, host) ==
    CASE ~host.there                                -> [ok |-> TRUE, options |-> {}]
      [] host.there /\ name \notin DOMAIN host.extensions -> NoAuth
      [] host.there /\ name \in DOMAIN host.extensions    -> ExtensionOptions(host.extensions[name])

(* Start: an authenticator counts only if GetClientOptions is not set.     *)
Authenticates_IfNoOptions(config, client) == config.authenticator # "" /\ client.options = {}
Authenticates(config, client) == config.authenticator # "" /\ ~client.given
AuthOptions(config, client, host) ==
    IF Authenticates(config, client) THEN getAuthenticatorClientOptions(config.authenticator, host)
    ELSE [ok |-> TRUE, options |-> client.options]

UsesDefaultCredentials_Always(config, client) == config.project = ""
UsesDefaultCredentials(config, client) ==
    /\ config.project = ""
    /\ config.impersonate \/ (~client.insecure /\ client.options = {})
ProjectToUse(config, client, creds) ==
    IF UsesDefaultCredentials(config, client) /\ creds # Absent THEN creds ELSE config.project

(* grpc.NewClient, and impersonate.NewCredentials, which makes its         *)
(* credentials of the default ones.                                        *)
Dials(client) == client.endpoint # "" /\ client.insecure
Impersonates(config, creds, failing) ==
    config.impersonate => creds # Absent /\ "impersonate.NewCredentials" \notin failing
generateClientOptions(config, client, creds, failing) ==
    [ok      |-> /\ Dials(client) => "grpc.NewClient" \notin failing
                 /\ UsesDefaultCredentials(config, client) => creds # Absent
                 /\ Impersonates(config, creds, failing)
                 /\ ProjectToUse(config, client, creds) # "",
     project |-> ProjectToUse(config, client, creds),
     dial    |-> IF client.endpoint = "" THEN "default"
                 ELSE IF client.insecure THEN "insecure" ELSE "endpoint",
     options |-> client.options \cup IF config.impersonate THEN {"impersonate"} ELSE {}]

(* Start, up to the making of the client.                                  *)
StartExporter(config, client, host, creds, failing) ==
    LET auth == AuthOptions(config, client, host)
        made == generateClientOptions(config, [client EXCEPT !.options = auth.options], creds, failing)
    IN  [made EXCEPT !.ok = @ /\ auth.ok]

(* The SDK exporters: a project given as spaces is refused for metrics.    *)
NewSDKExporter(project, creds) ==
    IF project # "" THEN project ELSE IF creds \in {Absent, ""} THEN Absent ELSE creds
-----------------------------------------------------------------------------
(* The platform is the most specific there is evidence of: what runs on a  *)
(* machine is not taken for the machine, nor GKE for another Kubernetes;   *)
(* and what the resource needs from the platform can be had.               *)
PlatformDetected(env, served) ==
    LET p == CloudPlatform(env, served) IN
    /\ p = "GCE" => \A q \in Range(Platforms) \ {"GCE"} : ~On(q, env, served)
    /\ p = "GKE" => "cluster-location" \in served
    /\ p = "AppEngineFlex" => Getenv(env, "GAE_ENV") # "standard"
    /\ p \in {"CloudRunJob", "CloudRunWorkerPool"} => FaaSName(env) # Absent
    /\ p = "UnknownPlatform" => served \cap {"machine-type"} = {}

(* A zone has a region, GKE and GCE read the same zone, and a region is    *)
(* not taken for a zone by either.                                         *)
ZonesAgree(parts) ==
    LET gke == GKEAvailabilityZoneOrRegion(parts)
        gce == GCEAvailabilityZoneAndRegion(parts)
    IN  /\ gke.type = "Zone" => gce.zone = parts /\ gke.location = parts
        /\ gke.type = "Region" => gce.zone = <<>>
        /\ gce.zone # <<>> => GKEAvailabilityZoneOrRegion(gce.region).type = "Region"

(* An extension that has started sends a project, the same over HTTP and   *)
(* gRPC; what is configured wins over the environment, and the environment *)
(* over the credentials.  What it has found once, even if it did not start *)
(* for want of a token source, it keeps when it is started again elsewhere *)
(* and with other credentials.                                             *)
ExtensionResolved(config, env, creds, env2, creds2) ==
    LET ext == StartExtension(config, env, creds)
        again == StartExtension(ext.config, env2, creds2)
    IN  ValidExtension(config) =>
        /\ ext.started =>
             /\ RoundTripper(ext).sent /\ GetRequestMetadata(ext).sent
             /\ RoundTripper(ext).parameters = GetRequestMetadata(ext).parameters
             /\ RoundTripper(ext).parameters.project # ""
             /\ RoundTripper(ext).token = config.tokenHeader
             /\ config.project = "" /\ Getenv(env, "GOOGLE_CLOUD_PROJECT") # "" =>
                    ext.config.project = env["GOOGLE_CLOUD_PROJECT"]
        /\ config.project # "" => ext.config.project = config.project
        /\ config.quota # "" => ext.config.quota = config.quota
        /\ ext.config.project # "" =>
             /\ again.config.project = ext.config.project
             /\ again.started <=> creds2.found /\ newTokenSource(config, creds2)
        /\ ext.config.quota # "" => again.config.quota = ext.config.quota

(* A project that is configured is the one that is used, by the SDK as     *)
(* well, and is enough to start with, without default credentials, unless  *)
(* they are to be impersonated with.                                       *)
ConfiguredIsEnough(config, client, host, creds, failing) ==
    LET exporter == StartExporter(config, client, host, creds, failing) IN
    config.project # "" =>
        /\ exporter.project = config.project
        /\ NewSDKExporter(config.project, creds) = exporter.project
        /\ failing = {} /\ ~config.impersonate /\ ~Authenticates(config, client) => exporter.ok

(* An exporter that starts has a project; it is that of the default        *)
(* credentials only if none is configured and nothing else was given to    *)
(* act with, by an authenticator for one; and the SDK exporters agree on   *)
(* it.  What GetClientOptions gives, and be it nothing, is not replaced by *)
(* an authenticator, and one that is asked in a host gives something.      *)
ProjectResolved(config, client, host, creds, failing) ==
    LET exporter == StartExporter(config, client, host, creds, failing) IN
    /\ client.given => exporter.options \ {"impersonate"} = client.options
    /\ exporter.ok =>
          /\ exporter.project # ""
          /\ Authenticates(config, client) /\ host.there => exporter.options \ {"impersonate"} # {}
          /\ config.project = "" =>
                /\ exporter.project = NewSDKExporter("", creds)
                /\ config.impersonate \/ (exporter.dial # "insecure" /\ exporter.options = {})

(* Without an endpoint, use_insecure makes no connection insecure: at most *)
(* it keeps an exporter from starting, for want of the project of the      *)
(* default credentials, though config.go says it has no effect.            *)
InsecureAtEndpoint(config, client, host, creds, failing) ==
    LET exporter == StartExporter(config, client, host, creds, failing) IN
    client.endpoint = "" /\ exporter.ok =>
        exporter = StartExporter(config, [client EXCEPT !.insecure = FALSE], host, creds, failing)

(* Attributes with different keys keep them, if the mappings are valid and *)
(* the replacements are not the keys of other attributes.                  *)
MappedKeysApart(mappings, key, other) ==
    /\ ValidMappings(mappings) /\ key # other
    /\ \A m \in Range(mappings) : m.replacement \notin {key, other}
    => mappingFuncFromAKM(mappings, key) # mappingFuncFromAKM(mappings, other)
=============================================================================
