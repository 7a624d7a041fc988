-------------------------- MODULE MonitoredResources --------------------------
(***************************************************************************)
(* The monitored resource that telemetry is written against, made of the   *)
(* attributes of its OpenTelemetry resource: internal/resourcemapping for  *)
(* the collector and the SDK, and googlemanagedprometheus for the          *)
(* prometheus_target.                                                      *)
(*                                                                         *)
(* Attributes are a function from keys to values.  A value is "", Unknown  *)
(* (one that starts with unknown_service, as the SDKs set service.name),   *)
(* or any other; a value made of several is a sequence of them.            *)
(***************************************************************************)
EXTENDS Integers, Sequences, SequencesExt

Unknown == "unknown_service"

Locations == <<"cloud.availability_zone", "cloud.region">>

gce_instance == [zone |-> <<"cloud.availability_zone">>, instance_id |-> <<"host.id">>]
k8s_cluster == [location |-> Locations, cluster_name |-> <<"k8s.cluster.name">>]
k8s_node == [location |-> Locations, cluster_name |-> <<"k8s.cluster.name">>,
             node_name |-> <<"k8s.node.name">>]
k8s_pod == [location |-> Locations, cluster_name |-> <<"k8s.cluster.name">>,
            namespace_name |-> <<"k8s.namespace.name">>, pod_name |-> <<"k8s.pod.name">>]
k8s_container == [location |-> Locations, cluster_name |-> <<"k8s.cluster.name">>,
                  namespace_name |-> <<"k8s.namespace.name">>, pod_name |-> <<"k8s.pod.name">>,
                  container_name |-> <<"k8s.container.name">>]
gae_app == [location |-> Locations, module_id |-> <<"faas.name">>,
            version_id |-> <<"faas.version">>]
gae_instance == [location |-> Locations, module_id |-> <<"faas.name">>,
                 version_id |-> <<"faas.version">>, instance_id |-> <<"faas.instance">>]
aws_ec2_instance == [instance_id |-> <<"host.id">>, region |-> Locations,
                     aws_account |-> <<"cloud.account.id">>]
bms_instance == [location |-> <<"cloud.region">>, instance_id |-> <<"host.id">>]
generic_task == [location |-> Locations, namespace |-> <<"service.namespace">>,
                 job |-> <<"service.name", "faas.name">>,
                 task_id |-> <<"service.instance.id", "faas.instance">>]
generic_node == [location |-> Locations, namespace |-> <<"service.namespace">>,
                 node_id |-> <<"host.id", "host.name">>]

monitoredResourceMappings ==
    [gce_instance |-> gce_instance, k8s_container |-> k8s_container,
     k8s_pod |-> k8s_pod, k8s_node |-> k8s_node, k8s_cluster |-> k8s_cluster,
     gae_instance |-> gae_instance, gae_app |-> gae_app,
     aws_ec2_instance |-> aws_ec2_instance, bms_instance |-> bms_instance,
     generic_task |-> generic_task, generic_node |-> generic_node]

fallbackLiteral(type, label) ==
    IF type \in {"generic_task", "generic_node"} /\ label = "location" THEN "global" ELSE ""

Has(attrs, key) == key \in DOMAIN attrs
GetString(attrs, key) == IF Has(attrs, key) THEN attrs[key] ELSE ""

(* The keys in order until a value that is usable; when none is, the value *)
(* of the last stands.                                                     *)
Usable(value) == value # "" /\ value # Unknown
Coalesced_FirstPresent(attrs, keys) ==
    LET present == {n \in DOMAIN keys : Has(attrs, keys[n])}
    IN  GetString(attrs, keys[IF present = {} THEN Len(keys) ELSE Min(present)])
Coalesced(attrs, keys) ==
    LET usable == {n \in DOMAIN keys : Usable(GetString(attrs, keys[n]))}
    IN  GetString(attrs, keys[IF usable = {} THEN Len(keys) ELSE Min(usable)])

LabelValue(type, label, attrs) ==
    LET keys == monitoredResourceMappings[type][label]
        named == IF Coalesced(attrs, keys) = "" /\ Contains(keys, "service.name")
                 THEN GetString(attrs, "service.name") ELSE Coalesced(attrs, keys)
    IN  IF named = "" THEN fallbackLiteral(type, label) ELSE named

createMonitoredResource(type, attrs) ==
    [type |-> type,
     labels |-> [l \in DOMAIN monitoredResourceMappings[type] |-> LabelValue(type, l, attrs)]]

(* Whether a key is there chooses the type, whatever its value.            *)
KubernetesType(attrs) ==
    CASE Has(attrs, "k8s.container.name") -> "k8s_container"
      [] ~Has(attrs, "k8s.container.name") /\ Has(attrs, "k8s.pod.name") -> "k8s_pod"
      [] OTHER -> IF Has(attrs, "k8s.node.name") THEN "k8s_node" ELSE "k8s_cluster"

IsTask(attrs) ==
    \/ Has(attrs, "service.name") /\ Has(attrs, "service.instance.id")
    \/ Has(attrs, "faas.name") /\ Has(attrs, "faas.instance")

CommonType(attrs) ==
    LET platform == GetString(attrs, "cloud.platform") IN
    CASE platform = "gcp_compute_engine" -> "gce_instance"
      [] platform = "aws_ec2" -> "aws_ec2_instance"
      [] platform = "gcp_bare_metal_solution" -> "bms_instance"
      [] OTHER -> IF Has(attrs, "k8s.cluster.name") THEN KubernetesType(attrs)
                  ELSE IF IsTask(attrs) THEN "generic_task" ELSE "generic_node"

OnAppEngine(attrs) == GetString(attrs, "cloud.platform") = "gcp_app_engine"

ForLogging(attrs) ==
    createMonitoredResource(IF OnAppEngine(attrs) THEN "gae_app" ELSE CommonType(attrs), attrs)
ForMonitoring(attrs) ==
    createMonitoredResource(IF OnAppEngine(attrs) THEN "gae_instance" ELSE CommonType(attrs), attrs)

(* The SDK: a resource that names the type the exporter was told to map    *)
(* keeps the labels it has of that type.                                   *)
ForSDK(attrs, description) ==
    IF Has(attrs, "gcp.resource_type") /\ attrs["gcp.resource_type"] = description.type
    THEN [type |-> description.type,
          labels |-> [l \in DOMAIN attrs \cap description.labels |-> attrs[l]]]
    ELSE ForMonitoring(attrs)
-----------------------------------------------------------------------------
(* googlemanagedprometheus                                                 *)

promTargetKeys ==
    [location  |-> <<"location">> \o Locations,
     cluster   |-> <<"cluster", "k8s.cluster.name", "k8s.cluster.uid">>,
     namespace |-> <<"namespace", "k8s.namespace.name">>,
     job       |-> <<"job", "service.name", "faas.name", "k8s.deployment.name", "k8s.statefulset.name",
                     "k8s.daemonset.name", "k8s.job.name", "k8s.cronjob.name">>,
     instance  |-> <<"instance", "service.instance.id", "faas.instance", "k8s.pod.name", "host.id">>]

(* The first key that is there, be its value empty, but for an unknown     *)
(* service, which is the last resort of the keys that have a service name. *)
FoundKey(attrs, keys) ==
    LET found == {n \in DOMAIN keys : Has(attrs, keys[n]) /\ attrs[keys[n]] # Unknown}
    IN  CASE found # {} -> keys[Min(found)]
          [] found = {} /\ Contains(keys, "service.name") /\ Has(attrs, "service.name") -> "service.name"
          [] OTHER -> ""
StringOrDefault(attrs, orElse, keys) ==
    IF FoundKey(attrs, keys) = "" THEN orElse ELSE attrs[FoundKey(attrs, keys)]

DefaultClusterName(attrs) ==
    CASE GetString(attrs, "cloud.platform") = "gcp_compute_engine" -> "__gce__"
      [] GetString(attrs, "cloud.platform") = "gcp_cloud_run" -> "__run__"
      [] OTHER -> ""

Job(attrs) == <<StringOrDefault(attrs, "", <<"service.namespace">>),
                StringOrDefault(attrs, "", promTargetKeys.job)>>

(* A pod has an instance for each of its containers.                       *)
Instance_Pod(attrs) == <<StringOrDefault(attrs, "", promTargetKeys.instance)>>
Instance(attrs) ==
    <<StringOrDefault(attrs, "", promTargetKeys.instance)>> \o
        IF FoundKey(attrs, promTargetKeys.instance) = "k8s.pod.name" /\ Has(attrs, "k8s.container.name")
        THEN <<attrs["k8s.container.name"]>> ELSE <<>>

MapToPrometheusTarget(attrs) ==
    [type   |-> "prometheus_target",
     labels |-> [location  |-> StringOrDefault(attrs, "", promTargetKeys.location),
                 cluster   |-> StringOrDefault(attrs, DefaultClusterName(attrs), promTargetKeys.cluster),
                 namespace |-> StringOrDefault(attrs, "", promTargetKeys.namespace),
                 job       |-> Job(attrs),
                 instance  |-> Instance(attrs)]]
-----------------------------------------------------------------------------
(* The keys that tell apart the instances of what a resource describes.    *)
Identity(type) ==
    CASE type \in {"gce_instance", "aws_ec2_instance", "bms_instance", "generic_node"} -> {"host.id"}
      [] type = "k8s_container" -> {"k8s.cluster.name", "k8s.pod.name", "k8s.container.name"}
      [] type = "k8s_pod" -> {"k8s.cluster.name", "k8s.pod.name"}
      [] type = "k8s_node" -> {"k8s.cluster.name", "k8s.node.name"}
      [] type = "k8s_cluster" -> {"k8s.cluster.name"}
      [] type = "gae_instance" -> {"faas.name", "faas.instance"}
      [] type = "gae_app" -> {"faas.name"}
      [] type = "generic_task" -> {"service.name", "service.instance.id"}

(* A resource that names its type.                                         *)
OfType(type, attrs) ==
    [k \in DOMAIN attrs \cup {"gcp.resource_type"} |->
        IF k = "gcp.resource_type" THEN type ELSE attrs[k]]

(* Resources that differ in one usable value of such a key are not written *)
(* to the same monitored resource, by logs, metrics or the SDK, which also *)
(* tells them apart by each label of the type it was told to map to; nor   *)
(* two containers of a pod to the same prometheus_target, unless the       *)
(* instance of a service was given.                                        *)
InstancesToldApart(attrs, key, other) ==
    LET changed == [attrs EXCEPT ![key] = other]
        Apart(one, another) == key \in Identity(one.type) => one # another
        told == [type |-> "told", labels |-> {key}]
    IN  Usable(attrs[key]) /\ Usable(other) /\ attrs[key] # other =>
        /\ Apart(ForMonitoring(attrs), ForMonitoring(changed))
        /\ Apart(ForLogging(attrs), ForLogging(changed))
        /\ ForSDK(attrs, [type |-> "", labels |-> {}]) = ForMonitoring(attrs)
        /\ key # "gcp.resource_type" =>
               ForSDK(OfType("told", attrs), told) # ForSDK(OfType("told", changed), told)
        /\ key \in {"k8s.pod.name", "k8s.container.name"} /\ Has(attrs, "k8s.pod.name")
               /\ DOMAIN attrs \cap {"instance", "service.instance.id", "faas.instance"} = {}
           => MapToPrometheusTarget(attrs) # MapToPrometheusTarget(changed)

(* An unknown service gives way to any other name, and is not lost when    *)
(* there is none.                                                          *)
ServiceIsNamed(attrs) ==
    LET known == {GetString(attrs, k) : k \in {"service.name", "faas.name"}} \ {"", Unknown}
        job == LabelValue("generic_task", "job", attrs)
    IN  /\ job \in IF known # {} THEN known ELSE {GetString(attrs, "service.name"), GetString(attrs, "faas.name")}
        /\ GetString(attrs, "service.name") # "" => job # ""
        /\ DOMAIN attrs \cap Range(promTargetKeys.job) \subseteq {"service.name", "faas.name"}
               /\ "" \notin {attrs[k] : k \in DOMAIN attrs}
           => Job(attrs)[2] = job
=============================================================================
