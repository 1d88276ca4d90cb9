------------------------------ MODULE MC_Observer ------------------------------
(* Two resource names and every single-command operation of Openshift.    *)
EXTENDS Observer

MC_Names == {"a", "b"}
MC_AllOps == {"is_resource_in", "get_pod_status", "new_app", "oc_apply",
              "oc_create_from_yaml", "new_app_with_params", "new_app_from_file",
              "start_build", "get_configmap", "get_deploymentconfig", "get_service",
              "get_service_account", "get_role_binding", "get_route",
              "expose_service_route", "get_route_host",
              "check_for_deployment_config_status", "set_env_for_deployment_config",
              "get_deployment_env_info", "get_deployment_envFrom_info",
              "exec_container_in_pod", "exec_in_pod", "oc_process_template",
              "delete", "getmasterpod", "scaleReplicas"}
=============================================================================
