CONSTANTS
    Ssid = {"home"}
    Password = {"secret"}
    Faults = {"esp_wifi_init", "esp_wifi_start", "esp_wifi_set_mode", "esp_wifi_set_config", "esp_wifi_connect", "esp_wifi_disconnect", "esp_wifi_stop", "esp_netif_create", "httpd_start", "httpd_stop", "dns_start", "nvs_open", "nvs_get_str", "nvs_set_str", "nvs_commit", "xTaskCreate"}
    MaxConnectAttempts = 2
    InitialReconnectDelayMs = 0
    MaxReconnectDelayMs = 100
    EventQueueCapacity = 2
    QueueCapacity = 1
    TickMs = 100
    Inputs = {"Stop", "ForceProvisioning", "Network", "PowerLoss"}
    StopMayTimeOut = TRUE
    MaxDriverEvents = 2
SPECIFICATION Spec
INVARIANTS
    StoppedIsQuiet
PROPERTIES
    RestingStays
    PortalOutlivesOnlyErrors
    ImplementsLifecycle
