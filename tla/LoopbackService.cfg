SPECIFICATION Spec
CONSTANTS NSessions = 3
          Depth = 2
PROPERTIES BrokerComesBack ServedWhenLowerSilent
