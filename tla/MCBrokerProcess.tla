-------------------------- MODULE MCBrokerProcess --------------------------
(* The instance of BrokerProcess for TLC takes its constants from the cfg.    *)
EXTENDS BrokerProcess
=============================================================================
