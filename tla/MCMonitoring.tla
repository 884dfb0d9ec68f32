---------------------------- MODULE MCMonitoring ----------------------------
EXTENDS Monitoring

UnitLatencies == {1}
=============================================================================
